------------------------- MODULE FileSystemsProofs -------------------------
(***************************************************************************)
(* Proofs about the file systems: the server's records of file systems,     *)
(* claims and links, on the inductive invariant ServerInv of FileServer;    *)
(* the read cache of a client, on CacheInv of ReadCache; and the answers of *)
(* the operations on whole trees, on TreeInv of ClientTree.                 *)
(***************************************************************************)
EXTENDS MCFileSystems, FiniteSetTheorems, SequenceTheorems, TLAPS

-----------------------------------------------------------------------------
(* The server's records: types *)

LEMMA RowsOf ==
  ASSUME NEW is \in S!BoundedSeq(DOMAIN fs, 2), is # <<>>, DOMAIN fs \subseteq Ids,
         NEW rows \in S!Injection(DOMAIN is, S!Range(is))
  PROVE  /\ is \in Seq(Ids) /\ rows \in Seq(Ids) /\ Len(rows) = Len(is) /\ 1 \in DOMAIN is
         /\ S!Range(is) \subseteq DOMAIN fs
<1>1. PICK m \in 0..2 : is \in [1..m -> DOMAIN fs]
  BY DEF S!BoundedSeq, S!SeqOf
<1>2. is \in Seq(Ids) /\ Len(is) = m /\ DOMAIN is = 1..m /\ S!Range(is) \subseteq DOMAIN fs
  BY <1>1 DEF S!Range
<1>3. rows \in [1..m -> S!Range(is)]
  BY <1>2 DEF S!Injection
<1>4. rows \in Seq(Ids) /\ Len(rows) = m
  BY <1>2, <1>3
<1>5. m # 0
  BY <1>1
<1>. QED
  BY <1>1, <1>2, <1>4, <1>5

LEMMA RequestShapes ==
  ASSUME S!TypeOK, NEW t \in Threads
  PROVE  /\ req[t] \in S!Requests
         /\ S!At(t, "create") => req[t] \in S!Creates
         /\ req[t].pc \in {"deletePVC", "delete"} => req[t] \in S!Deletes
         /\ S!At(t, "link") => req[t] \in S!Links
         /\ S!At(t, "unlink") => req[t] \in S!Unlinks
         /\ S!At(t, "lock") => req[t] \in S!Links \cup S!Unlinks
         /\ S!At(t, "save") => req[t] \in S!Saves
         /\ req[t].pc \in S!Moving => req[t] \in S!Moves
         /\ S!At(t, "undo") => req[t] \in S!Links
         /\ req[t].pc \in S!Claiming => req[t] \in S!Claims
<1>1. req[t] \in S!Requests
  BY DEF S!TypeOK
<1>2. req[t] \in S!Creates => req[t].pc = "create"
  BY DEF S!Creates
<1>3. req[t] \in S!Deletes => req[t].pc \in {"deletePVC", "delete"}
  BY DEF S!Deletes
<1>4. req[t] \in S!Links => req[t].pc \in {"link", "lock", "undo"}
  BY DEF S!Links
<1>5. req[t] \in S!Unlinks => req[t].pc \in {"unlink", "lock"}
  BY DEF S!Unlinks
<1>6. req[t] \in S!Saves => req[t].pc = "save"
  BY DEF S!Saves
<1>7. req[t] \in S!Moves => req[t].pc \in {"moveAway", "rename"}
  BY DEF S!Moves
<1>8. req[t] \in S!Claims =>
        req[t].pc \in {"getPV", "createPV", "getPVC", "getPVCUnbound", "createPVC", "createPVCUnbound"}
  BY DEF S!Claims, S!Claiming
<1>9. S!Idle.pc = "idle"
  BY DEF S!Idle
<1>. QED
  BY <1>1, <1>2, <1>3, <1>4, <1>5, <1>6, <1>7, <1>8, <1>9
     DEF S!Requests, S!At, S!Moving, S!Claiming

LEMMA OperationShapes ==
  ASSUME S!TypeOK, NEW t \in Threads
  PROVE  /\ req[t].op = "create" => req[t] \in S!Creates
         /\ req[t].op = "delete" => req[t] \in S!Deletes
         /\ req[t].op = "claims" => req[t] \in S!Claims
         /\ req[t].op = "link" => req[t] \in S!Links \cup S!Saves \cup S!Moves
         /\ req[t].op = "unlink" => req[t] \in S!Unlinks \cup S!Saves \cup S!Moves
<1>1. req[t] \in S!Requests
  BY DEF S!TypeOK
<1>2. req[t] \in S!Creates => req[t].op = "create"
  BY DEF S!Creates
<1>3. req[t] \in S!Deletes => req[t].op = "delete"
  BY DEF S!Deletes
<1>4. req[t] \in S!Links => req[t].op = "link"
  BY DEF S!Links
<1>5. req[t] \in S!Unlinks => req[t].op = "unlink"
  BY DEF S!Unlinks
<1>6. req[t] \in S!Saves => req[t].op \in {"link", "unlink"}
  BY DEF S!Saves
<1>7. req[t] \in S!Moves => req[t].op \in {"link", "unlink"}
  BY DEF S!Moves
<1>8. req[t] \in S!Claims => req[t].op = "claims"
  BY DEF S!Claims
<1>9. S!Idle.op = "idle"
  BY DEF S!Idle
<1>. QED
  BY <1>1, <1>2, <1>3, <1>4, <1>5, <1>6, <1>7, <1>8, <1>9 DEF S!Requests

\* A request that ends, or fails, leaves its thread idle.
LEMMA IdleTypes ==
  ASSUME S!TypeOK, NEW t \in Threads, S!Done(t)
  PROVE  req' \in [Threads -> S!Requests] /\ req'[t] = S!Idle
BY DEF S!TypeOK, S!Done, S!Requests

\* What Receive() leaves alone, and the request it makes.
LEMMA ReceiveTypes ==
  ASSUME S!TypeOK, NEW t \in Threads, S!Receive(t)
  PROVE  /\ S!TypeOK' /\ req[t] = S!Idle
         /\ UNCHANGED <<fs, pv, pvc, link, meta, lock, faults, deleted, tenants>>
         /\ \A o \in Threads \ {t} : req'[o] = req[o]
         /\ overlap' = (overlap \/ \E o \in Threads \ {t} : req[o] # S!Idle)
         /\ muddled => muddled'
         /\ \/ /\ req'[t] \in S!Creates
               /\ S!Tidy(req'[t].src) => S!checkFsDir(req'[t].src)
            \/ /\ req'[t] \in S!Deletes /\ S!At(t, "deletePVC")' /\ req'[t].left = Namespaces
               /\ req'[t].id \in DOMAIN fs
            \/ /\ req'[t] \in S!Links /\ S!At(t, "link")' /\ S!CheckLinkPath(req'[t].id, req'[t].path)
               /\ req'[t].id \in DOMAIN fs
            \/ req'[t] \in S!Unlinks /\ S!At(t, "unlink")' /\ req'[t].id \in DOMAIN fs
            \/ /\ req'[t] \in S!Claims /\ S!At(t, "getPV")' /\ S!Range(req'[t].ids) \subseteq DOMAIN fs
               /\ ~muddled' => req'[t].rows = req'[t].ids
<1>. USE DEF S!At
<1>0. S!Arrive(t)
  BY DEF S!Receive
<1>1. ASSUME NEW r \in S!Requests, S!Accept(t, r)
      PROVE  /\ S!TypeOK' /\ req[t] = S!Idle /\ req'[t] = r
             /\ UNCHANGED <<fs, pv, pvc, link, meta, lock, faults, deleted, tenants, muddled>>
             /\ \A o \in Threads \ {t} : req'[o] = req[o]
             /\ overlap' = (overlap \/ \E o \in Threads \ {t} : req[o] # S!Idle)
  <2>1. req' \in [Threads -> S!Requests] /\ begun' \in Nat /\ overlap' \in BOOLEAN
    BY <1>0, <1>1 DEF S!TypeOK, S!Accept, S!Arrive
  <2>2. S!TypeOK'
    BY <1>1, <2>1 DEF S!TypeOK, S!Accept
  <2>. QED
    BY <1>0, <1>1, <2>2 DEF S!TypeOK, S!Accept, S!Arrive
<1>2. CASE S!BeginCreate(t)
  <2>1. PICK i \in Ids, s \in Sources :
          /\ S!checkFsDir(s)
          /\ S!Accept(t, [op |-> "create", pc |-> "create", id |-> i, src |-> S!SourceOf(s)])
    BY <1>2 DEF S!BeginCreate, S!ValidateCreateFileSystem
  <2>2. [op |-> "create", pc |-> "create", id |-> i, src |-> S!SourceOf(s)] \in S!Creates
    BY DEF S!Creates, S!Rows
  <2>3. S!Tidy(S!SourceOf(s)) => S!checkFsDir(S!SourceOf(s))
    <3>1. S!Tidy(S!SourceOf(s)) =>
            S!SourceOf(s).kind = s.kind /\ S!SourceOf(s).host = s.host /\ S!SourceOf(s).dir = s.dir
      BY DEF S!SourceOf, S!Tidy
    <3>. QED
      BY <2>1, <3>1 DEF S!checkFsDir
  <2>. QED
    BY <1>1, <2>1, <2>2, <2>3 DEF S!Requests
<1>3. CASE S!BeginDelete(t)
  <2>1. PICK i \in Ids : /\ i \in DOMAIN fs
                         /\ S!Accept(t, [op |-> "delete", pc |-> "deletePVC", id |-> i, left |-> Namespaces])
    BY <1>3 DEF S!BeginDelete, S!ValidateDeleteFs
  <2>2. [op |-> "delete", pc |-> "deletePVC", id |-> i, left |-> Namespaces] \in S!Deletes
    BY NamespacesAssumption DEF S!Deletes, S!Range
  <2>. QED
    BY <1>1, <2>1, <2>2 DEF S!Requests
<1>4. CASE S!BeginLink(t)
  <2>1. PICK i \in Ids, p \in ServerLinks :
          /\ S!CheckLinkPath(i, p) /\ i \in DOMAIN fs
          /\ S!Accept(t, [op |-> "link", pc |-> "link", id |-> i, path |-> p])
    BY <1>4 DEF S!BeginLink, S!ValidateCreateLink
  <2>2. [op |-> "link", pc |-> "link", id |-> i, path |-> p] \in S!Links
    BY DEF S!Links
  <2>. QED
    BY <1>1, <2>1, <2>2 DEF S!Requests
<1>5. CASE S!BeginUnlink(t)
  <2>1. PICK i \in Ids, p \in ServerLinks :
          i \in DOMAIN fs /\ S!Accept(t, [op |-> "unlink", pc |-> "unlink", id |-> i, path |-> p])
    BY <1>5 DEF S!BeginUnlink, S!ValidateDeleteLink
  <2>2. [op |-> "unlink", pc |-> "unlink", id |-> i, path |-> p] \in S!Unlinks
    BY DEF S!Unlinks
  <2>. QED
    BY <1>1, <2>1, <2>2 DEF S!Requests
<1>6. CASE S!BeginClaims(t)
  <2>1. PICK is \in {s \in S!BoundedSeq(DOMAIN fs, 2) : s # <<>> /\ S!IsInjective(s)} :
          \E rows \in S!Injection(DOMAIN is, S!Range(is)) :
            /\ req' = [req EXCEPT ![t] =
                 [op |-> "claims", pc |-> "getPV", ids |-> is, rows |-> rows, k |-> 1, n |-> 1,
                  mock |-> {k \in DOMAIN is : fs[rows[k]].kind = "mock"}]]
            /\ muddled' = (muddled \/ is # rows)
    BY <1>6 DEF S!BeginClaims
  <2>2. PICK rows \in S!Injection(DOMAIN is, S!Range(is)) :
            /\ req' = [req EXCEPT ![t] =
                 [op |-> "claims", pc |-> "getPV", ids |-> is, rows |-> rows, k |-> 1, n |-> 1,
                  mock |-> {k \in DOMAIN is : fs[rows[k]].kind = "mock"}]]
            /\ muddled' = (muddled \/ is # rows)
    BY <2>1
  <2>3. /\ is \in Seq(Ids) /\ rows \in Seq(Ids) /\ Len(rows) = Len(is) /\ 1 \in DOMAIN is
        /\ S!Range(is) \subseteq DOMAIN fs
    BY <2>1, <2>2, RowsOf DEF S!TypeOK
  <2>4. PICK mock \in SUBSET Nat : mock = {k \in DOMAIN is : fs[rows[k]].kind = "mock"}
    <3>1. DOMAIN is \subseteq Nat
      BY <2>3
    <3>. QED
      BY <3>1
  <2>5. PICK r : r = [op |-> "claims", pc |-> "getPV", ids |-> is, rows |-> rows, k |-> 1, n |-> 1,
                      mock |-> mock]
    OBVIOUS
  <2>6. r \in S!Claims /\ r.ids = is /\ r.rows = rows /\ r.pc = "getPV"
    BY <2>3, <2>5, NamespacesAssumption DEF S!Claims, S!Claiming
  <2>7. req' = [req EXCEPT ![t] = r]
    BY <2>2, <2>4, <2>5
  <2>8. req' \in [Threads -> S!Requests] /\ req'[t] = r /\ \A o \in Threads \ {t} : req'[o] = req[o]
    BY <2>6, <2>7 DEF S!TypeOK, S!Requests
  <2>9. /\ UNCHANGED <<fs, grant, pv, pvc, link, meta, lock, faults, deleted, tenants>>
        /\ S!Arrive(t)
    BY <1>0, <1>6 DEF S!BeginClaims
  <2>10. begun' \in Nat /\ overlap' \in BOOLEAN /\ muddled' \in BOOLEAN
    BY <2>2, <2>9 DEF S!Arrive, S!TypeOK
  <2>11. S!TypeOK'
    BY <2>8, <2>9, <2>10 DEF S!TypeOK
  <2>. QED
    BY <2>2, <2>3, <2>6, <2>8, <2>9, <2>11 DEF S!Arrive
<1>. QED
  BY <1>2, <1>3, <1>4, <1>5, <1>6 DEF S!Receive

LEMMA MapTypes ==
  /\ \A f, k, v : /\ DOMAIN S!With(f, k, v) = DOMAIN f \cup {k}
                  /\ \A x \in DOMAIN f \cup {k} : S!With(f, k, v)[x] = IF x = k THEN v ELSE f[x]
  /\ \A f, ks : /\ DOMAIN S!Without(f, ks) = DOMAIN f \ ks
                /\ \A x \in DOMAIN f \ ks : S!Without(f, ks)[x] = f[x]
BY DEF S!With, S!Without

LEMMA CreateTypes ==
  ASSUME S!TypeOK, NEW t \in Threads, S!CreateFileSystem(t)
  PROVE  /\ S!TypeOK' /\ req[t] \in S!Creates /\ req'[t] = S!Idle
         /\ \/ fs' = fs /\ tenants' = tenants
            \/ /\ req[t].id \notin DOMAIN fs /\ fs' = S!With(fs, req[t].id, req[t].src)
               /\ tenants' = tenants \cup {<<req[t].id, req[t].src>>}
<1>1. req[t] \in S!Creates /\ req[t].id \in Ids /\ req[t].src \in S!Rows
  <2>1. req[t] \in S!Creates
    BY RequestShapes DEF S!CreateFileSystem
  <2>. QED
    BY <2>1 DEF S!Creates
<1>2. \/ fs' = fs /\ tenants' = tenants
      \/ /\ req[t].id \notin DOMAIN fs /\ fs' = S!With(fs, req[t].id, req[t].src)
         /\ tenants' = tenants \cup {<<req[t].id, req[t].src>>}
  BY DEF S!CreateFileSystem, S!InsertFileSystem
<1>3. DOMAIN fs' \subseteq Ids /\ fs' \in [DOMAIN fs' -> S!Rows]
  BY <1>1, <1>2 DEF S!TypeOK, S!With
<1>4. req' \in [Threads -> S!Requests] /\ req'[t] = S!Idle
  BY IdleTypes DEF S!CreateFileSystem
<1>5. tenants' \subseteq Ids \X S!Rows
  BY <1>1, <1>2 DEF S!TypeOK
<1>6. S!TypeOK'
  BY <1>3, <1>4, <1>5 DEF S!CreateFileSystem, S!NotFs, S!TypeOK
<1>. QED
  BY <1>1, <1>2, <1>4, <1>6

LEMMA DeletePVCTypes ==
  ASSUME S!TypeOK, NEW t \in Threads, S!DeletePVC(t)
  PROVE  /\ S!TypeOK' /\ req[t] \in S!Deletes
         /\ \/ /\ req[t].left = <<>> /\ req'[t] = [req[t] EXCEPT !.pc = "delete"]
               /\ req'[t] \in S!Deletes /\ UNCHANGED <<pvc, faults>>
            \/ req'[t] = S!Idle /\ faults' = faults + 1 /\ pvc' = pvc
            \/ /\ req[t].left # <<>> /\ req'[t] = [req[t] EXCEPT !.left = Tail(@)]
               /\ req'[t] \in S!Deletes /\ faults' = faults
               /\ pvc' = S!Without(pvc, {<<Head(req[t].left), req[t].id>>})
<1>1. req[t] \in S!Deletes /\ req[t].left \in Seq(S!Range(Namespaces))
  <2>1. req[t] \in S!Deletes
    BY RequestShapes DEF S!DeletePVC, S!At
  <2>. QED
    BY <2>1 DEF S!Deletes
<1>2. UNCHANGED <<fs, grant, link, deleted, tenants, pv, meta, lock, begun, overlap, muddled>>
  BY DEF S!DeletePVC, S!NotFs
<1>3. CASE req[t].left = <<>> /\ S!Goto(t, "delete") /\ UNCHANGED <<pvc, faults>>
  <2>1. [req[t] EXCEPT !.pc = "delete"] \in S!Deletes
    BY <1>1 DEF S!Deletes
  <2>2. req' = [req EXCEPT ![t] = [req[t] EXCEPT !.pc = "delete"]]
    BY <1>3 DEF S!Goto
  <2>3. req' \in [Threads -> S!Requests] /\ req'[t] = [req[t] EXCEPT !.pc = "delete"]
    BY <2>1, <2>2 DEF S!TypeOK, S!Requests
  <2>4. S!TypeOK'
    BY <1>2, <1>3, <2>3 DEF S!TypeOK
  <2>. QED
    BY <1>1, <1>3, <2>1, <2>3, <2>4
<1>4. CASE S!Fail(t) /\ UNCHANGED pvc
  <2>1. req' \in [Threads -> S!Requests] /\ req'[t] = S!Idle
    BY <1>4, IdleTypes DEF S!Fail
  <2>2. faults' = faults + 1
    BY <1>4 DEF S!Fail
  <2>3. S!TypeOK'
    BY <1>2, <1>4, <2>1, <2>2 DEF S!TypeOK
  <2>. QED
    BY <1>1, <1>4, <2>1, <2>2, <2>3
<1>5. CASE /\ req[t].left # <<>>
           /\ pvc' = S!Without(pvc, {<<Head(req[t].left), req[t].id>>})
           /\ req' = [req EXCEPT ![t].left = Tail(@)] /\ UNCHANGED faults
  <2>1. Tail(req[t].left) \in Seq(S!Range(Namespaces))
    BY <1>1, <1>5
  <2>2. [req[t] EXCEPT !.left = Tail(@)] \in S!Deletes
    BY <1>1, <2>1 DEF S!Deletes
  <2>3. req' \in [Threads -> S!Requests] /\ req'[t] = [req[t] EXCEPT !.left = Tail(@)]
    BY <1>5, <2>2 DEF S!TypeOK, S!Requests
  <2>4. DOMAIN pvc' \subseteq S!Range(Namespaces) \X Ids
    <3>1. DOMAIN pvc' = DOMAIN pvc \ {<<Head(req[t].left), req[t].id>>}
      BY <1>5, MapTypes
    <3>2. DOMAIN pvc \subseteq S!Range(Namespaces) \X Ids
      BY DEF S!TypeOK
    <3>. QED
      BY <3>1, <3>2
  <2>5. S!TypeOK'
    BY <1>2, <1>5, <2>3, <2>4 DEF S!TypeOK
  <2>. QED
    BY <1>1, <1>5, <2>2, <2>3, <2>5
<1>. QED
  BY <1>3, <1>4, <1>5 DEF S!DeletePVC

LEMMA DeleteTypes ==
  ASSUME S!TypeOK, NEW t \in Threads, S!DeleteFileSystem(t)
  PROVE  /\ S!TypeOK' /\ req[t] \in S!Deletes /\ req'[t] = S!Idle
         /\ \/ faults' = faults + 1 /\ UNCHANGED <<fs, link, deleted>>
            \/ /\ fs' = S!Without(fs, {req[t].id}) /\ link' = {l \in link : l[1] # req[t].id}
               /\ deleted' = deleted \cup {req[t].id} /\ faults' = faults
<1>1. req[t] \in S!Deletes /\ req[t].id \in Ids
  <2>1. req[t] \in S!Deletes
    BY RequestShapes DEF S!DeleteFileSystem, S!At
  <2>. QED
    BY <2>1 DEF S!Deletes
<1>2. req' \in [Threads -> S!Requests] /\ req'[t] = S!Idle
  BY IdleTypes DEF S!DeleteFileSystem, S!Fail
<1>3. \/ faults' = faults + 1 /\ UNCHANGED <<fs, link, deleted>>
      \/ /\ fs' = S!Without(fs, {req[t].id}) /\ link' = {l \in link : l[1] # req[t].id}
         /\ deleted' = deleted \cup {req[t].id} /\ faults' = faults
  BY DEF S!DeleteFileSystem, S!Fail, S!RemoveFileSystem
<1>4. DOMAIN fs' \subseteq Ids /\ fs' \in [DOMAIN fs' -> S!Rows]
  BY <1>3 DEF S!TypeOK, S!Without
<1>5. link' \subseteq Ids \X ServerLinks /\ deleted' \subseteq Ids /\ faults' \in Nat
  BY <1>1, <1>3 DEF S!TypeOK
<1>6. S!TypeOK'
  BY <1>2, <1>4, <1>5 DEF S!DeleteFileSystem, S!NotFs, S!TypeOK
<1>. QED
  BY <1>1, <1>2, <1>3, <1>6

\* A claim request goes on to the next namespace, the next id, or ends.
LEMMA NextClaimTypes ==
  ASSUME S!TypeOK, NEW t \in Threads, req[t] \in S!Claims, S!NextClaim(t)
  PROVE  /\ req' \in [Threads -> S!Requests]
         /\ \/ req'[t] = S!Idle
            \/ /\ req'[t] \in S!Claims /\ req'[t].pc = "getPV"
               /\ req'[t].ids = req[t].ids /\ req'[t].rows = req[t].rows
<1>1. CASE req' = [req EXCEPT ![t].n = @ + 1, ![t].pc = "getPV"] /\ req[t].n < Len(Namespaces)
  <2>1. PICK r : r = [req[t] EXCEPT !.n = @ + 1, !.pc = "getPV"]
    OBVIOUS
  <2>2. /\ r \in S!Claims /\ r.pc = "getPV" /\ r.ids = req[t].ids /\ r.rows = req[t].rows
    <3>1. /\ req[t].n + 1 \in DOMAIN Namespaces /\ req[t].n + 1 \in Nat
      BY <1>1, NamespacesAssumption DEF S!Claims
    <3>2. /\ req[t].ids \in Seq(Ids) /\ req[t].rows \in Seq(Ids) /\ Len(req[t].rows) = Len(req[t].ids)
          /\ req[t].k \in Nat /\ req[t].k \in DOMAIN req[t].ids /\ req[t].mock \in SUBSET Nat
          /\ req[t].op = "claims"
      BY DEF S!Claims
    <3>3. r = [op |-> "claims", pc |-> "getPV", ids |-> req[t].ids, rows |-> req[t].rows,
               k |-> req[t].k, n |-> req[t].n + 1, mock |-> req[t].mock]
      BY <2>1, <3>2 DEF S!Claims
    <3>. QED
      BY <3>1, <3>2, <3>3 DEF S!Claims, S!Claiming
  <2>3. req' = [req EXCEPT ![t] = r]
    BY <1>1, <2>1 DEF S!TypeOK
  <2>. QED
    BY <2>2, <2>3 DEF S!TypeOK, S!Requests
<1>2. CASE /\ req' = [req EXCEPT ![t].k = @ + 1, ![t].n = 1, ![t].pc = "getPV"]
           /\ req[t].k < Len(req[t].ids)
  <2>1. PICK r : r = [req[t] EXCEPT !.k = @ + 1, !.n = 1, !.pc = "getPV"]
    OBVIOUS
  <2>2. /\ r \in S!Claims /\ r.pc = "getPV" /\ r.ids = req[t].ids /\ r.rows = req[t].rows
    <3>1. /\ req[t].k + 1 \in DOMAIN req[t].ids /\ req[t].k + 1 \in Nat /\ 1 \in DOMAIN Namespaces
      BY <1>2, NamespacesAssumption DEF S!Claims
    <3>2. /\ req[t].ids \in Seq(Ids) /\ req[t].rows \in Seq(Ids) /\ Len(req[t].rows) = Len(req[t].ids)
          /\ req[t].mock \in SUBSET Nat
          /\ req[t].op = "claims"
      BY DEF S!Claims
    <3>3. r = [op |-> "claims", pc |-> "getPV", ids |-> req[t].ids, rows |-> req[t].rows,
               k |-> req[t].k + 1, n |-> 1, mock |-> req[t].mock]
      BY <2>1, <3>2 DEF S!Claims
    <3>. QED
      BY <3>1, <3>2, <3>3 DEF S!Claims, S!Claiming
  <2>3. req' = [req EXCEPT ![t] = r]
    BY <1>2, <2>1 DEF S!TypeOK
  <2>. QED
    BY <2>2, <2>3 DEF S!TypeOK, S!Requests
<1>3. CASE S!Done(t)
  BY <1>3, IdleTypes
<1>. QED
  BY <1>1, <1>2, <1>3 DEF S!NextClaim

LEMMA GotoClaimTypes ==
  ASSUME S!TypeOK, NEW t \in Threads, req[t] \in S!Claims, NEW pc \in S!Claiming, S!Goto(t, pc)
  PROVE  /\ req' \in [Threads -> S!Requests] /\ req'[t] \in S!Claims /\ req'[t].pc = pc
         /\ req'[t].ids = req[t].ids /\ req'[t].rows = req[t].rows /\ S!Volume(t)' = S!Volume(t)
         /\ S!ClaimId(t)' = S!ClaimId(t)
<1>1. PICK r : r = [req[t] EXCEPT !.pc = pc]
  OBVIOUS
<1>2. /\ r \in S!Claims /\ r.pc = pc /\ r.ids = req[t].ids /\ r.rows = req[t].rows
      /\ r.k = req[t].k /\ r.n = req[t].n
  BY <1>1 DEF S!Claims
<1>3. req' = [req EXCEPT ![t] = r]
  BY <1>1 DEF S!Goto, S!TypeOK
<1>4. req'[t] = r
  BY <1>3 DEF S!TypeOK
<1>. QED
  BY <1>2, <1>3, <1>4 DEF S!TypeOK, S!Requests, S!Volume, S!ClaimId

LEMMA VolumeTypes ==
  ASSUME NEW t \in Threads, req[t] \in S!Claims
  PROVE  /\ S!Volume(t) \in S!Range(Namespaces) \X Ids /\ S!Volume(t)[2] = S!ClaimId(t)
         /\ S!ClaimId(t) \in S!Range(req[t].ids)
         /\ req[t].rows = req[t].ids => req[t].rows[req[t].k] = S!ClaimId(t)
BY NamespacesAssumption DEF S!Volume, S!ClaimId, S!Claims, S!Range

\* The steps of a claim request: volumes and claims are only ever added.
ClaimSteps(t) == S!SkipMock(t) \/ S!GetPV(t) \/ S!CreatePV(t) \/ S!GetPVC(t) \/ S!CreatePVC(t)

\* It stays with its volume, or leaves it: for the next one, or for good.
Turns(t, pc) ==
  /\ req'[t] \in S!Claims /\ req'[t].pc = pc /\ req'[t].ids = req[t].ids
  /\ req'[t].rows = req[t].rows /\ S!Volume(t)' = S!Volume(t) /\ S!ClaimId(t)' = S!ClaimId(t)
Leaves(t) ==
  \/ req'[t] = S!Idle
  \/ /\ req'[t] \in S!Claims /\ req'[t].pc = "getPV"
     /\ req'[t].ids = req[t].ids /\ req'[t].rows = req[t].rows
MakesVolume(t) ==
  /\ pv' = S!With(pv, S!Volume(t), req[t].rows[req[t].k]) /\ pvc' = pvc /\ Turns(t, "getPVC")
MakesClaim(t) ==
  /\ pvc' = S!With(pvc, S!Volume(t), IF req[t].pc = "createPVC" THEN S!Volume(t) ELSE S!NoVolume)
  /\ pv' = pv /\ S!Volume(t) \notin DOMAIN pvc /\ Leaves(t)
  /\ req[t].pc \in {"createPVC", "createPVCUnbound"}
Looks(t) ==
  /\ UNCHANGED <<pv, pvc>>
  /\ \/ Leaves(t) /\ (req[t].pc \in {"getPV", "createPV"} \/ S!Volume(t) \in DOMAIN pvc)
     \/ Turns(t, "getPVCUnbound") /\ req[t].pc = "getPV" /\ S!Volume(t) \in DOMAIN pv
     \/ Turns(t, "createPV") /\ req[t].pc = "getPV"
     \/ Turns(t, "createPVC") /\ req[t].pc = "getPVC"
     \/ Turns(t, "createPVCUnbound") /\ req[t].pc = "getPVCUnbound"

LEMMA ClaimEffects ==
  ASSUME S!TypeOK, NEW t \in Threads, ClaimSteps(t)
  PROVE  /\ req[t] \in S!Claims /\ req' \in [Threads -> S!Requests]
         /\ UNCHANGED <<fs, link, meta, lock, overlap, deleted, tenants, muddled, grant, begun>>
         /\ \/ faults' = faults + 1 /\ req'[t] = S!Idle /\ UNCHANGED <<pv, pvc>>
            \/ faults' = faults /\ (Looks(t) \/ MakesVolume(t) \/ MakesClaim(t))
<1>1. req[t].pc \in S!Claiming
  BY DEF ClaimSteps, S!SkipMock, S!GetPV, S!CreatePV, S!GetPVC, S!CreatePVC, S!At, S!Claiming
<1>2. req[t] \in S!Claims
  BY <1>1, RequestShapes
<1>3. UNCHANGED <<fs, link, meta, lock, overlap, deleted, tenants, muddled, grant, begun>>
  BY DEF ClaimSteps, S!SkipMock, S!GetPV, S!CreatePV, S!GetPVC, S!CreatePVC, S!NotClaims
<1>4. S!Fail(t) => /\ faults' = faults + 1 /\ req'[t] = S!Idle
                   /\ req' \in [Threads -> S!Requests]
  BY IdleTypes DEF S!Fail
<1>5. S!Done(t) => Leaves(t) /\ req' \in [Threads -> S!Requests]
  BY IdleTypes DEF Leaves
<1>6. S!NextClaim(t) => Leaves(t) /\ req' \in [Threads -> S!Requests]
  BY <1>2, NextClaimTypes DEF Leaves
<1>7. \A pc \in S!Claiming : S!Goto(t, pc) => Turns(t, pc) /\ req' \in [Threads -> S!Requests]
  BY <1>2, GotoClaimTypes DEF Turns
<1>8. CASE S!SkipMock(t)
  BY <1>2, <1>3, <1>6, <1>8 DEF S!SkipMock, S!At, Looks
<1>9. CASE S!GetPV(t)
  <2>1. CASE S!Fail(t)
    BY <1>2, <1>3, <1>4, <1>9, <2>1 DEF S!GetPV
  <2>2. CASE S!Volume(t) \in DOMAIN pv /\ S!Goto(t, "getPVCUnbound") /\ UNCHANGED faults
    BY <1>2, <1>3, <1>7, <1>9, <2>2 DEF S!GetPV, S!Claiming, S!At, Looks
  <2>3. CASE S!Goto(t, "createPV") /\ UNCHANGED faults
    BY <1>2, <1>3, <1>7, <1>9, <2>3 DEF S!GetPV, S!Claiming, S!At, Looks
  <2>. QED
    BY <1>9, <2>1, <2>2, <2>3 DEF S!GetPV
<1>10. CASE S!CreatePV(t)
  <2>1. CASE S!Fail(t) /\ UNCHANGED pv
    BY <1>2, <1>3, <1>4, <1>10, <2>1 DEF S!CreatePV
  <2>2. CASE S!Done(t) /\ UNCHANGED <<pv, faults>>
    BY <1>2, <1>3, <1>5, <1>10, <2>2 DEF S!CreatePV, S!At, Looks
  <2>3. CASE /\ pv' = S!With(pv, S!Volume(t), req[t].rows[req[t].k])
             /\ S!Goto(t, "getPVC") /\ UNCHANGED faults
    BY <1>2, <1>3, <1>7, <1>10, <2>3 DEF S!CreatePV, S!Claiming, MakesVolume
  <2>. QED
    BY <1>10, <2>1, <2>2, <2>3 DEF S!CreatePV
<1>11. CASE S!GetPVC(t)
  <2>1. CASE S!Fail(t)
    BY <1>2, <1>3, <1>4, <1>11, <2>1 DEF S!GetPVC
  <2>2. CASE S!Volume(t) \in DOMAIN pvc /\ S!NextClaim(t) /\ UNCHANGED faults
    BY <1>2, <1>3, <1>6, <1>11, <2>2 DEF S!GetPVC, Looks
  <2>3. CASE req[t].pc = "getPVC" /\ S!Goto(t, "createPVC") /\ UNCHANGED faults
    BY <1>2, <1>3, <1>7, <1>11, <2>3 DEF S!GetPVC, S!Claiming, Looks
  <2>4. CASE req[t].pc = "getPVCUnbound" /\ S!Goto(t, "createPVCUnbound") /\ UNCHANGED faults
    BY <1>2, <1>3, <1>7, <1>11, <2>4 DEF S!GetPVC, S!Claiming, Looks
  <2>. QED
    BY <1>11, <2>1, <2>2, <2>3, <2>4 DEF S!GetPVC, S!At
<1>12. CASE S!CreatePVC(t)
  <2>1. CASE S!Fail(t) /\ UNCHANGED pvc
    BY <1>2, <1>3, <1>4, <1>12, <2>1 DEF S!CreatePVC
  <2>2. CASE S!Volume(t) \in DOMAIN pvc /\ S!Done(t) /\ UNCHANGED <<pvc, faults>>
    BY <1>2, <1>3, <1>5, <1>12, <2>2 DEF S!CreatePVC, Looks
  <2>3. CASE /\ S!Volume(t) \notin DOMAIN pvc /\ S!NextClaim(t) /\ UNCHANGED faults
             /\ pvc' = S!With(pvc, S!Volume(t), IF S!At(t, "createPVC") THEN S!Volume(t) ELSE S!NoVolume)
    BY <1>2, <1>3, <1>6, <1>12, <2>3 DEF S!CreatePVC, S!At, MakesClaim
  <2>. QED
    BY <1>12, <2>1, <2>2, <2>3 DEF S!CreatePVC
<1>. QED
  BY <1>8, <1>9, <1>10, <1>11, <1>12 DEF ClaimSteps

LEMMA ClaimTypes ==
  ASSUME S!TypeOK, NEW t \in Threads, ClaimSteps(t)
  PROVE  S!TypeOK'
<1>1. /\ req' \in [Threads -> S!Requests] /\ req[t] \in S!Claims
      /\ UNCHANGED <<fs, link, meta, lock, overlap, deleted, tenants, muddled, grant, begun>>
      /\ faults' \in Nat
  BY ClaimEffects DEF S!TypeOK
<1>2. S!Volume(t) \in S!Range(Namespaces) \X Ids
  BY <1>1, VolumeTypes
<1>3. DOMAIN pv' \subseteq DOMAIN pv \cup {S!Volume(t)} /\ DOMAIN pvc' \subseteq DOMAIN pvc \cup {S!Volume(t)}
  <2>1. \/ pv' = pv
        \/ pv' = S!With(pv, S!Volume(t), req[t].rows[req[t].k])
    BY ClaimEffects DEF Looks, MakesVolume, MakesClaim
  <2>2. \/ pvc' = pvc
        \/ \E o : pvc' = S!With(pvc, S!Volume(t), o)
    BY ClaimEffects DEF Looks, MakesVolume, MakesClaim
  <2>3. DOMAIN pv' \subseteq DOMAIN pv \cup {S!Volume(t)}
    BY <2>1 DEF S!With
  <2>4. DOMAIN pvc' \subseteq DOMAIN pvc \cup {S!Volume(t)}
    BY <2>2 DEF S!With
  <2>. QED
    BY <2>3, <2>4
<1>4. DOMAIN pv' \subseteq S!Range(Namespaces) \X Ids /\ DOMAIN pvc' \subseteq S!Range(Namespaces) \X Ids
  BY <1>2, <1>3 DEF S!TypeOK
<1>5. fs' \in [DOMAIN fs' -> S!Rows] /\ DOMAIN fs' \subseteq Ids
  BY <1>1 DEF S!TypeOK
<1>6. /\ link' \subseteq Ids \X ServerLinks /\ deleted' \subseteq Ids /\ tenants' \subseteq Ids \X S!Rows
      /\ meta' \in [S!Places -> S!Contents \cup {S!NoFile}] /\ lock' \in [Ids -> Threads \cup {S!Nobody}]
      /\ begun' \in Nat /\ overlap' \in BOOLEAN /\ muddled' \in BOOLEAN
  BY <1>1 DEF S!TypeOK
<1>. QED
  BY <1>1, <1>4, <1>5, <1>6 DEF S!TypeOK

\* The steps of a link request, and the file system and path it is about.
LinkSteps(t) ==
  \/ S!CreateLink(t) \/ S!DeleteLink(t) \/ S!FsLock(t) \/ S!SaveTemp(t) \/ S!MoveAway(t)
  \/ S!Rename(t) \/ S!UndoLink(t)
SameLink(t) == req'[t].op = req[t].op /\ req'[t].id = req[t].id /\ req'[t].path = req[t].path
Entry(t) == <<req[t].id, req[t].path>>

LEMMA LinkRequests ==
  ASSUME S!TypeOK, NEW t \in Threads, LinkSteps(t)
  PROVE  /\ req[t] \in S!Links \cup S!Unlinks \cup S!Saves \cup S!Moves
         /\ req[t].op \in {"link", "unlink"} /\ req[t].id \in Ids /\ req[t].path \in ServerLinks
         /\ UNCHANGED <<fs, grant, pv, pvc, begun, overlap, deleted, tenants, muddled>>
<1>1. \/ req[t].pc \in {"link", "unlink", "lock", "undo"}
      \/ req[t].pc \in S!Persisting
  BY DEF LinkSteps, S!CreateLink, S!DeleteLink, S!FsLock, S!SaveTemp, S!MoveAway, S!Rename,
         S!UndoLink, S!At, S!Persisting
<1>2. req[t] \in S!Links \cup S!Unlinks \cup S!Saves \cup S!Moves
  BY <1>1, RequestShapes DEF S!At, S!Persisting, S!Moving
<1>3. /\ req[t].op \in {"link", "unlink"} /\ req[t].id \in Ids /\ req[t].path \in ServerLinks
  <2>1. req[t] \in S!Links => /\ req[t].op \in {"link", "unlink"} /\ req[t].id \in Ids
                              /\ req[t].path \in ServerLinks
    BY DEF S!Links
  <2>2. req[t] \in S!Unlinks => /\ req[t].op \in {"link", "unlink"} /\ req[t].id \in Ids
                                /\ req[t].path \in ServerLinks
    BY DEF S!Unlinks
  <2>3. req[t] \in S!Saves => /\ req[t].op \in {"link", "unlink"} /\ req[t].id \in Ids
                              /\ req[t].path \in ServerLinks
    BY DEF S!Saves
  <2>4. req[t] \in S!Moves => /\ req[t].op \in {"link", "unlink"} /\ req[t].id \in Ids
                              /\ req[t].path \in ServerLinks
    BY DEF S!Moves
  <2>. QED
    BY <1>2, <2>1, <2>2, <2>3, <2>4
<1>4. UNCHANGED <<fs, grant, pv, pvc, begun, overlap, deleted, tenants, muddled>>
  BY DEF LinkSteps, S!CreateLink, S!DeleteLink, S!FsLock, S!SaveTemp, S!MoveAway, S!Rename,
         S!UndoLink, S!NotLink
<1>. QED
  BY <1>2, <1>3, <1>4

\* The next step of a request with the record r.
LEMMA NextRequest ==
  ASSUME S!TypeOK, NEW t \in Threads, NEW r \in S!Requests, req' = [req EXCEPT ![t] = r]
  PROVE  /\ req' \in [Threads -> S!Requests] /\ req'[t] = r
         /\ \A o \in Threads \ {t} : req'[o] = req[o]
BY DEF S!TypeOK

LEMMA PersistFailedTypes ==
  ASSUME S!TypeOK, NEW t \in Threads, req[t] \in S!Saves \cup S!Moves, S!PersistFailed(t)
  PROVE  /\ req' \in [Threads -> S!Requests]
         /\ lock' = [lock EXCEPT ![req[t].id] = S!Nobody]
         /\ \/ req[t].op = "link" /\ req'[t] \in S!Links /\ S!At(t, "undo")' /\ SameLink(t)
            \/ req[t].op = "unlink" /\ req'[t] = S!Idle
<1>1. req[t].op \in {"link", "unlink"} /\ req[t].id \in Ids /\ req[t].path \in ServerLinks
  <2>1. CASE req[t] \in S!Saves
    BY <2>1 DEF S!Saves
  <2>2. CASE req[t] \in S!Moves
    BY <2>2 DEF S!Moves
  <2>. QED
    BY <2>1, <2>2
<1>2. CASE req[t].op = "link"
  <2>1. PICK r : r = [op |-> req[t].op, pc |-> "undo", id |-> req[t].id, path |-> req[t].path]
    OBVIOUS
  <2>2. r \in S!Links /\ r.pc = "undo" /\ r.op = "link" /\ r.id = req[t].id /\ r.path = req[t].path
    BY <1>1, <1>2, <2>1 DEF S!Links
  <2>3. req' = [req EXCEPT ![t] = r]
    BY <1>2, <2>1 DEF S!PersistFailed, S!TypeOK
  <2>4. r \in S!Requests
    BY <2>2 DEF S!Requests
  <2>. QED
    BY <1>2, <2>2, <2>3, <2>4, NextRequest DEF S!PersistFailed, S!Unlock, S!At, SameLink
<1>3. CASE req[t].op = "unlink"
  BY <1>3, IdleTypes DEF S!PersistFailed, S!Unlock
<1>. QED
  BY <1>1, <1>2, <1>3

LEMMA LinkRowEffects ==
  ASSUME S!TypeOK, NEW t \in Threads, S!CreateLink(t) \/ S!DeleteLink(t) \/ S!UndoLink(t)
  PROVE  /\ req' \in [Threads -> S!Requests] /\ UNCHANGED <<meta, lock>>
         /\ \/ /\ S!At(t, "link") /\ req'[t] \in S!Links /\ S!At(t, "lock")' /\ SameLink(t)
               /\ link' = link \cup {Entry(t)} /\ faults' = faults
            \/ /\ S!At(t, "unlink") /\ req'[t] \in S!Unlinks /\ S!At(t, "lock")' /\ SameLink(t)
               /\ link' = link \ {Entry(t)} /\ faults' = faults
            \/ /\ S!At(t, "undo") /\ req'[t] = S!Idle /\ link' = link \ {Entry(t)} /\ faults' = faults
            \/ /\ req[t].pc \in {"unlink", "undo"} /\ req'[t] = S!Idle
               /\ link' = link /\ faults' = faults + 1
<1>1. CASE S!CreateLink(t)
  <2>1. req[t] \in S!Links /\ S!At(t, "link")
    BY <1>1, RequestShapes DEF S!CreateLink
  <2>2. PICK r : r = [req[t] EXCEPT !.pc = "lock"]
    OBVIOUS
  <2>3. r \in S!Links /\ r.pc = "lock" /\ r.op = req[t].op /\ r.id = req[t].id /\ r.path = req[t].path
    BY <2>1, <2>2 DEF S!Links
  <2>4. req' = [req EXCEPT ![t] = r] /\ r \in S!Requests
    BY <1>1, <2>2, <2>3 DEF S!CreateLink, S!Goto, S!Requests
  <2>. QED
    BY <1>1, <2>1, <2>3, <2>4, NextRequest DEF S!CreateLink, Entry, SameLink, S!At
<1>2. CASE S!DeleteLink(t)
  <2>1. req[t] \in S!Unlinks /\ S!At(t, "unlink")
    BY <1>2, RequestShapes DEF S!DeleteLink
  <2>2. CASE S!Fail(t) /\ UNCHANGED link
    BY <1>2, <2>1, <2>2, IdleTypes DEF S!Fail, S!DeleteLink, S!At
  <2>3. CASE link' = link \ {Entry(t)} /\ S!Goto(t, "lock") /\ UNCHANGED faults
    <3>1. PICK r : r = [req[t] EXCEPT !.pc = "lock"]
      OBVIOUS
    <3>2. r \in S!Unlinks /\ r.pc = "lock" /\ r.op = req[t].op /\ r.id = req[t].id /\ r.path = req[t].path
      BY <2>1, <3>1 DEF S!Unlinks
    <3>3. req' = [req EXCEPT ![t] = r] /\ r \in S!Requests
      BY <2>3, <3>1, <3>2 DEF S!Goto, S!Requests
    <3>. QED
      BY <1>2, <2>1, <2>3, <3>2, <3>3, NextRequest DEF S!DeleteLink, SameLink, S!At
  <2>. QED
    BY <1>2, <2>2, <2>3 DEF S!DeleteLink, Entry
<1>3. CASE S!UndoLink(t)
  <2>1. CASE S!Fail(t) /\ UNCHANGED link
    BY <1>3, <2>1, IdleTypes DEF S!Fail, S!UndoLink, S!At
  <2>2. CASE link' = link \ {Entry(t)} /\ S!Done(t) /\ UNCHANGED faults
    BY <1>3, <2>2, IdleTypes DEF S!UndoLink, S!At
  <2>. QED
    BY <1>3, <2>1, <2>2 DEF S!UndoLink, Entry
<1>. QED
  BY <1>1, <1>2, <1>3

LEMMA PathsOf ==
  ASSUME S!TypeOK, NEW i
  PROVE  {S!Paths(i)} \in S!Contents
<1>1. \A l \in link : l[2] \in ServerLinks
  BY DEF S!TypeOK
<1>2. S!Paths(i) \subseteq ServerLinks
  BY <1>1 DEF S!Paths
<1>. QED
  BY <1>2 DEF S!Contents

LEMMA LockEffects ==
  ASSUME S!TypeOK, NEW t \in Threads, S!FsLock(t)
  PROVE  /\ req' \in [Threads -> S!Requests] /\ UNCHANGED <<link, meta, faults>>
         /\ S!At(t, "lock") /\ lock[req[t].id] = S!Nobody /\ lock' = [lock EXCEPT ![req[t].id] = t]
         /\ req'[t] \in S!Saves /\ req'[t].pc = "save" /\ SameLink(t)
         /\ req'[t].links = {S!Paths(req[t].id)}
<1>1. req[t] \in S!Links \cup S!Unlinks
  BY RequestShapes DEF S!FsLock
<1>2. req[t].op \in {"link", "unlink"} /\ req[t].id \in Ids /\ req[t].path \in ServerLinks
  BY LinkRequests DEF LinkSteps
<1>3. PICK r : r = [op |-> req[t].op, pc |-> "save", id |-> req[t].id, path |-> req[t].path,
                    links |-> {S!Paths(req[t].id)}]
  OBVIOUS
<1>4. /\ r \in S!Saves /\ r.pc = "save" /\ r.op = req[t].op /\ r.id = req[t].id
      /\ r.path = req[t].path /\ r.links = {S!Paths(req[t].id)}
  BY <1>2, <1>3, PathsOf DEF S!Saves
<1>5. req' = [req EXCEPT ![t] = r] /\ r \in S!Requests
  BY <1>3, <1>4 DEF S!FsLock, S!ReadLinks, S!Requests, S!TypeOK
<1>. QED
  BY <1>4, <1>5, NextRequest DEF S!FsLock, SameLink

\* What becomes of the request when a call fails: undone, or logged.
Failed(t) ==
  /\ lock' = [lock EXCEPT ![req[t].id] = S!Nobody]
  /\ \/ req[t].op = "link" /\ req'[t] \in S!Links /\ S!At(t, "undo")' /\ SameLink(t)
     \/ req[t].op = "unlink" /\ req'[t] = S!Idle
\* It goes on with what it has read, in the place p.
Persists(t, pc, p) ==
  /\ lock' = lock /\ req'[t] \in S!Moves /\ req'[t].pc = pc /\ SameLink(t)
  /\ req'[t].links = req[t].links /\ req'[t].at = p
\* The steps of a request that persists, and what they do to the file in its place.
FailsAtFile(t) ==
  \/ req[t].pc = "save" /\ req[t].id \notin DOMAIN fs
  \/ req[t].pc = "moveAway" /\ meta[req[t].at] = S!NoFile
  \/ req[t].pc = "rename" /\ meta[req[t].at] # S!NoFile
GivesUp(t) ==
  /\ Failed(t)
  /\ meta' = meta \/ (req[t].pc = "rename" /\ meta' = [meta EXCEPT ![req[t].at] = req[t].old])
SavesTemp(t) ==
  /\ req[t].pc = "save" /\ req[t].id \in DOMAIN fs /\ meta' = meta
  /\ LET p == S!PlaceOf(fs[req[t].id]) IN
       \/ Persists(t, "rename", p) /\ (faults' = faults => meta[p] = S!NoFile)
       \/ Persists(t, "moveAway", p) /\ meta[p] # S!NoFile
MovesAway(t) ==
  /\ req[t].pc = "moveAway" /\ faults' = faults /\ meta[req[t].at] # S!NoFile
  /\ Persists(t, "rename", req[t].at) /\ meta' = [meta EXCEPT ![req[t].at] = S!NoFile]
Renames(t) ==
  /\ req[t].pc = "rename" /\ faults' = faults
  /\ req'[t] = S!Idle /\ lock' = [lock EXCEPT ![req[t].id] = S!Nobody]
  /\ meta' = [meta EXCEPT ![req[t].at] = req[t].links]

LEMMA PlaceOfRow ==
  ASSUME S!TypeOK, NEW i \in DOMAIN fs
  PROVE  S!PlaceOf(fs[i]) \in S!Places
<1>1. fs[i] \in S!Rows
  BY DEF S!TypeOK
<1>. QED
  BY <1>1 DEF S!Places

LEMMA SaveTempEffects ==
  ASSUME S!TypeOK, NEW t \in Threads, S!SaveTemp(t)
  PROVE  /\ req' \in [Threads -> S!Requests] /\ link' = link
         /\ req[t] \in S!Saves /\ req[t].pc = "save" /\ (faults' = faults \/ faults' = faults + 1)
         /\ \/ GivesUp(t) /\ (faults' = faults => FailsAtFile(t))
            \/ SavesTemp(t)
<1>1. req[t] \in S!Saves /\ req[t].pc = "save" /\ link' = link /\ meta' = meta
  BY RequestShapes DEF S!SaveTemp, S!At
<1>2. S!PersistFailed(t) => Failed(t) /\ req' \in [Threads -> S!Requests]
  BY <1>1, PersistFailedTypes DEF Failed
<1>3. ASSUME NEW pc \in S!Moving, req[t].id \in DOMAIN fs, S!Save(t, pc), lock' = lock
      PROVE  /\ req' \in [Threads -> S!Requests]
             /\ Persists(t, pc, S!PlaceOf(fs[req[t].id]))
  <2>1. PICK r : r = [op |-> req[t].op, pc |-> pc, id |-> req[t].id, path |-> req[t].path,
                      links |-> req[t].links, old |-> S!NoFile, at |-> S!PlaceOf(fs[req[t].id])]
    OBVIOUS
  <2>2. /\ r \in S!Moves /\ r.pc = pc /\ r.op = req[t].op /\ r.id = req[t].id
        /\ r.path = req[t].path /\ r.links = req[t].links /\ r.at = S!PlaceOf(fs[req[t].id])
    BY <1>1, <1>3, <2>1, PlaceOfRow DEF S!Saves, S!Moves, S!Moving
  <2>3. req' = [req EXCEPT ![t] = r] /\ r \in S!Requests
    BY <1>3, <2>1, <2>2 DEF S!Requests, S!Save, S!TypeOK
  <2>. QED
    BY <1>3, <2>2, <2>3, NextRequest DEF Persists, SameLink
<1>4. CASE req[t].id \notin DOMAIN fs /\ S!PersistFailed(t) /\ UNCHANGED faults
  BY <1>1, <1>2, <1>4 DEF GivesUp, FailsAtFile
<1>5. CASE S!Faulty /\ S!PersistFailed(t)
  <2>1. faults' = faults + 1 /\ faults' # faults
    BY <1>5 DEF S!Faulty, S!TypeOK
  <2>. QED
    BY <1>1, <1>2, <1>5, <2>1 DEF GivesUp
<1>6. CASE req[t].id \in DOMAIN fs /\ S!Faulty /\ S!Save(t, "rename") /\ UNCHANGED lock
  <2>1. faults' = faults + 1 /\ faults' # faults
    BY <1>6 DEF S!Faulty, S!TypeOK
  <2>. QED
    BY <1>1, <1>3, <1>6, <2>1 DEF SavesTemp, S!Moving
<1>7. CASE /\ req[t].id \in DOMAIN fs /\ UNCHANGED <<lock, faults>>
           /\ S!Save(t, IF meta[S!PlaceOf(fs[req[t].id])] = S!NoFile THEN "rename" ELSE "moveAway")
  <2>1. CASE meta[S!PlaceOf(fs[req[t].id])] = S!NoFile
    BY <1>1, <1>3, <1>7, <2>1 DEF SavesTemp, S!Moving
  <2>2. CASE meta[S!PlaceOf(fs[req[t].id])] # S!NoFile
    BY <1>1, <1>3, <1>7, <2>2 DEF SavesTemp, S!Moving
  <2>. QED
    BY <2>1, <2>2
<1>. QED
  BY <1>4, <1>5, <1>6, <1>7 DEF S!SaveTemp

LEMMA MoveEffects ==
  ASSUME S!TypeOK, NEW t \in Threads, S!MoveAway(t) \/ S!Rename(t)
  PROVE  /\ req' \in [Threads -> S!Requests] /\ link' = link
         /\ req[t] \in S!Moves /\ req[t].pc \in S!Moving /\ (faults' = faults \/ faults' = faults + 1)
         /\ \/ GivesUp(t) /\ (faults' = faults => FailsAtFile(t))
            \/ MovesAway(t) \/ Renames(t)
<1>1. req[t] \in S!Moves /\ req[t].pc \in S!Moving /\ link' = link
  BY RequestShapes DEF S!MoveAway, S!Rename, S!At, S!Moving
<1>2. S!PersistFailed(t) => Failed(t) /\ req' \in [Threads -> S!Requests]
  BY <1>1, PersistFailedTypes DEF Failed
<1>3. S!Faulty => faults' = faults + 1 /\ faults' # faults
  BY DEF S!Faulty, S!TypeOK
<1>4. CASE S!MoveAway(t)
  <2>1. CASE S!Faulty /\ S!PersistFailed(t) /\ UNCHANGED meta
    BY <1>1, <1>2, <1>3, <2>1 DEF GivesUp
  <2>2. CASE meta[req[t].at] = S!NoFile /\ S!PersistFailed(t) /\ UNCHANGED <<meta, faults>>
    BY <1>1, <1>2, <1>4, <2>2 DEF GivesUp, FailsAtFile, S!MoveAway, S!At
  <2>3. CASE /\ meta[req[t].at] # S!NoFile
             /\ req' = [req EXCEPT ![t].pc = "rename", ![t].old = meta[req[t].at]]
             /\ meta' = [meta EXCEPT ![req[t].at] = S!NoFile] /\ UNCHANGED <<lock, faults>>
    <3>1. PICK o : o = meta[req[t].at]
      OBVIOUS
    <3>2. o \in S!Contents \cup {S!NoFile}
      BY <1>1, <3>1 DEF S!TypeOK, S!Moves
    <3>3. PICK r : r = [req[t] EXCEPT !.pc = "rename", !.old = o]
      OBVIOUS
    <3>4. /\ r \in S!Moves /\ r.pc = "rename" /\ r.op = req[t].op /\ r.id = req[t].id
          /\ r.path = req[t].path /\ r.links = req[t].links /\ r.at = req[t].at
      BY <1>1, <3>2, <3>3 DEF S!Moves
    <3>5. req' = [req EXCEPT ![t] = r] /\ r \in S!Requests
      BY <2>3, <3>1, <3>3, <3>4 DEF S!Requests, S!TypeOK
    <3>6. req' \in [Threads -> S!Requests] /\ Persists(t, "rename", req[t].at)
      BY <2>3, <3>4, <3>5, NextRequest DEF Persists, SameLink
    <3>. QED
      BY <1>1, <1>4, <2>3, <3>6 DEF MovesAway, S!MoveAway, S!At
  <2>. QED
    BY <1>4, <2>1, <2>2, <2>3 DEF S!MoveAway
<1>5. CASE S!Rename(t)
  <2>1. CASE /\ S!Faulty \/ (meta[req[t].at] # S!NoFile /\ UNCHANGED faults)
             /\ S!PersistFailed(t)
             /\ \/ UNCHANGED meta
                \/ req[t].old # S!NoFile /\ meta' = [meta EXCEPT ![req[t].at] = req[t].old]
    <3>1. req[t].pc = "rename"
      BY <1>5 DEF S!Rename, S!At
    <3>2. faults' = faults => FailsAtFile(t)
      BY <1>3, <2>1, <3>1 DEF FailsAtFile
    <3>3. GivesUp(t)
      BY <1>2, <2>1, <3>1 DEF GivesUp
    <3>. QED
      BY <1>1, <1>2, <1>3, <2>1, <3>2, <3>3
  <2>2. CASE /\ meta' = [meta EXCEPT ![req[t].at] = req[t].links]
             /\ S!Done(t) /\ S!Unlock(t) /\ UNCHANGED faults
    BY <1>1, <1>5, <2>2, IdleTypes DEF S!Rename, S!Unlock, S!At, Renames
  <2>. QED
    BY <1>5, <2>1, <2>2 DEF S!Rename
<1>. QED
  BY <1>4, <1>5

\* The three together.
LEMMA SaveEffects ==
  ASSUME S!TypeOK, NEW t \in Threads, S!SaveTemp(t) \/ S!MoveAway(t) \/ S!Rename(t)
  PROVE  /\ req' \in [Threads -> S!Requests] /\ link' = link
         /\ req[t].pc \in S!Persisting /\ req[t].id \in Ids
         /\ (faults' = faults \/ faults' = faults + 1)
         /\ req[t].pc \in S!Moving => req[t] \in S!Moves
         /\ \/ GivesUp(t) /\ (faults' = faults => FailsAtFile(t))
            \/ SavesTemp(t) \/ MovesAway(t) \/ Renames(t)
<1>1. CASE S!SaveTemp(t)
  <2>1. req[t].id \in Ids
    BY <1>1, SaveTempEffects DEF S!Saves
  <2>. QED
    BY <1>1, <2>1, SaveTempEffects DEF S!Persisting, S!Moving
<1>2. CASE S!MoveAway(t) \/ S!Rename(t)
  <2>1. req[t].id \in Ids
    BY <1>2, MoveEffects DEF S!Moves
  <2>. QED
    BY <1>2, <2>1, MoveEffects DEF S!Persisting, S!Moving
<1>. QED
  BY <1>1, <1>2

\* What becomes of the lock and of the request.
LEMMA SaveLocks ==
  ASSUME S!TypeOK, NEW t \in Threads, S!SaveTemp(t) \/ S!MoveAway(t) \/ S!Rename(t)
  PROVE  \/ /\ lock' = [lock EXCEPT ![req[t].id] = S!Nobody]
            /\ req'[t] = S!Idle \/ (req'[t].pc = "undo" /\ SameLink(t))
         \/ lock' = lock /\ req'[t].pc \in S!Moving /\ SameLink(t)
BY SaveEffects DEF GivesUp, Failed, SavesTemp, MovesAway, Persists, Renames, S!Moving, S!At

LEMMA LinkTypes ==
  ASSUME S!TypeOK, NEW t \in Threads, LinkSteps(t)
  PROVE  S!TypeOK'
<1>. S!NoFile \in S!Contents \cup {S!NoFile} /\ S!Nobody \in Threads \cup {S!Nobody}
  OBVIOUS
<1>1. /\ req[t].id \in Ids /\ Entry(t) \in Ids \X ServerLinks
      /\ UNCHANGED <<fs, grant, pv, pvc, begun, overlap, deleted, tenants, muddled>>
  BY LinkRequests DEF Entry
<1>2. /\ req' \in [Threads -> S!Requests] /\ link' \subseteq Ids \X ServerLinks /\ faults' \in Nat
      /\ meta' \in [S!Places -> S!Contents \cup {S!NoFile}] /\ lock' \in [Ids -> Threads \cup {S!Nobody}]
  <2>1. CASE S!CreateLink(t) \/ S!DeleteLink(t) \/ S!UndoLink(t)
    BY <1>1, <2>1, LinkRowEffects DEF S!TypeOK
  <2>2. CASE S!FsLock(t)
    BY <1>1, <2>2, LockEffects DEF S!TypeOK
  <2>3. CASE S!SaveTemp(t) \/ S!MoveAway(t) \/ S!Rename(t)
    <3>1. req' \in [Threads -> S!Requests] /\ link' = link /\ (faults' = faults \/ faults' = faults + 1)
      BY <2>3, SaveEffects
    <3>2. lock' = lock \/ lock' = [lock EXCEPT ![req[t].id] = S!Nobody]
      BY <2>3, SaveLocks
    <3>3. \/ meta' = meta
          \/ \E p \in S!Places, m \in S!Contents \cup {S!NoFile} : meta' = [meta EXCEPT ![p] = m]
      <4>1. req[t] \in S!Moves =>
              /\ req[t].at \in S!Places /\ req[t].old \in S!Contents \cup {S!NoFile}
              /\ req[t].links \in S!Contents
        BY DEF S!Moves
      <4>. QED
        BY <2>3, <4>1, SaveEffects DEF GivesUp, SavesTemp, MovesAway, Renames, S!Moving
    <3>. QED
      BY <3>1, <3>2, <3>3 DEF S!TypeOK
  <2>. QED
    BY <2>1, <2>2, <2>3 DEF LinkSteps
<1>. QED
  BY <1>1, <1>2 DEF S!TypeOK

LEMMA CrashEffects ==
  ASSUME S!TypeOK, S!Crash
  PROVE  /\ S!TypeOK' /\ \A t \in Threads : req'[t] = S!Idle
         /\ \A i \in Ids : lock'[i] = S!Nobody
         /\ faults' = faults + 1
         /\ UNCHANGED <<fs, pv, pvc, link, meta, overlap, deleted, tenants, muddled>>
<1>1. \A t \in Threads : req'[t] = S!Idle
  BY DEF S!Crash
<1>2. \A i \in Ids : lock'[i] = S!Nobody
  BY DEF S!Crash
<1>3. faults' = faults + 1 /\ faults' \in Nat
  BY DEF S!Crash, S!Faulty, S!TypeOK
<1>4. UNCHANGED <<fs, grant, pv, pvc, link, meta, begun, overlap, deleted, tenants, muddled>>
  BY DEF S!Crash
<1>5. req' \in [Threads -> S!Requests] /\ lock' \in [Ids -> Threads \cup {S!Nobody}]
  BY DEF S!Crash, S!Requests
<1>6. S!TypeOK'
  BY <1>3, <1>4, <1>5 DEF S!TypeOK
<1>. QED
  BY <1>1, <1>2, <1>3, <1>4, <1>6

\* What each request does to the others: nothing but through the records.
LEMMA ServeTypes ==
  ASSUME S!TypeOK, NEW t \in Threads, S!Serve(t)
  PROVE  /\ S!TypeOK' /\ overlap' = overlap /\ muddled' = muddled /\ req[t] # S!Idle
         /\ \A o \in Threads \ {t} : req'[o] = req[o]
<1>1. S!TypeOK'
  BY CreateTypes, DeletePVCTypes, DeleteTypes, ClaimTypes, LinkTypes
     DEF S!Serve, ClaimSteps, LinkSteps
<1>2. overlap' = overlap /\ muddled' = muddled
  <2>1. ClaimSteps(t) => overlap' = overlap /\ muddled' = muddled
    BY ClaimEffects
  <2>2. LinkSteps(t) => overlap' = overlap /\ muddled' = muddled
    BY LinkRequests
  <2>. QED
    BY <2>1, <2>2 DEF S!Serve, ClaimSteps, LinkSteps, S!CreateFileSystem, S!DeletePVC,
                      S!DeleteFileSystem, S!NotFs
<1>3. req[t].pc # "idle"
  BY DEF S!Serve, S!CreateFileSystem, S!DeletePVC, S!DeleteFileSystem, S!SkipMock, S!GetPV,
         S!CreatePV, S!GetPVC, S!CreatePVC, S!CreateLink, S!DeleteLink, S!FsLock, S!SaveTemp,
         S!MoveAway, S!Rename, S!UndoLink, S!At
<1>4. \E r : req' = [req EXCEPT ![t] = r]
  <2>1. S!Done(t) => \E r : req' = [req EXCEPT ![t] = r]
    BY DEF S!Done
  <2>2. \A pc : S!Goto(t, pc) => \E r : req' = [req EXCEPT ![t] = r]
    BY DEF S!Goto
  <2>3. S!NextClaim(t) => \E r : req' = [req EXCEPT ![t] = r]
    BY <2>1 DEF S!NextClaim
  <2>4. S!PersistFailed(t) => \E r : req' = [req EXCEPT ![t] = r]
    BY <2>1 DEF S!PersistFailed
  <2>5. CASE S!CreateFileSystem(t) \/ S!DeletePVC(t) \/ S!DeleteFileSystem(t)
    BY <2>1, <2>2, <2>5 DEF S!CreateFileSystem, S!DeletePVC, S!DeleteFileSystem, S!Fail
  <2>6. CASE ClaimSteps(t)
    BY <2>1, <2>2, <2>3, <2>6
       DEF ClaimSteps, S!SkipMock, S!GetPV, S!CreatePV, S!GetPVC, S!CreatePVC, S!Fail
  <2>7. CASE LinkSteps(t)
    <3>1. CASE S!CreateLink(t) \/ S!DeleteLink(t) \/ S!UndoLink(t)
      BY <2>1, <2>2, <3>1 DEF S!CreateLink, S!DeleteLink, S!UndoLink, S!Fail
    <3>2. CASE S!FsLock(t)
      BY <3>2 DEF S!FsLock, S!ReadLinks
    <3>3. CASE S!SaveTemp(t)
      BY <2>4, <3>3 DEF S!SaveTemp, S!Save
    <3>4. CASE S!MoveAway(t)
      BY <2>4, <3>4 DEF S!MoveAway
    <3>5. CASE S!Rename(t)
      BY <2>1, <2>4, <3>5 DEF S!Rename
    <3>. QED
      BY <2>7, <3>1, <3>2, <3>3, <3>4, <3>5 DEF LinkSteps
  <2>. QED
    BY <2>5, <2>6, <2>7 DEF S!Serve, ClaimSteps, LinkSteps
<1>. QED
  BY <1>1, <1>2, <1>3, <1>4 DEF S!TypeOK, S!Idle

-----------------------------------------------------------------------------
(* Directories are disjoint *)

LEMMA SerialStays ==
  ASSUME S!TypeOK, S!Serial, S!Next
  PROVE  S!Serial'
<1>1. CASE S!Crash
  BY <1>1, CrashEffects DEF S!Serial
<1>2. ASSUME NEW t \in Threads, S!Receive(t) PROVE S!Serial'
  BY <1>2, ReceiveTypes DEF S!Serial
<1>3. ASSUME NEW t \in Threads, S!Serve(t) PROVE S!Serial'
  BY <1>3, ServeTypes DEF S!Serial
<1>. QED
  BY <1>1, <1>2, <1>3 DEF S!Next

\* A request is checked once, when it comes in.
LEMMA ServeGoesOn ==
  ASSUME S!TypeOK, NEW t \in Threads, S!Serve(t)
  PROVE  req'[t].op # "create" /\ ~S!At(t, "link")' /\ ~S!At(t, "unlink")'
<1>. USE DEF S!At
<1>1. S!Idle.op = "idle" /\ S!Idle.pc = "idle"
  BY DEF S!Idle
<1>2. CASE S!CreateFileSystem(t) \/ S!DeletePVC(t) \/ S!DeleteFileSystem(t)
  <2>1. req'[t] = S!Idle \/ req'[t] \in S!Deletes
    BY <1>2, CreateTypes, DeletePVCTypes, DeleteTypes
  <2>. QED
    BY <1>1, <2>1 DEF S!Deletes
<1>3. CASE ClaimSteps(t)
  <2>1. req'[t] = S!Idle \/ req'[t] \in S!Claims
    BY <1>3, ClaimEffects DEF Looks, MakesVolume, MakesClaim, Leaves, Turns
  <2>2. req'[t] \in S!Claims => req'[t].op = "claims" /\ req'[t].pc \in S!Claiming
    BY DEF S!Claims
  <2>. QED
    BY <1>1, <2>1, <2>2 DEF S!Claiming
<1>4. CASE LinkSteps(t)
  <2>1. \/ req'[t] = S!Idle
        \/ req'[t] \in S!Links \cup S!Unlinks /\ req'[t].pc = "lock"
        \/ req'[t] \in S!Links /\ req'[t].pc = "undo"
        \/ req'[t] \in S!Saves \/ req'[t] \in S!Moves
    <3>1. CASE S!CreateLink(t) \/ S!DeleteLink(t) \/ S!UndoLink(t)
      BY <3>1, LinkRowEffects
    <3>2. CASE S!FsLock(t)
      BY <3>2, LockEffects
    <3>3. CASE S!SaveTemp(t) \/ S!MoveAway(t) \/ S!Rename(t)
      BY <3>3, SaveEffects
         DEF GivesUp, Failed, SavesTemp, MovesAway, Persists, Renames, S!At
    <3>. QED
      BY <1>4, <3>1, <3>2, <3>3 DEF LinkSteps
  <2>2. req'[t] \in S!Links \cup S!Unlinks => req'[t].op \in {"link", "unlink"}
    BY DEF S!Links, S!Unlinks
  <2>3. req'[t] \in S!Saves => req'[t].op \in {"link", "unlink"} /\ req'[t].pc = "save"
    BY DEF S!Saves
  <2>4. req'[t] \in S!Moves => req'[t].op \in {"link", "unlink"} /\ req'[t].pc \in S!Moving
    BY DEF S!Moves, S!Moving
  <2>. QED
    BY <1>1, <2>1, <2>2, <2>3, <2>4 DEF S!Moving
<1>. QED
  BY <1>2, <1>3, <1>4 DEF S!Serve, ClaimSteps, LinkSteps

LEMMA CheckedStays ==
  ASSUME S!TypeOK, S!Serial, S!Checked, S!Next
  PROVE  S!Checked'
<1>1. SUFFICES ASSUME ~overlap', NEW o \in Threads
               PROVE  /\ req'[o].op = "create" /\ S!Tidy(req'[o].src) =>
                           S!checkFsDir(req[o].src)'
                      /\ S!At(o, "link")' => S!CheckLinkPath(req[o].id, req[o].path)'
  BY DEF S!Checked
<1>2. req'[o] = S!Idle => req'[o].op # "create" /\ ~S!At(o, "link")'
  BY DEF S!Idle, S!At
<1>3. CASE S!Crash
  BY <1>2, <1>3, CrashEffects
<1>4. ASSUME NEW t \in Threads, S!Receive(t)
      PROVE  /\ req'[o].op = "create" /\ S!Tidy(req'[o].src) =>
                  S!checkFsDir(req[o].src)'
             /\ S!At(o, "link")' => S!CheckLinkPath(req[o].id, req[o].path)'
  <2>1. CASE o # t
    BY <1>1, <1>2, <1>4, <2>1, ReceiveTypes
  <2>2. CASE o = t
    <3>1. /\ fs' = fs /\ link' = link
          /\ \/ /\ req'[t] \in S!Creates
                /\ S!Tidy(req'[t].src) => S!checkFsDir(req'[t].src)
             \/ /\ req'[t] \in S!Links /\ S!CheckLinkPath(req'[t].id, req'[t].path)
             \/ req'[t] \in S!Deletes \cup S!Unlinks \cup S!Claims
      BY <1>4, ReceiveTypes
    <3>2. /\ req'[t] \in S!Creates => req'[t].op = "create" /\ req'[t].pc = "create"
          /\ req'[t] \in S!Links => req'[t].op = "link"
      BY DEF S!Creates, S!Links
    <3>3. /\ req'[t] \in S!Deletes => req'[t].op = "delete" /\ req'[t].pc # "link"
          /\ req'[t] \in S!Unlinks => req'[t].op = "unlink" /\ req'[t].pc # "link"
      BY DEF S!Deletes, S!Unlinks
    <3>4. req'[t] \in S!Claims => req'[t].op = "claims" /\ req'[t].pc # "link"
      BY DEF S!Claims, S!Claiming
    <3>5. /\ S!checkFsDir(req'[t].src) => S!checkFsDir(req[t].src)'
          /\ S!CheckLinkPath(req'[t].id, req'[t].path) => S!CheckLinkPath(req[t].id, req[t].path)'
      BY <3>1 DEF S!checkFsDir, S!CheckLinkPath, S!Paths
    <3>. QED
      BY <2>2, <3>1, <3>2, <3>3, <3>4, <3>5 DEF S!At
  <2>. QED
    BY <2>1, <2>2
<1>5. ASSUME NEW t \in Threads, S!Serve(t)
      PROVE  req'[o].op # "create" /\ ~S!At(o, "link")'
  <2>1. CASE o = t
    BY <1>5, <2>1, ServeGoesOn
  <2>2. CASE o # t
    BY <1>1, <1>2, <1>5, <2>2, ServeTypes DEF S!Serial
  <2>. QED
    BY <2>1, <2>2
<1>. QED
  BY <1>3, <1>4, <1>5 DEF S!Next

\* The rows of file systems and of links, step by step.
LEMMA FsRows ==
  ASSUME S!TypeOK, S!Next
  PROVE  \/ fs' = fs
         \/ \E t \in Threads : /\ S!At(t, "create") /\ req[t].op = "create" /\ req[t].id \notin DOMAIN fs
                               /\ fs' = S!With(fs, req[t].id, req[t].src) /\ link' = link
         \/ \E i \in Ids : fs' = S!Without(fs, {i}) /\ link' = {l \in link : l[1] # i}
<1>1. CASE S!Crash
  BY <1>1, CrashEffects
<1>2. ASSUME NEW t \in Threads, S!Receive(t) PROVE fs' = fs
  BY <1>2, ReceiveTypes
<1>3. ASSUME NEW t \in Threads, S!Serve(t)
      PROVE  \/ fs' = fs
             \/ /\ S!At(t, "create") /\ req[t].op = "create" /\ req[t].id \notin DOMAIN fs
                /\ fs' = S!With(fs, req[t].id, req[t].src) /\ link' = link
             \/ \E i \in Ids : fs' = S!Without(fs, {i}) /\ link' = {l \in link : l[1] # i}
  <2>1. CASE S!CreateFileSystem(t)
    <3>1. req[t].op = "create"
      BY <2>1, CreateTypes DEF S!Creates
    <3>. QED
      BY <2>1, <3>1, CreateTypes DEF S!CreateFileSystem
  <2>2. CASE S!DeleteFileSystem(t)
    <3>1. req[t].id \in Ids
      BY <2>2, DeleteTypes DEF S!Deletes
    <3>. QED
      BY <2>2, <3>1, DeleteTypes
  <2>3. CASE S!DeletePVC(t)
    BY <2>3 DEF S!DeletePVC
  <2>4. CASE ClaimSteps(t)
    BY <2>4, ClaimEffects
  <2>5. CASE LinkSteps(t)
    BY <2>5, LinkRequests
  <2>. QED
    BY <1>3, <2>1, <2>2, <2>3, <2>4, <2>5 DEF S!Serve, ClaimSteps, LinkSteps
<1>. QED
  BY <1>1, <1>2, <1>3 DEF S!Next

LEMMA LinkRows ==
  ASSUME S!TypeOK, S!Next
  PROVE  \/ link' \subseteq link
         \/ \E t \in Threads : S!At(t, "link") /\ link' = link \cup {Entry(t)}
<1>1. CASE S!Crash
  BY <1>1, CrashEffects
<1>2. ASSUME NEW t \in Threads, S!Receive(t) PROVE link' = link
  BY <1>2, ReceiveTypes
<1>3. ASSUME NEW t \in Threads, S!Serve(t)
      PROVE  \/ link' \subseteq link
             \/ S!At(t, "link") /\ link' = link \cup {Entry(t)}
  <2>1. CASE S!CreateFileSystem(t) \/ S!DeletePVC(t)
    BY <2>1 DEF S!CreateFileSystem, S!DeletePVC
  <2>2. CASE S!DeleteFileSystem(t)
    BY <2>2, DeleteTypes
  <2>3. CASE ClaimSteps(t)
    BY <2>3, ClaimEffects
  <2>4. CASE S!CreateLink(t) \/ S!DeleteLink(t) \/ S!UndoLink(t)
    BY <2>4, LinkRowEffects
  <2>5. CASE S!FsLock(t)
    BY <2>5, LockEffects
  <2>6. CASE S!SaveTemp(t) \/ S!MoveAway(t) \/ S!Rename(t)
    BY <2>6, SaveEffects
  <2>. QED
    BY <1>3, <2>1, <2>2, <2>3, <2>4, <2>5, <2>6 DEF S!Serve, ClaimSteps
<1>. QED
  BY <1>1, <1>2, <1>3 DEF S!Next

\* For plain texts the check tells whether they lead into one another.
LEMMA PlainMeet ==
  ASSUME NEW p, NEW q, S!Plain(p), S!Plain(q)
  PROVE  (S!Meet(p, q) <=> S!CheckFsNested(p, q)) /\ (S!Meet(p, q) <=> S!Meet(q, p))
BY DEF S!CheckFsNested, S!Meet, S!Plain

LEMMA SourcesStayDisjoint ==
  ASSUME S!TypeOK, S!DisjointInv, S!Next, UNCHANGED overlap
  PROVE  S!SourcesAreDisjoint'
<1>1. SUFFICES ASSUME ~overlap
               PROVE  S!SourcesAreDisjoint'
  BY DEF S!SourcesAreDisjoint
<1>2. ASSUME NEW i \in DOMAIN fs', NEW j \in DOMAIN fs', S!Tidy(fs'[i]), S!Tidy(fs'[j]),
             i # j, fs'[i].kind = fs'[j].kind, fs'[i].host = fs'[j].host
      PROVE  ~S!Meet(fs'[i].dir, fs'[j].dir)
  <2>1. ASSUME i \in DOMAIN fs, j \in DOMAIN fs, fs'[i] = fs[i], fs'[j] = fs[j]
        PROVE  ~S!Meet(fs'[i].dir, fs'[j].dir)
    BY <1>1, <1>2, <2>1 DEF S!DisjointInv, S!SourcesAreDisjoint
  <2>2. CASE fs' = fs
    BY <2>1, <2>2
  <2>3. ASSUME NEW t \in Threads, S!At(t, "create"), req[t].op = "create", req[t].id \notin DOMAIN fs,
               fs' = S!With(fs, req[t].id, req[t].src)
        PROVE  ~S!Meet(fs'[i].dir, fs'[j].dir)
    <3>1. /\ \A x \in DOMAIN fs' : x \in DOMAIN fs \/ x = req[t].id
          /\ \A x \in DOMAIN fs : fs'[x] = fs[x]
          /\ fs'[req[t].id] = req[t].src
      BY <2>3 DEF S!With
    <3>2. ASSUME NEW x \in DOMAIN fs, S!Tidy(req[t].src), S!Tidy(fs[x]),
                 fs[x].kind = req[t].src.kind, fs[x].host = req[t].src.host
          PROVE  ~S!Meet(req[t].src.dir, fs[x].dir) /\ ~S!Meet(fs[x].dir, req[t].src.dir)
      <4>1. ~S!CheckFsNested(req[t].src.dir, fs[x].dir)
        BY <1>1, <2>3, <3>2 DEF S!DisjointInv, S!Checked, S!checkFsDir
      <4>2. S!Plain(req[t].src.dir) /\ S!Plain(fs[x].dir)
        BY <3>2 DEF S!Tidy
      <4>. QED
        BY <4>1, <4>2, PlainMeet
    <3>3. CASE i \in DOMAIN fs /\ j \in DOMAIN fs
      BY <2>1, <3>1, <3>3
    <3>4. CASE i = req[t].id /\ j \in DOMAIN fs
      BY <1>2, <3>1, <3>2, <3>4
    <3>5. CASE j = req[t].id /\ i \in DOMAIN fs
      BY <1>2, <3>1, <3>2, <3>5
    <3>. QED
      BY <1>2, <3>1, <3>3, <3>4, <3>5
  <2>4. ASSUME NEW x \in Ids, fs' = S!Without(fs, {x})
        PROVE  ~S!Meet(fs'[i].dir, fs'[j].dir)
    <3>1. /\ \A y \in DOMAIN fs' : y \in DOMAIN fs /\ fs'[y] = fs[y]
      BY <2>4 DEF S!Without
    <3>. QED
      BY <2>1, <3>1
  <2>. QED
    BY <2>2, <2>3, <2>4, FsRows
<1>3. ASSUME NEW l \in link', NEW m \in link', S!Plain(l[2]), S!Plain(m[2]), l # m, l[1] = m[1]
      PROVE  ~S!Meet(l[2], m[2])
  <2>1. CASE l \in link /\ m \in link
    BY <1>1, <1>3, <2>1 DEF S!DisjointInv, S!SourcesAreDisjoint
  <2>2. ASSUME NEW t \in Threads, S!At(t, "link"), link' = link \cup {Entry(t)}
        PROVE  ~S!Meet(l[2], m[2])
    <3>1. ASSUME NEW x \in link, x[1] = Entry(t)[1], S!Plain(x[2]), S!Plain(Entry(t)[2])
          PROVE  ~S!Meet(Entry(t)[2], x[2]) /\ ~S!Meet(x[2], Entry(t)[2])
      <4>1. x[2] \in S!Paths(req[t].id)
        BY <3>1 DEF S!Paths, Entry
      <4>2. ~S!CheckFsNested(Entry(t)[2], x[2])
        BY <1>1, <2>2, <4>1 DEF S!DisjointInv, S!Checked, S!CheckLinkPath, Entry
      <4>. QED
        BY <3>1, <4>2, PlainMeet
    <3>2. CASE l = Entry(t) /\ m \in link
      BY <1>3, <3>1, <3>2
    <3>3. CASE m = Entry(t) /\ l \in link
      BY <1>3, <3>1, <3>3
    <3>. QED
      BY <1>3, <2>1, <2>2, <3>2, <3>3
  <2>. QED
    BY <1>3, <2>1, <2>2, LinkRows
<1>. QED
  BY <1>2, <1>3 DEF S!SourcesAreDisjoint

LEMMA DisjointStays ==
  ASSUME S!TypeOK, S!Serial, S!DisjointInv, S!Next
  PROVE  S!DisjointInv'
<1>1. S!Checked'
  BY CheckedStays DEF S!DisjointInv
<1>2. ASSUME NEW t \in Threads, S!Receive(t) PROVE S!SourcesAreDisjoint'
  <2>1. fs' = fs /\ link' = link /\ (overlap => overlap')
    BY <1>2, ReceiveTypes
  <2>. QED
    BY <2>1 DEF S!DisjointInv, S!SourcesAreDisjoint
<1>3. CASE UNCHANGED overlap
  BY <1>1, <1>3, SourcesStayDisjoint DEF S!DisjointInv
<1>4. S!Crash => UNCHANGED overlap
  BY CrashEffects
<1>5. \A t \in Threads : S!Serve(t) => UNCHANGED overlap
  BY ServeTypes
<1>. QED
  BY <1>1, <1>2, <1>3, <1>4, <1>5 DEF S!DisjointInv, S!Next

-----------------------------------------------------------------------------
(* The lock *)

\* Only the steps that persist take the lock or give it back.
LEMMA OtherLocks ==
  ASSUME S!TypeOK, NEW t \in Threads,
         \/ S!CreateFileSystem(t) \/ S!DeletePVC(t) \/ S!DeleteFileSystem(t) \/ ClaimSteps(t)
         \/ S!CreateLink(t) \/ S!DeleteLink(t) \/ S!UndoLink(t)
  PROVE  lock' = lock /\ meta' = meta /\ req[t].pc \notin S!Persisting /\ req'[t].pc \notin S!Persisting
<1>. S!Idle.pc \notin S!Persisting
  BY DEF S!Idle, S!Persisting
<1>1. CASE S!CreateFileSystem(t) \/ S!DeletePVC(t) \/ S!DeleteFileSystem(t)
  <2>1. req'[t] = S!Idle \/ req'[t] \in S!Deletes
    BY <1>1, CreateTypes, DeletePVCTypes, DeleteTypes
  <2>. QED
    BY <1>1, <2>1 DEF S!Deletes, S!Persisting, S!CreateFileSystem, S!DeletePVC, S!DeleteFileSystem,
                      S!NotFs, S!At
<1>2. CASE ClaimSteps(t)
  <2>1. req'[t] = S!Idle \/ req'[t] \in S!Claims
    BY <1>2, ClaimEffects DEF Looks, MakesVolume, MakesClaim, Leaves, Turns
  <2>2. \A r \in S!Claims : r.pc \notin S!Persisting
    BY DEF S!Claims, S!Claiming, S!Persisting
  <2>. QED
    BY <1>2, <2>1, <2>2, ClaimEffects
<1>3. CASE S!CreateLink(t) \/ S!DeleteLink(t) \/ S!UndoLink(t)
  BY <1>3, LinkRowEffects DEF S!Persisting, S!At
<1>. QED
  BY <1>1, <1>2, <1>3

LEMMA LocksStay ==
  ASSUME S!TypeOK, S!LockInv, S!Next
  PROVE  S!LockInv'
<1>. USE NobodyAssumption
<1>1. SUFFICES ASSUME NEW i \in Ids, NEW o \in Threads
               PROVE  lock'[i] = o <=> req'[o].pc \in S!Persisting /\ req'[o].id = i
  BY DEF S!LockInv
<1>2. lock[i] = o <=> req[o].pc \in S!Persisting /\ req[o].id = i
  BY DEF S!LockInv
<1>3. S!Idle.pc \notin S!Persisting
  BY DEF S!Idle, S!Persisting
<1>4. CASE S!Crash
  BY <1>3, <1>4, CrashEffects
<1>5. ASSUME NEW t \in Threads, S!Receive(t)
      PROVE  lock'[i] = o <=> req'[o].pc \in S!Persisting /\ req'[o].id = i
  <2>1. lock' = lock /\ req[t] = S!Idle /\ \A x \in Threads \ {t} : req'[x] = req[x]
    BY <1>5, ReceiveTypes
  <2>2. req'[t].pc \notin S!Persisting
    <3>1. req'[t] \in S!Creates => req'[t].pc \notin S!Persisting
      BY DEF S!Creates, S!Persisting
    <3>. QED
      BY <1>5, <3>1, ReceiveTypes DEF S!At, S!Persisting
  <2>. QED
    BY <1>2, <1>3, <2>1, <2>2
<1>6. ASSUME NEW t \in Threads, S!Serve(t)
      PROVE  lock'[i] = o <=> req'[o].pc \in S!Persisting /\ req'[o].id = i
  <2>1. \A x \in Threads \ {t} : req'[x] = req[x]
    BY <1>6, ServeTypes
  <2>2. CASE lock' = lock /\ req[t].pc \notin S!Persisting /\ req'[t].pc \notin S!Persisting
    BY <1>2, <2>1, <2>2
  <2>3. CASE S!FsLock(t)
    <3>1. /\ S!At(t, "lock") /\ lock[req[t].id] = S!Nobody /\ lock' = [lock EXCEPT ![req[t].id] = t]
          /\ req'[t].pc = "save" /\ req'[t].id = req[t].id
      BY <2>3, LockEffects DEF SameLink
    <3>2. req[t].pc \notin S!Persisting /\ req'[t].pc \in S!Persisting
      BY <3>1 DEF S!At, S!Persisting
    <3>3. lock'[i] = IF i = req[t].id THEN t ELSE lock[i]
      BY <3>1 DEF S!TypeOK
    <3>. QED
      BY <1>2, <2>1, <3>1, <3>2, <3>3
  <2>4. CASE S!SaveTemp(t) \/ S!MoveAway(t) \/ S!Rename(t)
    <3>1. req[t].pc \in S!Persisting /\ req[t].id \in Ids
      BY <2>4, SaveEffects
    <3>2. \/ lock' = [lock EXCEPT ![req[t].id] = S!Nobody] /\ req'[t].pc \notin S!Persisting
          \/ lock' = lock /\ req'[t].pc \in S!Persisting /\ req'[t].id = req[t].id
      BY <1>3, <2>4, SaveLocks DEF SameLink, S!Persisting, S!Moving
    <3>3. lock[req[t].id] = t
      BY <3>1 DEF S!LockInv
    <3>4. CASE lock' = [lock EXCEPT ![req[t].id] = S!Nobody] /\ req'[t].pc \notin S!Persisting
      <4>1. lock'[i] = IF i = req[t].id THEN S!Nobody ELSE lock[i]
        BY <3>4 DEF S!TypeOK
      <4>. QED
        BY <1>2, <2>1, <3>1, <3>3, <3>4, <4>1
    <3>5. CASE lock' = lock /\ req'[t].pc \in S!Persisting /\ req'[t].id = req[t].id
      BY <1>2, <2>1, <3>1, <3>3, <3>5
    <3>. QED
      BY <3>2, <3>4, <3>5
  <2>. QED
    BY <1>6, <2>2, <2>3, <2>4, OtherLocks DEF S!Serve, ClaimSteps
<1>. QED
  BY <1>4, <1>5, <1>6 DEF S!Next

-----------------------------------------------------------------------------
(* Claims *)

LEMMA TailRange ==
  ASSUME NEW X, NEW s \in Seq(X), s # <<>>, NEW x \in S!Range(s), x # Head(s)
  PROVE  x \in S!Range(Tail(s))
<1>1. PICK k \in 1..Len(s) : x = s[k]
  BY DEF S!Range
<1>2. k # 1 /\ Len(s) \in Nat
  BY <1>1
<1>3. k - 1 \in DOMAIN Tail(s) /\ Tail(s)[k - 1] = x
  BY <1>1, <1>2
<1>. QED
  BY <1>3 DEF S!Range

LEMMA LinkOps ==
  ASSUME S!TypeOK, NEW t \in Threads, LinkSteps(t)
  PROVE  req'[t] = S!Idle \/ SameLink(t)
<1>1. CASE S!CreateLink(t) \/ S!DeleteLink(t) \/ S!UndoLink(t)
  BY <1>1, LinkRowEffects
<1>2. CASE S!FsLock(t)
  BY <1>2, LockEffects
<1>3. CASE S!SaveTemp(t) \/ S!MoveAway(t) \/ S!Rename(t)
  BY <1>3, SaveLocks
<1>. QED
  BY <1>1, <1>2, <1>3 DEF LinkSteps

\* What OwnedInv says of one request.
Owns(t) ==
  /\ req[t].op = "claims" => S!Range(req[t].ids) \subseteq DOMAIN fs
  /\ req[t].op = "delete" => \A v \in DOMAIN pvc : v[2] = req[t].id => v[1] \in S!Range(req[t].left)
  /\ S!At(t, "delete") => req[t].left = <<>>

LEMMA OwnedStays ==
  ASSUME S!TypeOK, S!Serial, S!OwnedInv, S!Next
  PROVE  S!OwnedInv'
<1>1. SUFFICES ASSUME ~overlap'
               PROVE  S!OwnedInv'
  BY DEF S!OwnedInv
<1>2. ASSUME ~overlap
      PROVE  S!ClaimsHaveFileSystem /\ \A o \in Threads : Owns(o)
  BY <1>2 DEF S!OwnedInv, Owns
<1>3. SUFFICES (\A v \in DOMAIN pvc' : v[2] \in DOMAIN fs') /\ \A o \in Threads : Owns(o)'
  BY <1>1 DEF S!OwnedInv, S!ClaimsHaveFileSystem, Owns
<1>4. \A o \in Threads : req'[o] = S!Idle => Owns(o)'
  BY DEF Owns, S!Idle, S!At
<1>5. CASE S!Crash
  BY <1>1, <1>2, <1>4, <1>5, CrashEffects DEF S!ClaimsHaveFileSystem
<1>6. ASSUME NEW t \in Threads, S!Receive(t)
      PROVE  (\A v \in DOMAIN pvc' : v[2] \in DOMAIN fs') /\ \A o \in Threads : Owns(o)'
  <2>1. /\ ~overlap /\ fs' = fs /\ pvc' = pvc
        /\ \A o \in Threads \ {t} : req'[o] = S!Idle
    BY <1>1, <1>6, ReceiveTypes
  <2>2. Owns(t)'
    <3>1. \/ req'[t] \in S!Creates \cup S!Links \cup S!Unlinks
          \/ req'[t] \in S!Deletes /\ S!At(t, "deletePVC")' /\ req'[t].left = Namespaces
          \/ req'[t] \in S!Claims /\ S!At(t, "getPV")' /\ S!Range(req'[t].ids) \subseteq DOMAIN fs
      BY <1>6, ReceiveTypes
    <3>2. req'[t] \in S!Creates \cup S!Links \cup S!Unlinks =>
            req'[t].op \notin {"claims", "delete"} /\ req'[t].pc # "delete"
      BY DEF S!Creates, S!Links, S!Unlinks
    <3>3. req'[t] \in S!Deletes => req'[t].op = "delete"
      BY DEF S!Deletes
    <3>4. req'[t] \in S!Claims => req'[t].op = "claims"
      BY DEF S!Claims
    <3>5. \A v \in DOMAIN pvc' : v[1] \in S!Range(Namespaces)
      BY <2>1 DEF S!TypeOK
    <3>. QED
      BY <2>1, <3>1, <3>2, <3>3, <3>4, <3>5 DEF Owns, S!At
  <2>. QED
    BY <1>2, <1>4, <2>1, <2>2 DEF S!ClaimsHaveFileSystem
<1>7. ASSUME NEW t \in Threads, S!Serve(t)
      PROVE  (\A v \in DOMAIN pvc' : v[2] \in DOMAIN fs') /\ \A o \in Threads : Owns(o)'
  <2>1. /\ ~overlap /\ \A o \in Threads \ {t} : req'[o] = S!Idle
    BY <1>1, <1>7, ServeTypes DEF S!Serial
  <2>2. (\A v \in DOMAIN pvc : v[2] \in DOMAIN fs) /\ Owns(t)
    BY <1>2, <2>1 DEF S!ClaimsHaveFileSystem
  <2>3. SUFFICES (\A v \in DOMAIN pvc' : v[2] \in DOMAIN fs') /\ Owns(t)'
    BY <1>4, <2>1
  <2>4. CASE S!CreateFileSystem(t)
    <3>1. DOMAIN fs \subseteq DOMAIN fs'
      BY <2>4, CreateTypes DEF S!With
    <3>. QED
      BY <1>4, <2>2, <2>4, <3>1, CreateTypes DEF S!CreateFileSystem
  <2>5. CASE S!DeletePVC(t)
    <3>1. S!At(t, "deletePVC") /\ fs' = fs /\ req[t].op = "delete"
      BY <2>5, DeletePVCTypes DEF S!DeletePVC, S!Deletes
    <3>2. CASE req[t].left = <<>> /\ req'[t] = [req[t] EXCEPT !.pc = "delete"] /\ pvc' = pvc
      <4>1. req'[t].op = "delete" /\ req'[t].id = req[t].id /\ req'[t].left = <<>>
        BY <2>5, <3>1, <3>2, DeletePVCTypes DEF S!Deletes
      <4>. QED
        BY <2>2, <3>1, <3>2, <4>1 DEF Owns
    <3>3. CASE req'[t] = S!Idle /\ pvc' = pvc
      BY <1>4, <2>2, <3>1, <3>3
    <3>4. CASE /\ req[t].left # <<>> /\ req'[t] = [req[t] EXCEPT !.left = Tail(@)]
               /\ pvc' = S!Without(pvc, {<<Head(req[t].left), req[t].id>>})
      <4>1. req'[t].op = "delete" /\ req'[t].id = req[t].id /\ req'[t].left = Tail(req[t].left)
            /\ req'[t].pc = "deletePVC" /\ req[t].left \in Seq(S!Range(Namespaces))
        BY <2>5, <3>1, <3>4, DeletePVCTypes DEF S!Deletes, S!At
      <4>2. DOMAIN pvc' = DOMAIN pvc \ {<<Head(req[t].left), req[t].id>>}
        BY <3>4 DEF S!Without
      <4>3. ASSUME NEW v \in DOMAIN pvc', v[2] = req[t].id
            PROVE  v[1] \in S!Range(Tail(req[t].left))
        <5>1. v[1] \in S!Range(req[t].left)
          BY <2>2, <3>1, <4>2, <4>3 DEF Owns
        <5>2. v = <<v[1], v[2]>>
          BY <4>2 DEF S!TypeOK
        <5>3. v[1] # Head(req[t].left)
          BY <4>2, <4>3, <5>2
        <5>. QED
          BY <3>4, <4>1, <5>1, <5>3, TailRange
      <4>. QED
        BY <2>2, <3>1, <4>1, <4>2, <4>3 DEF Owns, S!At
    <3>. QED
      BY <2>5, <3>2, <3>3, <3>4, DeletePVCTypes
  <2>6. CASE S!DeleteFileSystem(t)
    <3>1. S!At(t, "delete") /\ pvc' = pvc /\ req[t].op = "delete" /\ req'[t] = S!Idle
      BY <2>6, DeleteTypes DEF S!DeleteFileSystem, S!Deletes
    <3>2. \A v \in DOMAIN pvc : v[2] # req[t].id
      BY <2>2, <3>1 DEF Owns, S!Range
    <3>3. DOMAIN fs' = DOMAIN fs \/ DOMAIN fs' = DOMAIN fs \ {req[t].id}
      BY <2>6, DeleteTypes DEF S!Without
    <3>. QED
      BY <1>4, <2>2, <3>1, <3>2, <3>3
  <2>7. CASE ClaimSteps(t)
    <3>1. req[t] \in S!Claims /\ req[t].op = "claims" /\ fs' = fs
      BY <2>7, ClaimEffects DEF S!Claims
    <3>2. S!Volume(t)[2] \in DOMAIN fs
      BY <2>2, <3>1, VolumeTypes DEF Owns
    <3>3. req'[t] = S!Idle \/ (req'[t] \in S!Claims /\ req'[t].ids = req[t].ids)
      BY <2>7, ClaimEffects DEF Looks, MakesVolume, MakesClaim, Leaves, Turns
    <3>4. pvc' = pvc \/ \E o : pvc' = S!With(pvc, S!Volume(t), o)
      BY <2>7, ClaimEffects DEF Looks, MakesVolume, MakesClaim
    <3>5. DOMAIN pvc' \subseteq DOMAIN pvc \cup {S!Volume(t)}
      BY <3>4 DEF S!With
    <3>6. \A r \in S!Claims : r.op = "claims" /\ r.pc # "delete"
      BY DEF S!Claims, S!Claiming
    <3>7. Owns(t)'
      BY <1>4, <2>2, <3>1, <3>3, <3>6 DEF Owns, S!At
    <3>. QED
      BY <2>2, <3>1, <3>2, <3>5, <3>7
  <2>8. CASE LinkSteps(t)
    <3>1. fs' = fs /\ pvc' = pvc /\ req[t].op \in {"link", "unlink"}
      BY <2>8, LinkRequests
    <3>2. req'[t] = S!Idle \/ req'[t].op \in {"link", "unlink"}
      BY <2>8, <3>1, LinkOps DEF SameLink
    <3>3. req'[t] \in S!Requests
      BY <2>8, LinkTypes DEF S!TypeOK
    <3>4. req'[t].op \in {"link", "unlink"} => req'[t].pc # "delete"
      <4>1. req'[t].pc = "delete" => req'[t] \in S!Deletes
        <5>1. req'[t] \in S!Creates => req'[t].pc # "delete"
          BY DEF S!Creates
        <5>2. req'[t] \in S!Links \cup S!Unlinks => req'[t].pc # "delete"
          BY DEF S!Links, S!Unlinks
        <5>3. req'[t] \in S!Saves \cup S!Moves => req'[t].pc # "delete"
          BY DEF S!Saves, S!Moves
        <5>4. req'[t] \in S!Claims \/ req'[t] = S!Idle => req'[t].pc # "delete"
          BY DEF S!Claims, S!Claiming, S!Idle
        <5>. QED
          BY <3>3, <5>1, <5>2, <5>3, <5>4 DEF S!Requests
      <4>. QED
        BY <4>1 DEF S!Deletes
    <3>. QED
      BY <1>4, <2>2, <3>1, <3>2, <3>4 DEF Owns, S!At
  <2>. QED
    BY <1>7, <2>4, <2>5, <2>6, <2>7, <2>8 DEF S!Serve, ClaimSteps, LinkSteps
<1>. QED
  BY <1>5, <1>6, <1>7 DEF S!Next

\* BoundInv of one claim, one request, one volume.
ClaimBound(v) == v[2] \notin deleted => pvc[v] = v /\ v \in DOMAIN pv /\ pv[v] = v[2]
RequestBound(t) ==
  req[t].op = "claims" =>
    /\ req[t].rows = req[t].ids
    /\ req[t].pc \in {"getPVC", "getPVCUnbound", "createPVC", "createPVCUnbound"} =>
         S!Volume(t) \in DOMAIN pv
    /\ req[t].pc \in {"getPVCUnbound", "createPVCUnbound"} =>
         S!Volume(t) \in DOMAIN pvc \/ S!ClaimId(t) \in deleted
Removes(t, v) == req[t].op = "delete" /\ req[t].id = v[2]
Makes(t, v) ==
  req[t].op = "claims" /\ req[t].pc \in {"getPVC", "createPVC"} /\ S!Volume(t) = v
VolumeBound(v) ==
  /\ pv[v] = v[2]
  /\ v \in DOMAIN pvc \/ v[2] \in deleted \/ \E t \in Threads : Removes(t, v) \/ Makes(t, v)

\* A claim request that is alone.
LEMMA ClaimsStayBound ==
  ASSUME S!TypeOK, NEW t \in Threads, ClaimSteps(t), faults' = faults,
         \A v \in DOMAIN pvc : ClaimBound(v), RequestBound(t),
         \A v \in DOMAIN pv :
           pv[v] = v[2] /\ (v \in DOMAIN pvc \/ v[2] \in deleted \/ Makes(t, v))
  PROVE  /\ \A v \in DOMAIN pvc' : ClaimBound(v)'
         /\ RequestBound(t)'
         /\ \A v \in DOMAIN pv' :
              pv'[v] = v[2] /\ (v \in DOMAIN pvc' \/ v[2] \in deleted' \/ Makes(t, v)')
<1>1. /\ req[t] \in S!Claims /\ req[t].op = "claims" /\ deleted' = deleted
      /\ Looks(t) \/ MakesVolume(t) \/ MakesClaim(t)
  <2>1. faults # faults + 1
    BY DEF S!TypeOK
  <2>. QED
    BY <2>1, ClaimEffects DEF S!Claims
<1>2. /\ S!Volume(t)[2] = S!ClaimId(t) /\ req[t].rows = req[t].ids
      /\ req[t].rows[req[t].k] = S!ClaimId(t)
  BY <1>1, VolumeTypes DEF RequestBound
<1>3. Leaves(t) => RequestBound(t)'
  BY <1>2 DEF Leaves, RequestBound, S!Idle
<1>4. CASE Looks(t)
  <2>1. \A v \in DOMAIN pvc' : ClaimBound(v)'
    BY <1>1, <1>4 DEF Looks, ClaimBound
  <2>2. CASE Leaves(t) /\ (req[t].pc \in {"getPV", "createPV"} \/ S!Volume(t) \in DOMAIN pvc)
    BY <1>1, <1>3, <1>4, <2>1, <2>2 DEF Looks, Makes
  <2>3. CASE Turns(t, "getPVCUnbound") /\ req[t].pc = "getPV" /\ S!Volume(t) \in DOMAIN pv
    <3>1. S!Volume(t) \in DOMAIN pvc \/ S!ClaimId(t) \in deleted
      BY <1>2, <2>3 DEF Makes
    <3>2. RequestBound(t)'
      BY <1>1, <1>2, <1>4, <2>3, <3>1 DEF RequestBound, Turns, Looks
    <3>. QED
      BY <1>1, <1>4, <2>1, <2>3, <3>2 DEF Makes, Looks
  <2>4. CASE Turns(t, "createPV") /\ req[t].pc = "getPV"
    <3>1. RequestBound(t)'
      BY <1>2, <2>4 DEF RequestBound, Turns
    <3>. QED
      BY <1>1, <1>4, <2>1, <2>4, <3>1 DEF Makes, Looks
  <2>5. CASE Turns(t, "createPVC") /\ req[t].pc = "getPVC"
    <3>1. RequestBound(t)'
      BY <1>1, <1>2, <1>4, <2>5 DEF RequestBound, Turns, Looks
    <3>2. \A v : Makes(t, v) => Makes(t, v)'
      BY <2>5 DEF Makes, Turns, S!Claims
    <3>. QED
      BY <1>1, <1>4, <2>1, <3>1, <3>2 DEF Looks
  <2>6. CASE Turns(t, "createPVCUnbound") /\ req[t].pc = "getPVCUnbound"
    <3>1. RequestBound(t)'
      BY <1>1, <1>2, <1>4, <2>6 DEF RequestBound, Turns, Looks
    <3>. QED
      BY <1>1, <1>4, <2>1, <2>6, <3>1 DEF Makes, Looks
  <2>. QED
    BY <1>4, <2>2, <2>3, <2>4, <2>5, <2>6 DEF Looks
<1>5. CASE MakesVolume(t)
  <2>1. /\ DOMAIN pv' = DOMAIN pv \cup {S!Volume(t)} /\ pvc' = pvc
        /\ pv'[S!Volume(t)] = S!Volume(t)[2]
        /\ \A v \in DOMAIN pv : v # S!Volume(t) => pv'[v] = pv[v]
    <3>1. pv' = S!With(pv, S!Volume(t), S!Volume(t)[2]) /\ pvc' = pvc
      BY <1>2, <1>5 DEF MakesVolume
    <3>. QED
      BY <3>1 DEF S!With
  <2>2. \A v \in DOMAIN pvc' : ClaimBound(v)'
    <3>1. \A v \in DOMAIN pv' : pv'[v] = v[2]
      BY <2>1
    <3>. QED
      BY <1>1, <2>1, <3>1 DEF ClaimBound
  <2>3. /\ req'[t] \in S!Claims /\ req'[t].pc = "getPVC" /\ req'[t].ids = req[t].ids
        /\ req'[t].rows = req[t].rows /\ S!Volume(t)' = S!Volume(t)
    BY <1>5 DEF MakesVolume, Turns
  <2>4. RequestBound(t)'
    BY <1>2, <2>1, <2>3 DEF RequestBound
  <2>5. ASSUME NEW v \in DOMAIN pv'
        PROVE  pv'[v] = v[2] /\ (v \in DOMAIN pvc' \/ v[2] \in deleted' \/ Makes(t, v)')
    <3>1. CASE v = S!Volume(t)
      BY <2>1, <2>3, <3>1 DEF Makes, S!Claims
    <3>2. CASE v # S!Volume(t)
      BY <1>1, <2>1, <3>2 DEF Makes
    <3>. QED
      BY <3>1, <3>2
  <2>. QED
    BY <2>2, <2>4, <2>5
<1>6. CASE MakesClaim(t)
  <2>1. /\ DOMAIN pvc' = DOMAIN pvc \cup {S!Volume(t)} /\ pv' = pv
        /\ pvc'[S!Volume(t)] = IF req[t].pc = "createPVC" THEN S!Volume(t) ELSE S!NoVolume
        /\ \A v \in DOMAIN pvc : v # S!Volume(t) => pvc'[v] = pvc[v]
    <3>1. PICK o : o = IF req[t].pc = "createPVC" THEN S!Volume(t) ELSE S!NoVolume
      OBVIOUS
    <3>2. pvc' = S!With(pvc, S!Volume(t), o) /\ pv' = pv
      BY <1>6, <3>1 DEF MakesClaim
    <3>. QED
      BY <3>1, <3>2 DEF S!With
  <2>2. /\ S!Volume(t) \in DOMAIN pv
        /\ req[t].pc = "createPVC" \/ S!ClaimId(t) \in deleted
    BY <1>1, <1>6 DEF MakesClaim, RequestBound
  <2>3. \A v \in DOMAIN pvc' : ClaimBound(v)'
    <3>1. ASSUME NEW v \in DOMAIN pvc', v # S!Volume(t)
          PROVE  ClaimBound(v)'
      <4>1. v \in DOMAIN pvc /\ pvc'[v] = pvc[v] /\ ClaimBound(v)
        BY <2>1, <3>1
      <4>. QED
        BY <1>1, <2>1, <4>1 DEF ClaimBound
    <3>2. ASSUME NEW v \in DOMAIN pvc', v = S!Volume(t)
          PROVE  ClaimBound(v)'
      <4>1. v \in DOMAIN pv /\ pv[v] = v[2] /\ v[2] = S!ClaimId(t)
        BY <1>2, <2>2, <3>2
      <4>. QED
        BY <1>1, <2>1, <2>2, <3>2, <4>1 DEF ClaimBound
    <3>. QED
      BY <3>1, <3>2
  <2>4. RequestBound(t)'
    BY <1>3, <1>6 DEF MakesClaim
  <2>5. \A v \in DOMAIN pv' : pv'[v] = v[2] /\ (v \in DOMAIN pvc' \/ v[2] \in deleted')
    BY <1>1, <2>1 DEF Makes
  <2>. QED
    BY <2>3, <2>4, <2>5
<1>. QED
  BY <1>1, <1>4, <1>5, <1>6

LEMMA BoundStays ==
  ASSUME S!TypeOK, S!Serial, S!BoundInv, S!Next
  PROVE  S!BoundInv'
<1>1. SUFFICES ASSUME ~overlap', faults' = 0, ~muddled'
               PROVE  /\ \A v \in DOMAIN pvc' : ClaimBound(v)'
                      /\ \A o \in Threads : RequestBound(o)'
                      /\ \A v \in DOMAIN pv' : VolumeBound(v)'
  BY DEF S!BoundInv, S!ClaimsAreBound, ClaimBound, RequestBound, VolumeBound, Removes, Makes, S!At
<1>2. faults' # faults + 1
  BY <1>1 DEF S!TypeOK
<1>3. ASSUME ~overlap, faults = 0, ~muddled
      PROVE  /\ \A v \in DOMAIN pvc : ClaimBound(v)
             /\ \A o \in Threads : RequestBound(o)
             /\ \A v \in DOMAIN pv : VolumeBound(v)
  BY <1>3 DEF S!BoundInv, S!ClaimsAreBound, ClaimBound, RequestBound, VolumeBound, Removes, Makes, S!At
<1>4. /\ \A o \in Threads : req[o] = S!Idle => ~\E v : Removes(o, v) \/ Makes(o, v)
      /\ \A o \in Threads : req'[o] = S!Idle => RequestBound(o)'
  BY DEF Removes, Makes, RequestBound, S!Idle
<1>5. CASE S!Crash
  BY <1>2, <1>5, CrashEffects
<1>6. ASSUME NEW t \in Threads, S!Receive(t)
      PROVE  /\ \A v \in DOMAIN pvc' : ClaimBound(v)'
             /\ \A o \in Threads : RequestBound(o)'
             /\ \A v \in DOMAIN pv' : VolumeBound(v)'
  <2>1. /\ ~overlap /\ faults = 0 /\ ~muddled /\ UNCHANGED <<pv, pvc, deleted>>
        /\ req[t] = S!Idle /\ \A o \in Threads \ {t} : req[o] = S!Idle /\ req'[o] = S!Idle
    BY <1>1, <1>6, ReceiveTypes
  <2>2. RequestBound(t)'
    <3>1. \/ req'[t] \in S!Creates \cup S!Deletes \cup S!Links \cup S!Unlinks
          \/ req'[t] \in S!Claims /\ req'[t].pc = "getPV" /\ req'[t].rows = req'[t].ids
      BY <1>1, <1>6, ReceiveTypes DEF S!At
    <3>2. req'[t] \in S!Creates \cup S!Deletes \cup S!Links \cup S!Unlinks => req'[t].op # "claims"
      BY DEF S!Creates, S!Deletes, S!Links, S!Unlinks
    <3>. QED
      BY <3>1, <3>2 DEF RequestBound
  <2>3. \A v \in DOMAIN pv : VolumeBound(v)'
    BY <1>3, <1>4, <2>1 DEF VolumeBound
  <2>4. \A v \in DOMAIN pvc : ClaimBound(v)'
    BY <1>3, <2>1 DEF ClaimBound
  <2>. QED
    BY <1>4, <2>1, <2>2, <2>3, <2>4
<1>7. ASSUME NEW t \in Threads, S!Serve(t)
      PROVE  /\ \A v \in DOMAIN pvc' : ClaimBound(v)'
             /\ \A o \in Threads : RequestBound(o)'
             /\ \A v \in DOMAIN pv' : VolumeBound(v)'
  <2>1. /\ ~overlap /\ ~muddled /\ \A o \in Threads \ {t} : req[o] = S!Idle /\ req'[o] = S!Idle
    BY <1>1, <1>7, ServeTypes DEF S!Serial
  <2>2. ASSUME faults' = faults
        PROVE  /\ \A v \in DOMAIN pvc : ClaimBound(v)
               /\ RequestBound(t)
               /\ \A v \in DOMAIN pv : /\ pv[v] = v[2]
                                       /\ v \in DOMAIN pvc \/ v[2] \in deleted \/ Removes(t, v) \/ Makes(t, v)
    <3>1. faults = 0
      BY <1>1, <2>2
    <3>. QED
      BY <1>3, <1>4, <2>1, <3>1 DEF VolumeBound
  <2>3. SUFFICES /\ \A v \in DOMAIN pvc' : ClaimBound(v)'
                 /\ RequestBound(t)'
                 /\ \A v \in DOMAIN pv' :
                      /\ pv'[v] = v[2]
                      /\ v \in DOMAIN pvc' \/ v[2] \in deleted' \/ Removes(t, v)' \/ Makes(t, v)'
    BY <1>4, <2>1 DEF VolumeBound
  <2>4. CASE S!CreateFileSystem(t)
    <3>1. req'[t] = S!Idle /\ req[t].op = "create" /\ UNCHANGED <<pv, pvc, faults, deleted>>
      BY <2>4, CreateTypes DEF S!CreateFileSystem, S!NotFs, S!Creates
    <3>. QED
      BY <1>4, <2>2, <3>1 DEF ClaimBound, Removes, Makes
  <2>5. CASE S!DeletePVC(t)
    <3>1. UNCHANGED <<pv, deleted>> /\ req[t].op = "delete"
      BY <2>5, DeletePVCTypes DEF S!DeletePVC, S!NotFs, S!Deletes
    <3>2. /\ req'[t] \in S!Deletes /\ req'[t].id = req[t].id /\ faults' = faults
          /\ pvc' = pvc \/ pvc' = S!Without(pvc, {<<Head(req[t].left), req[t].id>>})
      BY <1>2, <2>5, DeletePVCTypes DEF S!Deletes
    <3>3. req'[t].op = "delete"
      BY <3>2 DEF S!Deletes
    <3>4. /\ \A v \in DOMAIN pvc' : v \in DOMAIN pvc /\ pvc'[v] = pvc[v]
          /\ \A v \in DOMAIN pvc : v[2] # req[t].id => v \in DOMAIN pvc'
      BY <3>2 DEF S!Without
    <3>5. \A v \in DOMAIN pvc' : ClaimBound(v)'
      BY <2>2, <3>1, <3>2, <3>4 DEF ClaimBound
    <3>6. \A v \in DOMAIN pv' :
            pv'[v] = v[2] /\ (v \in DOMAIN pvc' \/ v[2] \in deleted' \/ Removes(t, v)')
      BY <2>2, <3>1, <3>2, <3>3, <3>4 DEF Removes, Makes
    <3>. QED
      BY <3>3, <3>5, <3>6 DEF RequestBound
  <2>6. CASE S!DeleteFileSystem(t)
    <3>1. /\ UNCHANGED <<pv, pvc, faults>> /\ req[t].op = "delete" /\ req'[t] = S!Idle
          /\ deleted' = deleted \cup {req[t].id}
      BY <1>2, <2>6, DeleteTypes DEF S!DeleteFileSystem, S!NotFs, S!Deletes
    <3>2. \A v \in DOMAIN pvc' : ClaimBound(v)'
      BY <2>2, <3>1 DEF ClaimBound
    <3>3. \A v \in DOMAIN pv' : pv'[v] = v[2] /\ (v \in DOMAIN pvc' \/ v[2] \in deleted')
      BY <2>2, <3>1 DEF Removes, Makes
    <3>. QED
      BY <1>4, <3>1, <3>2, <3>3
  <2>7. CASE ClaimSteps(t)
    <3>1. faults' = faults /\ req[t].op = "claims"
      BY <1>2, <2>7, ClaimEffects DEF S!Claims
    <3>2. \A v : ~Removes(t, v)
      BY <3>1 DEF Removes
    <3>3. \A v \in DOMAIN pv :
            pv[v] = v[2] /\ (v \in DOMAIN pvc \/ v[2] \in deleted \/ Makes(t, v))
      BY <2>2, <3>1, <3>2
    <3>. QED
      BY <2>2, <2>7, <3>1, <3>3, ClaimsStayBound
  <2>8. CASE LinkSteps(t)
    <3>1. UNCHANGED <<pv, pvc, deleted>> /\ req[t].op \in {"link", "unlink"}
      BY <2>8, LinkRequests
    <3>2. req'[t] = S!Idle \/ req'[t].op \in {"link", "unlink"}
      BY <2>8, <3>1, LinkOps DEF SameLink
    <3>3. RequestBound(t)'
      BY <1>4, <3>2 DEF RequestBound
    <3>4. faults' = faults
      <4>1. CASE S!CreateLink(t) \/ S!DeleteLink(t) \/ S!UndoLink(t)
        BY <1>2, <4>1, LinkRowEffects
      <4>2. CASE S!FsLock(t)
        BY <4>2, LockEffects
      <4>3. CASE S!SaveTemp(t) \/ S!MoveAway(t) \/ S!Rename(t)
        BY <1>2, <4>3, SaveEffects
      <4>. QED
        BY <2>8, <4>1, <4>2, <4>3 DEF LinkSteps
    <3>5. \A v \in DOMAIN pvc' : ClaimBound(v)'
      BY <2>2, <3>1, <3>4 DEF ClaimBound
    <3>6. \A v \in DOMAIN pv' : pv'[v] = v[2] /\ (v \in DOMAIN pvc' \/ v[2] \in deleted')
      BY <2>2, <3>1, <3>4 DEF Removes, Makes
    <3>. QED
      BY <3>3, <3>5, <3>6
  <2>. QED
    BY <1>7, <2>4, <2>5, <2>6, <2>7, <2>8 DEF S!Serve, ClaimSteps, LinkSteps
<1>. QED
  BY <1>5, <1>6, <1>7 DEF S!Next

-----------------------------------------------------------------------------
(* The rows of file systems, and whoever was made in a place *)

\* A request about file systems or claims has no part in the links.
LEMMA OtherRequests ==
  ASSUME S!TypeOK, NEW t \in Threads,
         \/ S!CreateFileSystem(t) \/ S!DeletePVC(t) \/ S!DeleteFileSystem(t) \/ ClaimSteps(t)
  PROVE  /\ req[t].op \notin {"link", "unlink"} /\ req'[t].op \notin {"link", "unlink"}
         /\ req[t].pc \notin S!Persisting \cup {"lock", "undo"}
         /\ req'[t].pc \notin S!Persisting \cup {"lock", "undo"}
         /\ meta' = meta /\ lock' = lock
<1>1. S!Idle.op = "idle" /\ S!Idle.pc = "idle"
  BY DEF S!Idle
<1>2. CASE S!CreateFileSystem(t)
  BY <1>1, <1>2, CreateTypes DEF S!Creates, S!CreateFileSystem, S!NotFs, S!Persisting
<1>3. CASE S!DeletePVC(t) \/ S!DeleteFileSystem(t)
  <2>1. req[t] \in S!Deletes /\ (req'[t] = S!Idle \/ req'[t] \in S!Deletes)
    BY <1>3, DeletePVCTypes, DeleteTypes
  <2>. QED
    BY <1>1, <1>3, <2>1 DEF S!Deletes, S!DeletePVC, S!DeleteFileSystem, S!NotFs, S!Persisting
<1>4. CASE ClaimSteps(t)
  <2>1. req[t] \in S!Claims /\ (req'[t] = S!Idle \/ req'[t] \in S!Claims) /\ UNCHANGED <<meta, lock>>
    BY <1>4, ClaimEffects DEF Looks, MakesVolume, MakesClaim, Leaves, Turns
  <2>2. \A r \in S!Claims : r.op = "claims" /\ r.pc \notin S!Persisting \cup {"lock", "undo"}
    BY DEF S!Claims, S!Claiming, S!Persisting
  <2>. QED
    BY <1>1, <2>1, <2>2 DEF S!Persisting
<1>. QED
  BY <1>2, <1>3, <1>4

\* A row comes, or goes with its links.
NewRow(t) ==
  /\ req[t].id \in Ids \ DOMAIN fs /\ req[t].src \in S!Rows
  /\ fs' = S!With(fs, req[t].id, req[t].src)
  /\ tenants' = tenants \cup {<<req[t].id, req[t].src>>} /\ UNCHANGED <<link, deleted>>
NoRow(t) ==
  /\ req[t].op = "delete" /\ req[t].id \in Ids /\ fs' = S!Without(fs, {req[t].id})
  /\ link' = {l \in link : l[1] # req[t].id} /\ deleted' = deleted \cup {req[t].id}
  /\ tenants' = tenants

LEMMA RowSteps ==
  ASSUME S!TypeOK, NEW t \in Threads, S!Serve(t)
  PROVE  \/ UNCHANGED <<fs, deleted, tenants>> /\ (~LinkSteps(t) => link' = link)
         \/ ~LinkSteps(t) /\ (NewRow(t) \/ NoRow(t))
<1>1. CASE S!CreateFileSystem(t)
  <2>1. req[t].id \in Ids /\ req[t].src \in S!Rows /\ UNCHANGED <<link, deleted>>
    BY <1>1, CreateTypes DEF S!Creates, S!CreateFileSystem
  <2>2. ~LinkSteps(t)
    BY <1>1, OtherRequests, LinkRequests
  <2>. QED
    BY <1>1, <2>1, <2>2, CreateTypes DEF NewRow
<1>2. CASE S!DeleteFileSystem(t)
  <2>1. req[t].id \in Ids /\ req[t].op = "delete" /\ tenants' = tenants
    BY <1>2, DeleteTypes DEF S!Deletes, S!DeleteFileSystem
  <2>2. ~LinkSteps(t)
    BY <1>2, OtherRequests, LinkRequests
  <2>. QED
    BY <1>2, <2>1, <2>2, DeleteTypes DEF NoRow
<1>3. CASE S!DeletePVC(t)
  BY <1>3 DEF S!DeletePVC
<1>4. CASE ClaimSteps(t)
  BY <1>4, ClaimEffects
<1>5. CASE LinkSteps(t)
  BY <1>5, LinkRequests
<1>. QED
  BY <1>1, <1>2, <1>3, <1>4, <1>5 DEF S!Serve, ClaimSteps, LinkSteps

LEMMA RowEffects ==
  ASSUME NEW t \in Threads
  PROVE  /\ NewRow(t) => /\ DOMAIN fs' = DOMAIN fs \cup {req[t].id}
                         /\ fs'[req[t].id] = req[t].src
                         /\ \A i \in DOMAIN fs : fs'[i] = fs[i]
         /\ NoRow(t) => /\ DOMAIN fs' = DOMAIN fs \ {req[t].id}
                        /\ \A i \in DOMAIN fs' : fs'[i] = fs[i]
<1>1. CASE NewRow(t)
  <2>1. fs' = S!With(fs, req[t].id, req[t].src) /\ ~(req[t].id \in DOMAIN fs)
    BY <1>1 DEF NewRow
  <2>2. /\ DOMAIN fs' = DOMAIN fs \cup {req[t].id} /\ fs'[req[t].id] = req[t].src
        /\ \A i \in DOMAIN fs : fs'[i] = fs[i]
    BY <2>1 DEF S!With
  <2>3. NoRow(t) => FALSE
    BY <2>2 DEF NoRow, S!Without
  <2>. QED
    BY <1>1, <2>2, <2>3
<1>2. CASE NoRow(t)
  <2>1. fs' = S!Without(fs, {req[t].id})
    BY <1>2 DEF NoRow
  <2>2. DOMAIN fs' = DOMAIN fs \ {req[t].id} /\ \A i \in DOMAIN fs' : fs'[i] = fs[i]
    BY <2>1 DEF S!Without
  <2>3. NewRow(t) => FALSE
    BY <2>2 DEF NewRow, S!With
  <2>. QED
    BY <1>2, <2>2, <2>3
<1>. QED
  BY <1>1, <1>2

\* Every row is old, or the new one.
LEMMA RowsAfter ==
  ASSUME S!TypeOK, NEW t \in Threads, S!Serve(t)
  PROVE  /\ deleted \subseteq deleted' /\ tenants \subseteq tenants'
         /\ \A i \in DOMAIN fs' :
              (i \in DOMAIN fs /\ fs'[i] = fs[i]) \/ (NewRow(t) /\ i = req[t].id)
         /\ \A i \in DOMAIN fs : \/ i \in DOMAIN fs' /\ fs'[i] = fs[i]
                                 \/ NoRow(t) /\ i = req[t].id /\ i \in deleted'
<1>1. CASE UNCHANGED <<fs, deleted, tenants>>
  BY <1>1
<1>2. CASE NewRow(t)
  BY <1>2, RowEffects DEF NewRow
<1>3. CASE NoRow(t)
  BY <1>3, RowEffects DEF NoRow
<1>. QED
  BY <1>1, <1>2, <1>3, RowSteps

\* The parts of TenantInv.
RowsAreTenants == \A i \in DOMAIN fs : <<i, fs[i]>> \in tenants
TenantsKnown == \A m \in tenants : m[1] \in deleted \/ (m[1] \in DOMAIN fs /\ fs[m[1]] = m[2])
FilesHaveTenants == \A p \in S!Places : meta[p] # S!NoFile => \E m \in tenants : S!PlaceOf(m[2]) = p
MoverKnown(t) ==
  req[t].pc \in S!Moving =>
    /\ \E m \in tenants : m[1] = req[t].id /\ S!PlaceOf(m[2]) = req[t].at
    /\ ~overlap => req[t].id \in DOMAIN fs /\ req[t].at = S!PlaceOf(fs[req[t].id])

LEMMA TenantParts ==
  S!TenantInv <=> RowsAreTenants /\ TenantsKnown /\ FilesHaveTenants /\ \A t \in Threads : MoverKnown(t)
BY DEF S!TenantInv, RowsAreTenants, TenantsKnown, FilesHaveTenants, MoverKnown

\* A step of a request that persists, or of another.
LEMMA FileSteps ==
  ASSUME S!TypeOK, NEW t \in Threads, S!Serve(t)
  PROVE  \/ /\ meta' = meta /\ lock' = lock /\ req[t].pc \notin S!Persisting
            /\ req'[t].pc \notin S!Persisting
         \/ S!FsLock(t)
         \/ S!SaveTemp(t) \/ S!MoveAway(t) \/ S!Rename(t)
BY OtherLocks DEF S!Serve, ClaimSteps

LEMMA TenantsStay ==
  ASSUME S!TypeOK, S!Serial, S!TenantInv, S!Next
  PROVE  S!TenantInv'
<1>1. /\ RowsAreTenants /\ TenantsKnown /\ FilesHaveTenants
      /\ \A t \in Threads : MoverKnown(t)
  BY TenantParts
<1>2. SUFFICES /\ RowsAreTenants' /\ TenantsKnown' /\ FilesHaveTenants'
               /\ \A t \in Threads : MoverKnown(t)'
  BY DEF S!TenantInv, RowsAreTenants, TenantsKnown, FilesHaveTenants, MoverKnown
<1>3. \A o \in Threads : req'[o] = S!Idle => MoverKnown(o)'
  BY DEF MoverKnown, S!Idle, S!Moving
<1>4. CASE S!Crash
  BY <1>1, <1>3, <1>4, CrashEffects DEF RowsAreTenants, TenantsKnown, FilesHaveTenants
<1>5. ASSUME NEW t \in Threads, S!Receive(t)
      PROVE  /\ RowsAreTenants' /\ TenantsKnown' /\ FilesHaveTenants'
             /\ \A o \in Threads : MoverKnown(o)'
  <2>1. /\ UNCHANGED <<fs, meta, deleted, tenants>> /\ \A o \in Threads \ {t} : req'[o] = req[o]
        /\ overlap => overlap'
    BY <1>5, ReceiveTypes
  <2>2. req'[t].pc \notin S!Moving
    <3>1. req'[t] \in S!Creates => req'[t].pc = "create"
      BY DEF S!Creates
    <3>. QED
      BY <1>5, <3>1, ReceiveTypes DEF S!At, S!Moving
  <2>3. \A o \in Threads : MoverKnown(o)'
    BY <1>1, <2>1, <2>2 DEF MoverKnown
  <2>. QED
    BY <1>1, <2>1, <2>3 DEF RowsAreTenants, TenantsKnown, FilesHaveTenants
<1>6. ASSUME NEW t \in Threads, S!Serve(t)
      PROVE  /\ RowsAreTenants' /\ TenantsKnown' /\ FilesHaveTenants'
             /\ \A o \in Threads : MoverKnown(o)'
  <2>1. /\ \A o \in Threads \ {t} : req'[o] = req[o]
        /\ overlap' = overlap /\ req[t] # S!Idle
    BY <1>6, ServeTypes
  <2>2. /\ deleted \subseteq deleted' /\ tenants \subseteq tenants'
        /\ \A i \in DOMAIN fs' :
              (i \in DOMAIN fs /\ fs'[i] = fs[i]) \/ (NewRow(t) /\ i = req[t].id)
    BY <1>6, RowsAfter
  <2>3. RowsAreTenants'
    <3>1. NewRow(t) => <<req[t].id, fs'[req[t].id]>> \in tenants'
      BY RowEffects DEF NewRow
    <3>. QED
      BY <1>1, <2>2, <3>1 DEF RowsAreTenants
  <2>4. TenantsKnown'
    <3>1. CASE UNCHANGED <<fs, deleted, tenants>>
      BY <1>1, <3>1 DEF TenantsKnown
    <3>2. CASE NewRow(t)
      <4>1. PICK i : i = req[t].id
        OBVIOUS
      <4>2. PICK s : s = req[t].src
        OBVIOUS
      <4>3. /\ i \notin DOMAIN fs /\ i \in DOMAIN fs' /\ fs'[i] = s /\ deleted' = deleted
            /\ \A j \in DOMAIN fs : j \in DOMAIN fs' /\ fs'[j] = fs[j]
            /\ tenants' = tenants \cup {<<i, s>>}
        BY <3>2, <4>1, <4>2, RowEffects DEF NewRow
      <4>. QED
        BY <1>1, <4>3 DEF TenantsKnown
    <3>3. CASE NoRow(t)
      <4>1. PICK i : i = req[t].id
        OBVIOUS
      <4>2. /\ deleted' = deleted \cup {i} /\ tenants' = tenants
            /\ \A j \in DOMAIN fs : j # i => j \in DOMAIN fs' /\ fs'[j] = fs[j]
        BY <3>3, <4>1, RowEffects DEF NoRow
      <4>. QED
        BY <1>1, <4>2 DEF TenantsKnown
    <3>. QED
      BY <1>6, <3>1, <3>2, <3>3, RowSteps
  <2>5. FilesHaveTenants'
    <3>1. CASE meta' = meta
      BY <1>1, <2>2, <3>1 DEF FilesHaveTenants
    <3>2. CASE \E v : meta' = [meta EXCEPT ![req[t].at] = v] /\ req[t].pc \in S!Moving
      BY <1>1, <2>2, <3>2 DEF FilesHaveTenants, MoverKnown, S!TypeOK
    <3>3. CASE S!SaveTemp(t) \/ S!MoveAway(t) \/ S!Rename(t)
      BY <3>1, <3>2, <3>3, SaveEffects DEF GivesUp, SavesTemp, MovesAway, Renames, S!Moving
    <3>. QED
      BY <1>6, <3>1, <3>3, FileSteps, LockEffects
  <2>6. MoverKnown(t)'
    <3>1. CASE req'[t].pc \notin S!Moving
      BY <3>1 DEF MoverKnown
    <3>2. CASE S!SaveTemp(t) \/ S!MoveAway(t) \/ S!Rename(t)
      <4>1. UNCHANGED <<fs, tenants>>
        BY <3>2, LinkRequests DEF LinkSteps
      <4>2. CASE SavesTemp(t)
        <5>1. /\ req[t].id \in DOMAIN fs /\ req'[t].id = req[t].id
              /\ req'[t].at = S!PlaceOf(fs[req[t].id])
          BY <4>2 DEF SavesTemp, Persists, SameLink
        <5>2. <<req[t].id, fs[req[t].id]>> \in tenants
          BY <1>1, <5>1 DEF RowsAreTenants
        <5>. QED
          BY <4>1, <5>1, <5>2 DEF MoverKnown
      <4>3. CASE MovesAway(t)
        <5>1. /\ req[t].pc \in S!Moving /\ req'[t].id = req[t].id /\ req'[t].at = req[t].at
          BY <4>3 DEF MovesAway, Persists, SameLink, S!Moving
        <5>. QED
          BY <1>1, <2>1, <4>1, <5>1 DEF MoverKnown
      <4>4. CASE GivesUp(t) \/ Renames(t)
        BY <3>1, <4>4 DEF GivesUp, Failed, Renames, S!At, S!Idle, S!Moving
      <4>. QED
        BY <3>2, <4>2, <4>3, <4>4, SaveEffects
    <3>3. S!FsLock(t) => req'[t].pc \notin S!Moving
      BY LockEffects DEF S!Moving
    <3>4. req'[t].pc \notin S!Persisting => req'[t].pc \notin S!Moving
      BY DEF S!Persisting, S!Moving
    <3>. QED
      BY <1>6, <3>1, <3>2, <3>3, <3>4, FileSteps
  <2>7. ASSUME NEW o \in Threads \ {t}
        PROVE  MoverKnown(o)'
    <3>1. req'[o] = req[o]
      BY <2>1
    <3>2. SUFFICES ASSUME req[o].pc \in S!Moving
                   PROVE  MoverKnown(o)'
      BY <3>1 DEF MoverKnown
    <3>3. overlap
      BY <2>1, <3>2 DEF S!Serial, S!Idle, S!Moving
    <3>. QED
      BY <1>1, <2>1, <2>2, <3>1, <3>2, <3>3 DEF MoverKnown
  <2>. QED
    BY <2>3, <2>4, <2>5, <2>6, <2>7
<1>. QED
  BY <1>4, <1>5, <1>6 DEF S!Next

\* An undisturbed request moves the file in the place its file system has now.
LEMMA MoverPlace ==
  ASSUME S!TenantInv, NEW o \in Threads, req[o].pc \in S!Moving, S!Undisturbed(o)
  PROVE  req[o].id \in DOMAIN fs /\ req[o].at = S!PlaceOf(fs[req[o].id])
<1>1. MoverKnown(o) /\ TenantsKnown
  BY TenantParts
<1>2. CASE ~overlap
  BY <1>1, <1>2 DEF MoverKnown
<1>3. CASE req[o].id \in DOMAIN fs /\ S!Sole(req[o].id)
  <2>1. PICK m \in tenants : m[1] = req[o].id /\ S!PlaceOf(m[2]) = req[o].at
    BY <1>1 DEF MoverKnown
  <2>2. fs[req[o].id] = m[2]
    BY <1>1, <1>3, <2>1 DEF TenantsKnown, S!Sole
  <2>. QED
    BY <1>3, <2>1, <2>2
<1>. QED
  BY <1>2, <1>3 DEF S!Undisturbed

\* Nobody else moves a file there.
LEMMA MoverAlone ==
  ASSUME S!TypeOK, S!Serial, S!LockInv, S!TenantInv, NEW o \in Threads, NEW t \in Threads,
         req[o].pc \in S!Moving, S!Undisturbed(o), req[t].pc \in S!Moving, req[t].at = req[o].at
  PROVE  t = o
<1>1. CASE ~overlap
  BY <1>1 DEF S!Serial, S!Idle, S!Moving
<1>2. CASE req[o].id \in DOMAIN fs /\ S!Sole(req[o].id)
  <2>1. PICK m \in tenants : m[1] = req[t].id /\ S!PlaceOf(m[2]) = req[t].at
    BY TenantParts DEF MoverKnown
  <2>2. req[t].id = req[o].id
    BY <1>2, <2>1, MoverPlace DEF S!Sole
  <2>3. req[o].id \in Ids /\ {req[o].pc, req[t].pc} \subseteq S!Persisting
    BY <1>2 DEF S!TypeOK, S!Moving, S!Persisting
  <2>. QED
    BY <2>2, <2>3 DEF S!LockInv
<1>. QED
  BY <1>1, <1>2 DEF S!Undisturbed

LEMMA SelfMeet ==
  ASSUME NEW p, NEW q, S!Clean(p) = S!Clean(q)
  PROVE  S!Meet(p, q)
BY DEF S!Meet, S!IsPrefix

\* Two file systems of an orderly place are one.
LEMMA PlaceOwner ==
  ASSUME S!TypeOK, S!DisjointInv, S!TenantInv, NEW i \in DOMAIN fs, NEW j \in DOMAIN fs,
         S!Orderly(i), S!PlaceOf(fs[j]) = S!PlaceOf(fs[i])
  PROVE  i = j
<1>1. <<i, fs[i]>> \in tenants /\ <<j, fs[j]>> \in tenants
  BY TenantParts DEF RowsAreTenants
<1>2. S!Tidy(fs[i]) /\ S!Tidy(fs[j]) /\ ~overlap
  BY <1>1 DEF S!Orderly
<1>3. \A s \in S!Rows : S!Tidy(s) =>
        /\ S!PlaceOf(s).kind = s.kind /\ S!PlaceOf(s).host = s.host
        /\ S!PlaceOf(s).dir = S!Clean(s.dir)
  BY DEF S!Tidy, S!PlaceOf, S!Rows, S!SourceOf
<1>4. fs[i] \in S!Rows /\ fs[j] \in S!Rows
  BY DEF S!TypeOK
<1>5. fs[i].kind = fs[j].kind /\ fs[i].host = fs[j].host /\ S!Clean(fs[i].dir) = S!Clean(fs[j].dir)
  BY <1>2, <1>3, <1>4
<1>6. S!Meet(fs[i].dir, fs[j].dir)
  BY <1>5, SelfMeet
<1>. QED
  BY <1>2, <1>5, <1>6 DEF S!DisjointInv, S!SourcesAreDisjoint

\* Whoever moves the file of a file system alone in its place does so for it.
LEMMA MoverOwns ==
  ASSUME S!TypeOK, S!DisjointInv, S!TenantInv, NEW t \in Threads, req[t].pc \in S!Moving,
         NEW i \in DOMAIN fs, S!PlaceOf(fs[i]) = req[t].at, S!Sole(i) \/ S!Orderly(i)
  PROVE  req[t].id = i
<1>1. MoverKnown(t)
  BY TenantParts
<1>2. CASE S!Sole(i)
  BY <1>1, <1>2 DEF MoverKnown, S!Sole
<1>3. CASE S!Orderly(i)
  <2>1. req[t].id \in DOMAIN fs /\ req[t].at = S!PlaceOf(fs[req[t].id])
    BY <1>1, <1>3 DEF MoverKnown, S!Orderly
  <2>. QED
    BY <1>3, <2>1, PlaceOwner
<1>. QED
  BY <1>2, <1>3

-----------------------------------------------------------------------------
(* Links *)

\* What LinkInv says of one request, of one file system and of one row.
Persisters == {"link", "unlink"}
KnowsFs(t) ==
  req[t].op \in Persisters => req[t].id \in DOMAIN fs \/ (overlap /\ req[t].id \in deleted)
FindsFile(t) ==
  /\ ~S!At(t, "undo")
  /\ S!At(t, "moveAway") => meta[req[t].at] # S!NoFile
  /\ S!At(t, "rename") => meta[req[t].at] = S!NoFile
KnowsFile(t) == req[t].op \in Persisters /\ S!Undisturbed(t) => FindsFile(t)
Cared(i) == S!Sole(i) \/ (S!Orderly(i) /\ S!Paths(i) # {})
Backs(t, l) ==
  /\ req[t].op = "link" /\ req[t].pc \in {"lock", "save", "undo"}
  /\ req[t].id = l[1] /\ req[t].path = l[2]
HasFs(l) == l[1] \in DOMAIN fs \/ \E t \in Threads : Backs(t, l)
LinksKnown ==
  /\ \A t \in Threads : KnowsFs(t) /\ KnowsFile(t)
  /\ \A i \in DOMAIN fs : Cared(i) => S!Written(i)
  /\ \A l \in link : HasFs(l)

LEMMA LinkParts == S!LinkInv <=> (faults = 0 => LinksKnown)
BY DEF S!LinkInv, LinksKnown, KnowsFs, KnowsFile, FindsFile, Persisters, Cared, HasFs, Backs

\* What a file system or a request has to itself now, it had before.
LEMMA CareBefore ==
  ASSUME deleted \subseteq deleted', tenants \subseteq tenants', overlap => overlap',
         NEW i \in DOMAIN fs, i \in DOMAIN fs', fs'[i] = fs[i]
  PROVE  (S!Sole(i)' => S!Sole(i)) /\ (S!Orderly(i)' => S!Orderly(i))
BY DEF S!Sole, S!Orderly

LEMMA KnowsFsStays ==
  ASSUME S!TypeOK, S!Serial, NEW t \in Threads, S!Serve(t), NEW o \in Threads, KnowsFs(o)
  PROVE  KnowsFs(o)'
<1>. USE DEF Persisters
<1>1. /\ overlap' = overlap /\ deleted \subseteq deleted'
      /\ \A i \in DOMAIN fs : \/ i \in DOMAIN fs' /\ fs'[i] = fs[i]
                              \/ NoRow(t) /\ i = req[t].id /\ i \in deleted'
  BY ServeTypes, RowsAfter
<1>2. CASE o # t
  <2>1. req'[o] = req[o]
    BY <1>2, ServeTypes
  <2>2. req[o].op \in Persisters => overlap \/ ~NoRow(t)
    BY <1>2 DEF S!Serial, S!Idle, NoRow
  <2>. QED
    BY <1>1, <2>1, <2>2 DEF KnowsFs
<1>3. CASE o = t /\ LinkSteps(t)
  <2>1. req'[t] = S!Idle \/ SameLink(t)
    BY <1>3, LinkOps
  <2>2. req[t].op \in {"link", "unlink"} /\ UNCHANGED <<fs, deleted>>
    BY <1>3, LinkRequests
  <2>. QED
    BY <1>1, <1>3, <2>1, <2>2 DEF KnowsFs, SameLink, S!Idle
<1>4. CASE o = t /\ ~LinkSteps(t)
  BY <1>4, OtherRequests DEF KnowsFs, S!Serve, LinkSteps, ClaimSteps
<1>. QED
  BY <1>2, <1>3, <1>4

LEMMA UndisturbedBefore ==
  ASSUME S!TypeOK, NEW t \in Threads, S!Serve(t), NEW o \in Threads, KnowsFs(o),
         req[o].op \in Persisters, req'[o].id = req[o].id, S!Undisturbed(o)'
  PROVE  S!Undisturbed(o)
<1>1. /\ overlap' = overlap /\ deleted \subseteq deleted' /\ tenants \subseteq tenants'
  BY ServeTypes, RowsAfter
<1>2. SUFFICES ASSUME overlap
               PROVE  req[o].id \in DOMAIN fs /\ S!Sole(req[o].id)
  BY DEF S!Undisturbed
<1>3. PICK i : i = req[o].id
  OBVIOUS
<1>4. i \in DOMAIN fs' /\ S!Sole(i)'
  BY <1>1, <1>2, <1>3 DEF S!Undisturbed
<1>5. i \notin deleted
  BY <1>1, <1>4 DEF S!Sole
<1>6. i \in DOMAIN fs
  BY <1>3, <1>5 DEF KnowsFs
<1>7. fs'[i] = fs[i]
  BY <1>4, <1>6, RowsAfter DEF NewRow
<1>. QED
  BY <1>1, <1>3, <1>4, <1>6, <1>7, CareBefore

\* Only the request that moves a file changes it.
LEMMA OtherFiles ==
  ASSUME S!TypeOK, NEW t \in Threads, S!Serve(t), NEW p \in S!Places,
         req[t].pc \in S!Moving => req[t].at # p
  PROVE  meta'[p] = meta[p]
<1>1. CASE S!SaveTemp(t) \/ S!MoveAway(t) \/ S!Rename(t)
  <2>1. meta' = meta \/ \E v : meta' = [meta EXCEPT ![req[t].at] = v] /\ req[t].pc \in S!Moving
    BY <1>1, SaveEffects DEF GivesUp, SavesTemp, MovesAway, Renames, S!Moving
  <2>. QED
    BY <2>1 DEF S!TypeOK
<1>. QED
  BY <1>1, FileSteps, LockEffects

LEMMA KnowsFileStays ==
  ASSUME S!TypeOK, S!Serial, S!LockInv, S!TenantInv, NEW t \in Threads, S!Serve(t),
         faults' = faults, NEW o \in Threads, KnowsFs(o), KnowsFile(o)
  PROVE  KnowsFile(o)'
<1>. USE DEF Persisters
<1>1. SUFFICES ASSUME req'[o].op \in Persisters, S!Undisturbed(o)'
               PROVE  FindsFile(o)'
  BY DEF KnowsFile
<1>2. CASE o # t
  <2>1. req'[o] = req[o]
    BY <1>2, ServeTypes
  <2>2. S!Undisturbed(o) /\ FindsFile(o)
    BY <1>1, <2>1, UndisturbedBefore DEF KnowsFile
  <2>3. CASE req[o].pc \in S!Moving
    <3>1. req[o].at \in S!Places
      BY <2>3, RequestShapes DEF S!Moves
    <3>2. req[t].pc \in S!Moving => req[t].at # req[o].at
      BY <1>2, <2>2, <2>3, MoverAlone
    <3>3. meta'[req[o].at] = meta[req[o].at]
      BY <3>1, <3>2, OtherFiles
    <3>. QED
      BY <2>1, <2>2, <3>3 DEF FindsFile, S!At
  <2>4. CASE req[o].pc \notin S!Moving
    BY <2>1, <2>2, <2>4 DEF FindsFile, S!At, S!Moving
  <2>. QED
    BY <2>3, <2>4
<1>3. CASE o = t /\ ~LinkSteps(t)
  BY <1>1, <1>3, OtherRequests DEF S!Serve, LinkSteps, ClaimSteps
<1>4. CASE o = t /\ LinkSteps(t)
  <2>1. SameLink(t) /\ req[t].op \in Persisters
    BY <1>1, <1>4, LinkOps, LinkRequests DEF S!Idle
  <2>2. S!Undisturbed(t) /\ FindsFile(t)
    BY <1>1, <1>4, <2>1, UndisturbedBefore DEF KnowsFile, SameLink
  <2>3. CASE S!CreateLink(t) \/ S!DeleteLink(t) \/ S!UndoLink(t)
    BY <1>1, <1>4, <2>3, LinkRowEffects DEF FindsFile, S!At, S!Idle
  <2>4. CASE S!FsLock(t)
    BY <1>4, <2>4, LockEffects DEF FindsFile, S!At
  <2>5. CASE S!SaveTemp(t) \/ S!MoveAway(t) \/ S!Rename(t)
    <3>1. ~FailsAtFile(t)
      <4>1. req[t].id \in DOMAIN fs
        BY <2>1, <2>2, <1>4 DEF KnowsFs, S!Undisturbed
      <4>. QED
        BY <2>2, <4>1 DEF FailsAtFile, FindsFile, S!At
    <3>2. ~Renames(t)
      BY <1>1, <1>4 DEF Renames, S!Idle
    <3>3. CASE SavesTemp(t)
      BY <1>4, <3>3 DEF SavesTemp, Persists, FindsFile, S!At
    <3>4. CASE MovesAway(t)
      <4>1. req[t].at \in S!Places
        BY <3>4, RequestShapes DEF MovesAway, S!Moves, S!Moving
      <4>2. meta'[req[t].at] = S!NoFile
        BY <3>4, <4>1 DEF MovesAway, S!TypeOK
      <4>. QED
        BY <1>4, <3>4, <4>2 DEF MovesAway, Persists, FindsFile, S!At
    <3>. QED
      BY <2>5, <3>1, <3>2, <3>3, <3>4, SaveEffects
  <2>. QED
    BY <1>4, <2>3, <2>4, <2>5 DEF LinkSteps
<1>. QED
  BY <1>2, <1>3, <1>4

\* The links of a file system that a step does not touch.
LEMMA SamePaths ==
  ASSUME NEW i, \A l : l[1] = i => (l \in link' <=> l \in link)
  PROVE  S!Paths(i)' = S!Paths(i)
BY DEF S!Paths

\* The steps of its link requests are the only ones to touch the links of a file
\* system that stays.
LEMMA OtherPaths ==
  ASSUME S!TypeOK, NEW t \in Threads, S!Serve(t), NEW i \in DOMAIN fs',
         S!CreateLink(t) \/ S!DeleteLink(t) \/ S!UndoLink(t) => req[t].id # i
  PROVE  S!Paths(i)' = S!Paths(i)
<1>1. CASE S!CreateLink(t) \/ S!DeleteLink(t) \/ S!UndoLink(t)
  <2>1. link' = link \/ link' = link \cup {Entry(t)} \/ link' = link \ {Entry(t)}
    BY <1>1, LinkRowEffects
  <2>2. \A l : l[1] = i => l # Entry(t)
    BY <1>1 DEF Entry
  <2>3. \A l : l[1] = i => (l \in link' <=> l \in link)
    BY <2>1, <2>2
  <2>. QED
    BY <2>3, SamePaths
<1>2. CASE link' = link
  BY <1>2 DEF S!Paths
<1>3. CASE NoRow(t)
  <2>1. i # req[t].id
    BY <1>3, RowEffects
  <2>2. \A l : l[1] = i => (l \in link' <=> l \in link)
    BY <1>3, <2>1 DEF NoRow
  <2>. QED
    BY <2>2, SamePaths
<1>4. S!FsLock(t) \/ S!SaveTemp(t) \/ S!MoveAway(t) \/ S!Rename(t) => link' = link
  BY LockEffects, SaveEffects
<1>. QED
  BY <1>1, <1>2, <1>3, <1>4, RowSteps DEF NewRow, LinkSteps

\* Whether the file is right, or will be, for one file system a step leaves alone.
LEMMA WrittenElsewhere ==
  ASSUME S!TypeOK, NEW t \in Threads, \A o \in Threads \ {t} : req'[o] = req[o],
         NEW i, S!Paths(i)' = S!Paths(i), S!Current(i) => S!Current(i)',
         lock'[i] = lock[i], req[t].pc \in S!Persisting \cup {"lock"} => req[t].id # i,
         S!Written(i)
  PROVE  S!Written(i)'
<1>1. CASE S!Written(i)!1
  <2>1. PICK o \in Threads : S!At(o, "lock") /\ req[o].id = i
    BY <1>1
  <2>2. o # t
    BY <2>1 DEF S!At
  <2>. QED
    BY <2>1, <2>2 DEF S!At, S!Written
<1>2. CASE S!Written(i)!2
  <2>1. PICK o \in Threads : req[o].pc \in S!Persisting /\ req[o].id = i /\ req[o].links = {S!Paths(i)}
    BY <1>2
  <2>2. o # t
    BY <2>1
  <2>. QED
    BY <2>1, <2>2 DEF S!Written
<1>3. CASE S!Written(i)!3
  BY <1>3 DEF S!Written
<1>. QED
  BY <1>1, <1>2, <1>3 DEF S!Written

LEMMA SameCurrent ==
  ASSUME NEW i, fs'[i] = fs[i], S!Paths(i)' = S!Paths(i),
         meta'[S!PlaceOf(fs[i])] = meta[S!PlaceOf(fs[i])]
  PROVE  S!Current(i) => S!Current(i)'
BY DEF S!Current

\* A new file system that is alone in its place finds no file there; and one at a
\* time, none has links.
LEMMA NewIsWritten ==
  ASSUME S!TypeOK, S!LockInv, S!TenantInv, LinksKnown, NEW t \in Threads, S!Serve(t), NewRow(t),
         NEW i, i = req[t].id, Cared(i)'
  PROVE  S!Written(i)'
<1>. USE NobodyAssumption DEF Persisters
<1>1. /\ overlap' = overlap /\ deleted' = deleted /\ link' = link /\ i \notin DOMAIN fs /\ i \in Ids
      /\ fs'[i] = req[t].src /\ tenants' = tenants \cup {<<i, req[t].src>>} /\ req[t].src \in S!Rows
  BY ServeTypes, RowEffects DEF NewRow
<1>2. S!Paths(i)' = S!Paths(i)
  BY <1>1 DEF S!Paths
<1>3. \A o \in Threads : req[o].op \in Persisters /\ req[o].id = i => overlap /\ i \in deleted
  BY <1>1 DEF LinksKnown, KnowsFs
<1>4. S!Paths(i) # {} => overlap /\ i \in deleted
  <2>1. SUFFICES ASSUME NEW l \in link, l[1] = i
                 PROVE  overlap /\ i \in deleted
    BY DEF S!Paths
  <2>2. PICK o \in Threads : Backs(o, l)
    BY <1>1, <2>1 DEF LinksKnown, HasFs
  <2>. QED
    BY <1>3, <2>1, <2>2 DEF Backs
<1>5. S!Sole(i)'
  BY <1>1, <1>2, <1>4 DEF Cared, S!Orderly
<1>6. i \notin deleted /\ S!Paths(i)' = {}
  BY <1>1, <1>2, <1>4, <1>5 DEF S!Sole
<1>7. meta[S!PlaceOf(req[t].src)] = S!NoFile
  <2>1. S!PlaceOf(req[t].src) \in S!Places
    BY <1>1 DEF S!Places
  <2>2. \A m \in tenants : m[1] # i
    BY <1>1, <1>6 DEF S!TenantInv
  <2>3. \A m \in tenants : S!PlaceOf(m[2]) # S!PlaceOf(req[t].src)
    <3>1. \A m \in tenants : S!PlaceOf(m[2]) = S!PlaceOf(fs'[i]) => m[1] = i
      BY <1>1, <1>5 DEF S!Sole
    <3>. QED
      BY <1>1, <2>2, <3>1
  <2>. QED
    BY <2>1, <2>3 DEF S!TenantInv
<1>8. lock[i] = S!Nobody
  <2>1. \A o \in Threads : lock[i] # o
    <3>1. ASSUME NEW o \in Threads, lock[i] = o PROVE FALSE
      <4>1. req[o].pc \in S!Persisting /\ req[o].id = i
        BY <1>1, <3>1 DEF S!LockInv
      <4>2. req[o].op \in Persisters
        <5>1. req[o] \in S!Saves \/ req[o] \in S!Moves
          BY <4>1, RequestShapes DEF S!Persisting, S!Moving, S!At
        <5>. QED
          BY <5>1 DEF S!Saves, S!Moves
      <4>. QED
        BY <1>3, <1>6, <4>1, <4>2
    <3>. QED
      BY <3>1
  <2>. QED
    BY <1>1, <2>1 DEF S!TypeOK
<1>9. UNCHANGED <<meta, lock>>
  <2>1. i \in DOMAIN fs'
    BY RowEffects
  <2>2. ~LinkSteps(t)
    BY <1>1, <2>1, LinkRequests
  <2>. QED
    BY <2>2, OtherRequests DEF S!Serve, ClaimSteps, LinkSteps
<1>. QED
  BY <1>1, <1>6, <1>7, <1>8, <1>9 DEF S!Written, S!Current

LEMMA WrittenStays ==
  ASSUME S!TypeOK, S!Serial, S!LockInv, S!DisjointInv, S!TenantInv, LinksKnown,
         NEW t \in Threads, S!Serve(t), faults' = faults, NEW i \in DOMAIN fs', Cared(i)'
  PROVE  S!Written(i)'
<1>. USE NobodyAssumption DEF Persisters
<1>1. /\ \A o \in Threads \ {t} : req'[o] = req[o]
      /\ overlap' = overlap /\ deleted \subseteq deleted' /\ tenants \subseteq tenants'
  BY ServeTypes, RowsAfter
<1>2. CASE NewRow(t) /\ i = req[t].id
  BY <1>2, NewIsWritten
<1>3. SUFFICES ASSUME i \in DOMAIN fs, fs'[i] = fs[i]
               PROVE  S!Written(i)'
  BY <1>2, RowsAfter
<1>4. i \in Ids /\ S!PlaceOf(fs[i]) \in S!Places
  BY <1>3, PlaceOfRow DEF S!TypeOK
<1>5. S!Sole(i) \/ S!Orderly(i)
  BY <1>1, <1>3, CareBefore DEF Cared
<1>6. S!Paths(i)' = S!Paths(i) => S!Written(i)
  BY <1>1, <1>3, CareBefore DEF Cared, LinksKnown
<1>7. req[t].op \in Persisters /\ req[t].id = i => FindsFile(t)
  BY <1>3, <1>5 DEF LinksKnown, KnowsFile, S!Undisturbed, S!Orderly
<1>8. CASE ~LinkSteps(t)
  <2>1. S!Paths(i)' = S!Paths(i)
    BY <1>8, OtherPaths DEF LinkSteps
  <2>2. meta' = meta /\ lock' = lock /\ req[t].pc \notin S!Persisting \cup {"lock", "undo"}
    BY <1>8, OtherRequests DEF S!Serve, LinkSteps, ClaimSteps
  <2>3. S!Current(i) => S!Current(i)'
    BY <1>3, <2>1, <2>2, SameCurrent
  <2>. QED
    BY <1>1, <1>6, <2>1, <2>2, <2>3, WrittenElsewhere
<1>9. CASE S!CreateLink(t) \/ S!DeleteLink(t) \/ S!UndoLink(t)
  <2>1. /\ UNCHANGED <<meta, lock>> /\ req[t].pc \in {"link", "unlink", "undo"}
        /\ req[t].op \in Persisters
    BY <1>9, LinkRowEffects, LinkRequests DEF LinkSteps, S!At
  <2>2. CASE i = req[t].id
    <3>1. faults' # faults + 1
      BY DEF S!TypeOK
    <3>2. ~S!At(t, "undo")
      BY <1>7, <2>1, <2>2 DEF FindsFile
    <3>3. S!At(t, "lock")' /\ req'[t].id = i
      BY <1>9, <2>2, <3>1, <3>2, LinkRowEffects DEF SameLink
    <3>. QED
      BY <3>3 DEF S!Written
  <2>3. CASE i # req[t].id
    <3>1. S!Paths(i)' = S!Paths(i)
      BY <2>3, OtherPaths
    <3>2. S!Current(i) => S!Current(i)'
      BY <1>3, <2>1, <3>1, SameCurrent
    <3>. QED
      BY <1>1, <1>6, <2>1, <2>3, <3>1, <3>2, WrittenElsewhere
  <2>. QED
    BY <2>2, <2>3
<1>10. CASE S!FsLock(t)
  <2>1. /\ link' = link /\ meta' = meta /\ lock' = [lock EXCEPT ![req[t].id] = t]
        /\ req'[t].pc = "save" /\ req'[t].id = req[t].id /\ req'[t].links = {S!Paths(req[t].id)}
    BY <1>10, LockEffects DEF SameLink
  <2>2. S!Paths(i)' = S!Paths(i)
    BY <2>1 DEF S!Paths
  <2>3. CASE i = req[t].id
    BY <2>1, <2>2, <2>3 DEF S!Written, S!Persisting
  <2>4. CASE i # req[t].id
    <3>1. lock'[i] = lock[i]
      BY <1>4, <2>1, <2>4 DEF S!TypeOK
    <3>2. S!Current(i) => S!Current(i)'
      BY <1>3, <2>1, <2>2, SameCurrent
    <3>. QED
      BY <1>1, <1>6, <2>1, <2>2, <2>4, <3>1, <3>2, WrittenElsewhere
  <2>. QED
    BY <2>3, <2>4
<1>11. CASE S!SaveTemp(t) \/ S!MoveAway(t) \/ S!Rename(t)
  <2>1. /\ link' = link /\ req[t].pc \in S!Persisting /\ req[t].op \in Persisters
        /\ req[t].id \in Ids
    BY <1>11, SaveEffects, LinkRequests DEF LinkSteps
  <2>2. S!Paths(i)' = S!Paths(i) /\ S!Written(i)
    BY <1>6, <2>1 DEF S!Paths
  <2>3. CASE i # req[t].id
    <3>1. lock' = lock \/ lock' = [lock EXCEPT ![req[t].id] = S!Nobody]
      BY <1>11, SaveLocks
    <3>2. lock'[i] = lock[i]
      BY <1>4, <2>3, <3>1 DEF S!TypeOK
    <3>3. req[t].pc \in S!Moving => req[t].at # S!PlaceOf(fs[i])
      BY <1>3, <1>5, <2>3, MoverOwns
    <3>4. meta'[S!PlaceOf(fs[i])] = meta[S!PlaceOf(fs[i])]
      BY <1>4, <3>3, OtherFiles
    <3>5. S!Current(i) => S!Current(i)'
      BY <1>3, <2>2, <3>4, SameCurrent
    <3>. QED
      BY <1>1, <2>1, <2>2, <2>3, <3>2, <3>5, WrittenElsewhere
  <2>4. CASE i = req[t].id
    <3>1. lock[i] = t /\ lock[i] # S!Nobody
      BY <1>4, <2>1, <2>4 DEF S!LockInv
    <3>2. CASE \E o \in Threads : S!At(o, "lock") /\ req[o].id = i
      <4>1. PICK o \in Threads : S!At(o, "lock") /\ req[o].id = i
        BY <3>2
      <4>2. o # t
        BY <2>1, <4>1 DEF S!At, S!Persisting
      <4>. QED
        BY <1>1, <4>1, <4>2 DEF S!At, S!Written
    <3>3. CASE \E o \in Threads : req[o].pc \in S!Persisting /\ req[o].id = i
                                   /\ req[o].links = {S!Paths(i)}
      <4>1. req[t].links = {S!Paths(i)}
        BY <1>4, <3>1, <3>3 DEF S!LockInv
      <4>2. ~FailsAtFile(t)
        BY <1>3, <1>7, <2>1, <2>4 DEF FailsAtFile, FindsFile, S!At
      <4>3. CASE SavesTemp(t) \/ MovesAway(t)
        <5>1. req'[t].pc \in S!Persisting /\ req'[t].id = i /\ req'[t].links = {S!Paths(i)'}
          BY <2>2, <2>4, <4>1, <4>3 DEF SavesTemp, MovesAway, Persists, SameLink, S!Persisting
        <5>. QED
          BY <5>1 DEF S!Written
      <4>4. CASE Renames(t)
        <5>1. req[t].at = S!PlaceOf(fs[i])
          <6>1. S!Undisturbed(t)
            BY <1>3, <1>5, <2>4 DEF S!Undisturbed, S!Orderly
          <6>2. req[t].pc \in S!Moving
            BY <4>4 DEF Renames, S!Moving
          <6>. QED
            BY <2>4, <6>1, <6>2, MoverPlace
        <5>2. lock'[i] = S!Nobody /\ meta'[S!PlaceOf(fs[i])] = {S!Paths(i)'}
          BY <1>4, <2>2, <2>4, <4>1, <4>4, <5>1 DEF Renames, S!TypeOK
        <5>. QED
          BY <1>3, <5>2 DEF S!Written, S!Current
      <4>. QED
        BY <1>11, <4>2, <4>3, <4>4, SaveEffects
    <3>. QED
      BY <2>2, <3>1, <3>2, <3>3 DEF S!Written
  <2>. QED
    BY <2>3, <2>4
<1>. QED
  BY <1>8, <1>9, <1>10, <1>11 DEF LinkSteps

\* A step of a request fails or leaves the count of failures alone.
LEMMA ServeFaults ==
  ASSUME S!TypeOK, NEW t \in Threads, S!Serve(t)
  PROVE  faults' = faults \/ faults' = faults + 1
<1>1. S!CreateFileSystem(t) \/ S!DeletePVC(t) \/ S!DeleteFileSystem(t) =>
        faults' = faults \/ faults' = faults + 1
  BY DEF S!CreateFileSystem, S!DeletePVC, S!DeleteFileSystem, S!Fail
<1>2. ClaimSteps(t) => faults' = faults \/ faults' = faults + 1
  BY ClaimEffects
<1>3. S!CreateLink(t) \/ S!DeleteLink(t) \/ S!UndoLink(t) => faults' = faults \/ faults' = faults + 1
  BY LinkRowEffects
<1>4. S!FsLock(t) => faults' = faults
  BY LockEffects
<1>5. S!SaveTemp(t) \/ S!MoveAway(t) \/ S!Rename(t) => faults' = faults \/ faults' = faults + 1
  BY SaveEffects
<1>. QED
  BY <1>1, <1>2, <1>3, <1>4, <1>5 DEF S!Serve, ClaimSteps

\* A row without a file system is the work of a link request, which takes it back.
LEMMA HasFsStays ==
  ASSUME S!TypeOK, NEW t \in Threads, S!Serve(t), faults' = faults,
         \A l \in link : HasFs(l), NEW l \in link'
  PROVE  HasFs(l)'
<1>1. \A o \in Threads \ {t} : req'[o] = req[o]
  BY ServeTypes
<1>2. \A o \in Threads \ {t} : Backs(o, l) => Backs(o, l)'
  BY <1>1 DEF Backs
<1>3. faults' # faults + 1
  BY DEF S!TypeOK
<1>4. CASE ~LinkSteps(t)
  <2>1. ~Backs(t, l)
    BY <1>4, OtherRequests DEF Backs, S!Serve, LinkSteps, ClaimSteps
  <2>2. l \in link /\ (NoRow(t) => l[1] # req[t].id)
    BY <1>4, RowSteps DEF NewRow, NoRow
  <2>3. l[1] \in DOMAIN fs => l[1] \in DOMAIN fs'
    BY <2>2, RowsAfter
  <2>. QED
    BY <1>2, <2>1, <2>2, <2>3 DEF HasFs
<1>5. CASE LinkSteps(t)
  <2>1. fs' = fs /\ req[t].op \in {"link", "unlink"}
    BY <1>5, LinkRequests
  <2>2. SUFFICES ASSUME l \notin link \/ Backs(t, l)
                 PROVE  Backs(t, l)' \/ l[1] \in DOMAIN fs
    BY <1>2, <2>1 DEF HasFs
  <2>3. CASE S!CreateLink(t) \/ S!DeleteLink(t) \/ S!UndoLink(t)
    <3>1. l \in Ids \X ServerLinks
      <4>1. S!TypeOK'
        BY ServeTypes
      <4>. QED
        BY <4>1 DEF S!TypeOK
    <3>2. S!At(t, "link") => req[t].op = "link"
      BY RequestShapes DEF S!Links
    <3>3. CASE S!At(t, "link") /\ S!At(t, "lock")' /\ SameLink(t) /\ link' = link \cup {Entry(t)}
      BY <2>2, <3>1, <3>2, <3>3 DEF Backs, SameLink, Entry, S!At
    <3>4. CASE S!At(t, "unlink") /\ link' = link \ {Entry(t)}
      BY <2>2, <3>4 DEF Backs, S!At
    <3>5. CASE S!At(t, "undo") /\ link' = link \ {Entry(t)}
      BY <2>2, <3>1, <3>5 DEF Backs, Entry
    <3>. QED
      BY <1>3, <2>3, <3>3, <3>4, <3>5, LinkRowEffects
  <2>4. CASE S!FsLock(t)
    BY <2>2, <2>4, LockEffects DEF Backs, SameLink, S!At
  <2>5. CASE S!SaveTemp(t) \/ S!MoveAway(t) \/ S!Rename(t)
    <3>1. Backs(t, l) /\ req[t].pc \in S!Persisting
      BY <2>2, <2>5, SaveEffects
    <3>2. req[t].pc = "save" /\ req[t].op = "link"
      BY <3>1 DEF Backs, S!Persisting
    <3>3. CASE GivesUp(t)
      BY <3>1, <3>2, <3>3 DEF GivesUp, Failed, Backs, SameLink, S!At
    <3>4. CASE req[t].id \in DOMAIN fs
      BY <3>1, <3>4 DEF Backs
    <3>. QED
      BY <2>5, <3>2, <3>3, <3>4, SaveEffects DEF SavesTemp, MovesAway, Renames
  <2>. QED
    BY <1>5, <2>3, <2>4, <2>5 DEF LinkSteps
<1>. QED
  BY <1>4, <1>5

\* A request that comes in has not touched a row yet.
LEMMA ReceiveLeavesLinks ==
  ASSUME S!TypeOK, NEW t \in Threads, S!Receive(t), LinksKnown
  PROVE  LinksKnown'
<1>. USE DEF Persisters
<1>1. /\ req[t] = S!Idle /\ UNCHANGED <<fs, link, meta, lock, deleted, tenants>>
      /\ \A o \in Threads \ {t} : req'[o] = req[o]
      /\ overlap => overlap'
  BY ReceiveTypes
<1>2. req[t].pc = "idle" /\ req[t].op = "idle"
  BY <1>1 DEF S!Idle
<1>3. /\ req'[t].op \in {"link", "unlink"} =>
           /\ req'[t].id \in DOMAIN fs /\ req'[t].pc \notin {"undo", "moveAway", "rename"}
  <2>1. req'[t] \in S!Creates => req'[t].op = "create"
    BY DEF S!Creates
  <2>2. req'[t] \in S!Deletes => req'[t].op = "delete"
    BY DEF S!Deletes
  <2>3. req'[t] \in S!Claims => req'[t].op = "claims"
    BY DEF S!Claims
  <2>. QED
    BY <2>1, <2>2, <2>3, ReceiveTypes DEF S!At
<1>4. \A o \in Threads : KnowsFs(o)'
  BY <1>1, <1>3 DEF LinksKnown, KnowsFs
<1>5. ASSUME NEW o \in Threads PROVE KnowsFile(o)'
  <2>1. CASE o = t
    BY <1>3, <2>1 DEF KnowsFile, FindsFile, S!At
  <2>2. CASE o # t
    <3>1. S!Undisturbed(o)' => S!Undisturbed(o)
      BY <1>1, <2>2 DEF S!Undisturbed, S!Sole
    <3>. QED
      BY <1>1, <2>2, <3>1 DEF LinksKnown, KnowsFile, FindsFile, S!At
  <2>. QED
    BY <2>1, <2>2
<1>6. \A l \in link' : HasFs(l)'
  BY <1>1, <1>2 DEF LinksKnown, HasFs, Backs
<1>7. ASSUME NEW i \in DOMAIN fs', Cared(i)' PROVE S!Written(i)'
  <2>1. i \in DOMAIN fs /\ fs'[i] = fs[i] /\ S!Paths(i)' = S!Paths(i) /\ lock'[i] = lock[i]
    BY <1>1 DEF S!Paths
  <2>2. S!Written(i)
    BY <1>1, <1>7, <2>1, CareBefore DEF Cared, LinksKnown
  <2>3. S!Current(i) => S!Current(i)'
    BY <1>1, <2>1, SameCurrent
  <2>4. req[t].pc \notin S!Persisting \cup {"lock"}
    BY <1>2 DEF S!Persisting
  <2>. QED
    BY <1>1, <2>1, <2>2, <2>3, <2>4, WrittenElsewhere
<1>. QED
  BY <1>4, <1>5, <1>6, <1>7 DEF LinksKnown

LEMMA LinksStay ==
  ASSUME S!TypeOK, S!Serial, S!LockInv, S!DisjointInv, S!TenantInv, S!LinkInv, S!Next
  PROVE  S!LinkInv'
<1>1. SUFFICES ASSUME faults' = 0
               PROVE  LinksKnown'
  BY LinkParts DEF S!LinkInv, LinksKnown, KnowsFs, KnowsFile, FindsFile, Persisters, Cared, HasFs, Backs
<1>2. faults' # faults + 1 /\ faults \in Nat
  BY <1>1 DEF S!TypeOK
<1>3. CASE S!Crash
  BY <1>2, <1>3, CrashEffects
<1>4. faults = 0 => LinksKnown
  BY LinkParts
<1>5. ASSUME NEW t \in Threads, S!Receive(t)
      PROVE  LinksKnown'
  <2>1. faults' = faults
    BY <1>5, ReceiveTypes
  <2>. QED
    BY <1>1, <1>4, <1>5, <2>1, ReceiveLeavesLinks
<1>6. ASSUME NEW t \in Threads, S!Serve(t)
      PROVE  LinksKnown'
  <2>1. faults' = faults /\ LinksKnown
    BY <1>1, <1>2, <1>4, <1>6, ServeFaults
  <2>2. \A o \in Threads : KnowsFs(o)' /\ KnowsFile(o)'
    BY <1>6, <2>1, KnowsFsStays, KnowsFileStays DEF LinksKnown
  <2>3. \A i \in DOMAIN fs' : Cared(i)' => S!Written(i)'
    BY <1>6, <2>1, WrittenStays
  <2>4. \A l \in link' : HasFs(l)'
    BY <1>6, <2>1, HasFsStays DEF LinksKnown
  <2>. QED
    BY <2>2, <2>3, <2>4 DEF LinksKnown
<1>. QED
  BY <1>3, <1>5, <1>6 DEF S!Next

-----------------------------------------------------------------------------
(* The theorems about the server *)

LEMMA ServerInitially == S!Init => S!ServerInv
<1>. SUFFICES ASSUME S!Init PROVE S!ServerInv
  OBVIOUS
<1>. USE DEF S!Init
<1>1. \A t \in Threads : req[t] = S!Idle /\ req[t].op = "idle" /\ req[t].pc = "idle"
  BY DEF S!Idle
<1>2. S!TypeOK
  <2>1. DOMAIN fs = {} /\ DOMAIN pv = {} /\ DOMAIN pvc = {}
    OBVIOUS
  <2>2. req \in [Threads -> S!Requests]
    BY DEF S!Requests
  <2>3. meta \in [S!Places -> S!Contents \cup {S!NoFile}] /\ lock \in [Ids -> Threads \cup {S!Nobody}]
    OBVIOUS
  <2>4. fs \in [DOMAIN fs -> S!Rows] /\ tenants \subseteq Ids \X S!Rows
    BY <2>1
  <2>. QED
    BY <2>1, <2>2, <2>3, <2>4 DEF S!TypeOK
<1>3. S!Serial
  BY <1>1 DEF S!Serial
<1>4. S!LockInv
  BY <1>1, NobodyAssumption DEF S!LockInv, S!Persisting
<1>5. S!DisjointInv
  BY <1>1 DEF S!DisjointInv, S!SourcesAreDisjoint, S!Checked, S!At
<1>6. S!TenantInv
  BY <1>1 DEF S!TenantInv, S!Moving
<1>7. S!LinkInv
  BY <1>1 DEF S!LinkInv
<1>8. S!OwnedInv
  BY <1>1 DEF S!OwnedInv, S!ClaimsHaveFileSystem, S!At
<1>9. S!BoundInv
  BY <1>1 DEF S!BoundInv, S!ClaimsAreBound
<1>. QED
  BY <1>2, <1>3, <1>4, <1>5, <1>6, <1>7, <1>8, <1>9 DEF S!ServerInv

LEMMA ServerStays ==
  ASSUME S!ServerInv, S!Next
  PROVE  S!ServerInv'
<1>1. S!TypeOK'
  <2>1. S!TypeOK
    BY DEF S!ServerInv
  <2>. QED
    BY <2>1, CrashEffects, ReceiveTypes, ServeTypes DEF S!Next
<1>. QED
  BY <1>1, SerialStays, LocksStay, DisjointStays, TenantsStay, LinksStay, OwnedStays, BoundStays DEF S!ServerInv

LEMMA ServerUnchanged ==
  ASSUME S!ServerInv, UNCHANGED S!fvars
  PROVE  S!ServerInv'
<1>. USE DEF S!fvars
<1>1. S!TypeOK' /\ S!Serial' /\ S!LockInv'
  BY DEF S!ServerInv, S!TypeOK, S!Serial, S!LockInv
<1>2. S!DisjointInv'
  BY DEF S!ServerInv, S!DisjointInv, S!SourcesAreDisjoint, S!Checked, S!checkFsDir, S!CheckLinkPath,
         S!Paths, S!At
<1>3. S!TenantInv' /\ S!LinkInv'
  <2>1. S!TenantInv'
    BY DEF S!ServerInv, S!TenantInv
  <2>2. /\ \A t \in Threads : (S!Undisturbed(t)' <=> S!Undisturbed(t))
        /\ \A i \in DOMAIN fs : /\ (S!Sole(i)' <=> S!Sole(i))
                               /\ (S!Orderly(i)' <=> S!Orderly(i))
                               /\ S!Paths(i)' = S!Paths(i) /\ (S!Written(i)' <=> S!Written(i))
    <3>1. ASSUME NEW i
          PROVE  /\ (S!Sole(i)' <=> S!Sole(i))
                 /\ (S!Orderly(i)' <=> S!Orderly(i))
                 /\ S!Paths(i)' = S!Paths(i) /\ (S!Current(i)' <=> S!Current(i))
      BY DEF S!Sole, S!Orderly, S!Paths, S!Current
    <3>2. ASSUME NEW i PROVE S!Written(i)' <=> S!Written(i)
      BY <3>1 DEF S!Written, S!At
    <3>3. ASSUME NEW t PROVE S!Undisturbed(t)' <=> S!Undisturbed(t)
      BY <3>1 DEF S!Undisturbed
    <3>. QED
      BY <3>1, <3>2, <3>3
  <2>. QED
    BY <2>1, <2>2 DEF S!ServerInv, S!LinkInv, S!At
<1>4. S!OwnedInv'
  BY DEF S!ServerInv, S!OwnedInv, S!ClaimsHaveFileSystem, S!At
<1>5. S!BoundInv'
  BY DEF S!ServerInv, S!BoundInv, S!ClaimsAreBound, S!Volume, S!ClaimId
<1>. QED
  BY <1>1, <1>2, <1>3, <1>4, <1>5 DEF S!ServerInv

\* What the server's invariant says of a run of the sum.
LEMMA ServerInvariant == Spec => [](which = "server" => S!ServerInv)
<1>1. Init => (which = "server" => S!ServerInv)
  BY ServerInitially DEF Init
<1>2. (which = "server" => S!ServerInv) /\ [Next]_all => (which = "server" => S!ServerInv)'
  <2>. SUFFICES ASSUME which = "server" => S!ServerInv, [Next]_all, which' = "server"
                PROVE  S!ServerInv'
    OBVIOUS
  <2>1. CASE which = "server" /\ S!Next
    BY <2>1, ServerStays
  <2>2. CASE UNCHANGED all
    <3>1. which = "server" /\ UNCHANGED S!fvars
      BY <2>2 DEF all, S!fvars
    <3>. QED
      BY <3>1, ServerUnchanged
  <2>. QED
    BY <2>1, <2>2 DEF Next
<1>. QED
  BY <1>1, <1>2, PTL DEF Spec

\* Nothing is written between a request's check and its row while requests are
\* served one at a time, so rows and links that passed the check stay apart: in the
\* directories they lead to, when their texts are plain (checkFsDir(),
\* checkLinkPath()).
THEOREM SourcesStayApart == Spec => []SourcesAreDisjoint
<1>1. (which = "server" => S!ServerInv) => SourcesAreDisjoint
  BY DEF SourcesAreDisjoint, S!ServerInv, S!DisjointInv
<1>. QED
  BY <1>1, ServerInvariant, PTL

\* However many requests overlap, without a failure the links file in a directory
\* lists the links of the one file system it ever had, and, requests one at a time,
\* of a later one that has links; and no row is left without its file system
\* (PersistLinksMeta(), CreateLink()).
THEOREM LinksStayKept == Spec => []LinksAreKept
<1>1. (which = "server" => S!ServerInv) => LinksAreKept
  <2>. SUFFICES ASSUME S!ServerInv, S!Quiet, faults = 0
                PROVE  /\ \A i \in DOMAIN fs :
                            S!Sole(i) \/ (S!Orderly(i) /\ S!Paths(i) # {}) => S!Current(i)
                       /\ \A l \in link : l[1] \in DOMAIN fs
    BY DEF LinksAreKept, S!LinksAreKept, S!LinksFileIsCurrent, S!LinksHaveFileSystem
  <2>1. \A t \in Threads : req[t].op = "idle" /\ req[t].pc = "idle"
    BY DEF S!Quiet, S!Idle
  <2>2. \A i \in DOMAIN fs :
          S!Sole(i) \/ (S!Orderly(i) /\ S!Paths(i) # {}) => S!Written(i)
    BY DEF S!ServerInv, S!LinkInv
  <2>3. \A i \in DOMAIN fs : S!Written(i) => S!Current(i)
    BY <2>1 DEF S!Written, S!At, S!Persisting
  <2>4. \A l \in link : l[1] \in DOMAIN fs
    BY <2>1 DEF S!ServerInv, S!LinkInv
  <2>. QED
    BY <2>2, <2>3, <2>4
<1>. QED
  BY <1>1, ServerInvariant, PTL

\* While requests are served one at a time a claim always has its file system; and
\* when nothing failed either, it names its own volume, and that the right owner
\* (CreateFileSystemClaims(), deletePVC()).
THEOREM ClaimsStaySound == Spec => []ClaimsAreSound
<1>1. (which = "server" => S!ServerInv) => ClaimsAreSound
  BY DEF ClaimsAreSound, S!ClaimsAreSound, S!ServerInv, S!OwnedInv, S!BoundInv,
         S!ClaimsHaveFileSystem, S!ClaimsAreBound
<1>. QED
  BY <1>1, ServerInvariant, PTL

-----------------------------------------------------------------------------
(* The read cache: types *)

\* The record of a reader, by what it does.
LEMMA ReaderShapes ==
  ASSUME R!TypeOK, NEW r \in Readers
  PROVE  /\ reader[r].at \in {"load", "storage"} => reader[r] \in R!Waits
         /\ reader[r].at = "done" => reader[r] \in R!Answers
         /\ reader[r] \in R!Waits => reader[r].at \in {"load", "storage"}
         /\ reader[r] \in R!Answers => reader[r].at = "done"
<1>1. reader[r] \in {R!Idle} \cup R!Waits \cup R!Answers
  BY DEF R!TypeOK
<1>2. reader[r] \in R!Waits => reader[r].at \in {"load", "storage"}
  BY DEF R!Waits
<1>3. reader[r] \in R!Answers => reader[r].at = "done"
  BY DEF R!Answers
<1>4. R!Idle.at = "idle"
  BY DEF R!Idle
<1>. QED
  BY <1>1, <1>2, <1>3, <1>4

\* A reader that turns to the record s.
LEMMA NextReader ==
  ASSUME R!TypeOK, NEW r \in Readers, NEW s \in {R!Idle} \cup R!Waits \cup R!Answers,
         reader' = [reader EXCEPT ![r] = s]
  PROVE  /\ reader' \in [Readers -> {R!Idle} \cup R!Waits \cup R!Answers]
         /\ reader'[r] = s /\ \A o \in Readers \ {r} : reader'[o] = reader[o]
BY DEF R!TypeOK

\* An id is given once: it is above all that were given.
LEMMA KeyEffects ==
  ASSUME R!TypeOK, NEW f \in Files, R!TakeKey(f)
  PROVE  /\ meta' \in [Files -> Nat] /\ nextId' \in Nat /\ nextId <= nextId'
         /\ \/ meta' = meta /\ nextId' = nextId /\ meta[f] # R!NoId
            \/ /\ meta[f] = R!NoId /\ nextId' = nextId + 1
               /\ meta' = [meta EXCEPT ![f] = nextId + 1]
<1>1. CASE meta[f] # R!NoId
  BY <1>1 DEF R!TakeKey, R!TypeOK
<1>2. CASE meta[f] = R!NoId
  BY <1>2 DEF R!TakeKey, R!TypeOK
<1>. QED
  BY <1>1, <1>2

LEMMA StartEffects ==
  ASSUME R!TypeOK, NEW r \in Readers, NEW f \in Files, NEW i \in 0..Blocks - 1, R!ReadStart(r, f, i)
  PROVE  /\ R!TypeOK' /\ R!TakeKey(f)
         /\ UNCHANGED <<content, written, tiers, cache, fills, writer, flushed, late, stray>>
         /\ \A o \in Readers \ {r} : reader'[o] = reader[o]
         /\ reader'[r].at = "load" /\ reader'[r].file = f /\ reader'[r].key[1] = meta[f]
         /\ reader'[r].need = IF f \in late THEN 0 ELSE flushed[f]
<1>1. PICK s : s = [at |-> "load", file |-> f, index |-> i, key |-> R!Key(meta[f], i),
                    need |-> IF f \in late THEN 0 ELSE flushed[f]]
  OBVIOUS
<1>2. R!Key(meta[f], i) \in Nat \X (0..Blocks - 1) /\ R!Key(meta[f], i)[1] = meta[f]
  BY DEF R!TypeOK, R!Key
<1>3. (IF f \in late THEN 0 ELSE flushed[f]) \in Nat
  BY DEF R!TypeOK
<1>4. /\ s \in R!Waits /\ s.at = "load" /\ s.file = f /\ s.key[1] = meta[f]
      /\ s.need = IF f \in late THEN 0 ELSE flushed[f]
  BY <1>1, <1>2, <1>3 DEF R!Waits
<1>5. reader' = [reader EXCEPT ![r] = s]
  BY <1>1 DEF R!ReadStart
<1>6. /\ reader' \in [Readers -> {R!Idle} \cup R!Waits \cup R!Answers]
      /\ reader'[r] = s /\ \A o \in Readers \ {r} : reader'[o] = reader[o]
  BY <1>4, <1>5, NextReader
<1>7. R!TakeKey(f) /\ UNCHANGED <<buffered, content, written, tiers, cache, fills, writer, flushed, late, stray>>
  BY DEF R!ReadStart
<1>8. reads' \in Nat
  BY DEF R!ReadStart, R!TypeOK
<1>9. meta' \in [Files -> Nat] /\ nextId' \in Nat
  BY <1>7, KeyEffects
<1>10. R!TypeOK'
  BY <1>6, <1>7, <1>8, <1>9 DEF R!TypeOK
<1>. QED
  BY <1>4, <1>6, <1>7, <1>10

\* The block a read finds, in memory if it is there.
LEMMA LoadEffects ==
  ASSUME R!TypeOK, NEW r \in Readers, R!Load(r)
  PROVE  /\ R!TypeOK' /\ reader[r] \in R!Waits /\ reader[r].at = "load"
         /\ UNCHANGED <<content, written, meta, nextId, tiers, cache, fills, writer, flushed, late, stray>>
         /\ \A o \in Readers \ {r} : reader'[o] = reader[o]
         /\ reader'[r].file = reader[r].file /\ reader'[r].need = reader[r].need
         /\ \/ reader'[r].at = "storage"
            \/ /\ reader'[r].at = "done"
               /\ \E t \in tiers : /\ reader[r].key \in DOMAIN cache[t]
                                   /\ reader'[r].got = cache[t][reader[r].key]
<1>1. reader[r].at = "load" /\ reader[r] \in R!Waits
  BY ReaderShapes DEF R!Load
<1>2. UNCHANGED <<buffered, content, written, meta, nextId, tiers, cache, fills, writer, reads, flushed, late, stray>>
  BY DEF R!Load
<1>3. PICK s : reader' = [reader EXCEPT ![r] = s] /\
               \/ s = [reader[r] EXCEPT !.at = "storage"]
               \/ \E t \in tiers : /\ reader[r].key \in DOMAIN cache[t]
                                   /\ s = [at |-> "done", file |-> reader[r].file, need |-> reader[r].need,
                                           got |-> cache[t][reader[r].key]]
  <2>1. PICK k, hit, t : /\ k = reader[r].key /\ hit = {u \in tiers : k \in DOMAIN cache[u]}
                         /\ t = IF "mem" \in hit THEN "mem" ELSE "disk"
    OBVIOUS
  <2>2. reader' = [reader EXCEPT ![r] =
              IF hit = {} THEN [@ EXCEPT !.at = "storage"]
              ELSE [at |-> "done", file |-> @.file, need |-> @.need, got |-> cache[t][k]]]
    BY <2>1 DEF R!Load
  <2>3. hit # {} => t \in tiers /\ k \in DOMAIN cache[t]
    BY <2>1 DEF R!TypeOK
  <2>4. CASE hit = {}
    BY <2>2, <2>4 DEF R!TypeOK
  <2>5. CASE hit # {}
    BY <2>1, <2>2, <2>3, <2>5 DEF R!TypeOK
  <2>. QED
    BY <2>4, <2>5
<1>4. CASE s = [reader[r] EXCEPT !.at = "storage"]
  <2>1. s \in R!Waits /\ s.at = "storage" /\ s.file = reader[r].file /\ s.need = reader[r].need
    BY <1>1, <1>4 DEF R!Waits
  <2>2. R!TypeOK' /\ reader'[r] = s /\ \A o \in Readers \ {r} : reader'[o] = reader[o]
    BY <1>2, <1>3, <2>1, NextReader DEF R!TypeOK
  <2>. QED
    BY <1>1, <1>2, <2>1, <2>2
<1>5. ASSUME NEW t \in tiers, reader[r].key \in DOMAIN cache[t],
             s = [at |-> "done", file |-> reader[r].file, need |-> reader[r].need,
                  got |-> cache[t][reader[r].key]]
      PROVE  /\ R!TypeOK' /\ reader'[r] = s /\ \A o \in Readers \ {r} : reader'[o] = reader[o]
             /\ s.file = reader[r].file /\ s.need = reader[r].need
             /\ s.at = "done" /\ s.got = cache[t][reader[r].key]
  <2>1. cache[t][reader[r].key] \in R!Data
    BY <1>5 DEF R!TypeOK
  <2>2. /\ s \in R!Answers /\ s.file = reader[r].file /\ s.need = reader[r].need
        /\ s.at = "done" /\ s.got = cache[t][reader[r].key]
    BY <1>1, <1>5, <2>1 DEF R!Waits, R!Answers
  <2>3. reader' = [reader EXCEPT ![r] = s]
    BY <1>3
  <2>4. R!TypeOK' /\ reader'[r] = s /\ \A o \in Readers \ {r} : reader'[o] = reader[o]
    BY <1>2, <2>2, <2>3, NextReader DEF R!TypeOK
  <2>. QED
    BY <2>2, <2>4
<1>. QED
  BY <1>1, <1>2, <1>3, <1>4, <1>5

\* A miss: what the storage has is answered, and on its way into the cache.
LEMMA StorageEffects ==
  ASSUME R!TypeOK, NEW r \in Readers, R!ReadStorage(r)
  PROVE  /\ R!TypeOK' /\ reader[r] \in R!Waits /\ reader[r].at = "storage"
         /\ UNCHANGED <<content, written, meta, nextId, tiers, cache, writer, flushed, stray>>
         /\ \A o \in Readers \ {r} : reader'[o] = reader[o]
         /\ reader'[r].at = "done" /\ reader'[r].file = reader[r].file
         /\ reader'[r].need = reader[r].need
         /\ reader'[r].got = <<reader[r].file, content[reader[r].file]>>
         /\ \E x : fills' = fills \cup {x} /\ x.data = <<reader[r].file, content[reader[r].file]>>
         /\ late' = IF writer[reader[r].file] = "publish" THEN late \cup {reader[r].file} ELSE late
<1>1. reader[r].at = "storage" /\ reader[r] \in R!Waits /\ reader[r].file \in Files
  <2>1. reader[r].at = "storage" /\ reader[r] \in R!Waits
    BY ReaderShapes DEF R!ReadStorage
  <2>. QED
    BY <2>1 DEF R!Waits
<1>2. UNCHANGED <<buffered, content, written, meta, nextId, tiers, cache, writer, reads, flushed, stray>>
  BY DEF R!ReadStorage
<1>3. PICK d : d = <<reader[r].file, content[reader[r].file]>>
  OBVIOUS
<1>4. d \in R!Data /\ d[1] = reader[r].file
  BY <1>1, <1>3 DEF R!TypeOK, R!Data
<1>5. PICK x : x = [file |-> reader[r].file, data |-> d, by |-> reads,
                    todo |-> {i \in reader[r].index..(reader[r].index + R!ReadAhead - 1) : i < Blocks}]
  OBVIOUS
<1>6. fills' = fills \cup {x}
  BY <1>3, <1>5 DEF R!ReadStorage
<1>7. x \in R!Fills /\ x.data = d
  <2>1. {i \in reader[r].index..(reader[r].index + R!ReadAhead - 1) : i < Blocks} \in SUBSET Nat
    BY <1>1 DEF R!Waits, R!ReadAhead
  <2>2. reads \in Nat
    BY DEF R!TypeOK
  <2>. QED
    BY <1>1, <1>4, <1>5, <2>1, <2>2 DEF R!Fills
<1>8. PICK s : s = [at |-> "done", file |-> reader[r].file, need |-> reader[r].need, got |-> d]
  OBVIOUS
<1>9. /\ s \in R!Answers /\ s.at = "done" /\ s.file = reader[r].file /\ s.need = reader[r].need
      /\ s.got = d
  BY <1>1, <1>4, <1>8 DEF R!Waits, R!Answers
<1>10. reader' = [reader EXCEPT ![r] = s]
  BY <1>3, <1>8 DEF R!ReadStorage, R!TypeOK
<1>11. /\ reader' \in [Readers -> {R!Idle} \cup R!Waits \cup R!Answers]
       /\ reader'[r] = s /\ \A o \in Readers \ {r} : reader'[o] = reader[o]
  BY <1>9, <1>10, NextReader
<1>12. late' = IF writer[reader[r].file] = "publish" THEN late \cup {reader[r].file} ELSE late
  BY DEF R!ReadStorage
<1>13. late' \subseteq Files
  BY <1>1, <1>12 DEF R!TypeOK
<1>14. R!TypeOK'
  BY <1>2, <1>6, <1>7, <1>11, <1>13 DEF R!TypeOK
<1>. QED
  BY <1>1, <1>2, <1>3, <1>6, <1>7, <1>9, <1>11, <1>12, <1>14

LEMMA ReturnEffects ==
  ASSUME R!TypeOK, NEW r \in Readers, R!Return(r)
  PROVE  /\ R!TypeOK' /\ reader'[r].at = "idle" /\ \A o \in Readers \ {r} : reader'[o] = reader[o]
         /\ UNCHANGED <<content, written, meta, nextId, tiers, cache, fills, writer, flushed, late, stray>>
<1>1. UNCHANGED <<buffered, content, written, meta, nextId, tiers, cache, fills, writer, reads, flushed, late, stray>>
  BY DEF R!Return
<1>2. /\ reader' \in [Readers -> {R!Idle} \cup R!Waits \cup R!Answers]
      /\ reader'[r] = R!Idle /\ \A o \in Readers \ {r} : reader'[o] = reader[o]
  BY NextReader DEF R!Return
<1>3. R!TypeOK'
  BY <1>1, <1>2 DEF R!TypeOK
<1>. QED
  BY <1>1, <1>2, <1>3 DEF R!Idle

\* One block more: under the key its file has now, or under that of no id.
LEMMA FillEffects ==
  ASSUME R!TypeOK, NEW x \in fills, R!SetCache(x)
  PROVE  /\ R!TypeOK' /\ R!TakeKey(x.file) /\ x \in R!Fills
         /\ stray' = (stray \/ meta[x.file] = R!NoId)
         /\ UNCHANGED <<content, written, tiers, reader, writer, flushed, late>>
         /\ \A y \in fills' : y \in fills \/ y.data = x.data
         /\ \A t \in tiers : \A k \in DOMAIN cache'[t] :
              \/ k \in DOMAIN cache[t] /\ cache'[t][k] = cache[t][k]
              \/ k[1] = meta[x.file] /\ cache'[t][k] = x.data
<1>1. x \in R!Fills /\ x.file \in Files /\ x.data \in R!Data
  <2>1. x \in R!Fills
    BY DEF R!TypeOK
  <2>. QED
    BY <2>1 DEF R!Fills
<1>2. /\ UNCHANGED <<buffered, content, written, tiers, reader, writer, reads, flushed, late>>
      /\ R!TakeKey(x.file) /\ stray' = (stray \/ meta[x.file] = R!NoId)
  BY <1>1 DEF R!SetCache, R!TypeOK
<1>3. PICK i, k, rest : /\ k = R!Key(meta[x.file], i) /\ rest = x.todo \ {i}
                        /\ i = CHOOSE j \in x.todo : \A l \in x.todo : j <= l
  OBVIOUS
<1>4. k[1] = meta[x.file]
  BY <1>3 DEF R!Key
<1>5. fills' = (fills \ {x}) \cup (IF rest = {} THEN {} ELSE {[x EXCEPT !.todo = rest]})
  BY <1>3 DEF R!SetCache
<1>6. [x EXCEPT !.todo = rest] \in R!Fills /\ [x EXCEPT !.todo = rest].data = x.data
  BY <1>1, <1>3 DEF R!Fills
<1>7. fills' \subseteq R!Fills /\ \A y \in fills' : y \in fills \/ y.data = x.data
  BY <1>5, <1>6 DEF R!TypeOK
<1>8. PICK saves \in {tiers, tiers \ {"disk"}} :
        cache' = [t \in tiers |-> IF t \in saves THEN R!With(cache[t], k, x.data) ELSE cache[t]]
  BY <1>3 DEF R!SetCache
<1>9. \A t \in tiers : \A m \in DOMAIN cache'[t] :
        \/ m \in DOMAIN cache[t] /\ cache'[t][m] = cache[t][m]
        \/ m = k /\ cache'[t][m] = x.data
  BY <1>8 DEF R!With
<1>10. \A t \in tiers' : \A m \in DOMAIN cache'[t] : cache'[t][m] \in R!Data
  BY <1>1, <1>2, <1>9 DEF R!TypeOK
<1>11. cache' = [t \in tiers |-> cache'[t]]
  BY <1>8
<1>12. meta' \in [Files -> Nat] /\ nextId' \in Nat
  BY <1>1, <1>2, KeyEffects
<1>13. R!TypeOK'
  BY <1>2, <1>7, <1>10, <1>11, <1>12 DEF R!TypeOK
<1>. QED
  BY <1>1, <1>2, <1>4, <1>7, <1>9, <1>13

LEMMA DropEffects ==
  ASSUME R!TypeOK, NEW u \in tiers, NEW k \in DOMAIN cache[u], R!Drop(u, k)
  PROVE  /\ R!TypeOK'
         /\ UNCHANGED <<content, written, meta, nextId, tiers, fills, reader, writer, flushed, late, stray>>
         /\ \A t \in tiers : \A m \in DOMAIN cache'[t] : m \in DOMAIN cache[t] /\ cache'[t][m] = cache[t][m]
<1>1. UNCHANGED <<buffered, content, written, meta, nextId, tiers, fills, reader, writer, reads, flushed, late, stray>>
  BY DEF R!Drop
<1>2. cache' = [cache EXCEPT ![u] = R!Restrict(cache[u], DOMAIN cache[u] \ {k})]
  BY DEF R!Drop
<1>3. \A t \in tiers : cache'[t] = IF t = u THEN R!Restrict(cache[u], DOMAIN cache[u] \ {k}) ELSE cache[t]
  BY <1>2 DEF R!TypeOK
<1>4. \A t \in tiers : \A m \in DOMAIN cache'[t] : m \in DOMAIN cache[t] /\ cache'[t][m] = cache[t][m]
  BY <1>3 DEF R!Restrict
<1>5. cache' = [t \in tiers |-> cache'[t]]
  BY <1>2 DEF R!TypeOK
<1>6. R!TypeOK'
  BY <1>1, <1>4, <1>5 DEF R!TypeOK
<1>. QED
  BY <1>1, <1>4, <1>6

\* A file loses its id, and the blocks that are kept under it.
LEMMA InvalidateEffects ==
  ASSUME R!TypeOK, NEW f \in Files, R!Invalidate(f)
  PROVE  /\ meta' \in [Files -> Nat] /\ meta' = [meta EXCEPT ![f] = R!NoId]
         /\ cache' = [t \in tiers |-> cache'[t]]
         /\ \A t \in tiers : \A k \in DOMAIN cache'[t] :
              /\ k \in DOMAIN cache[t] /\ cache'[t][k] = cache[t][k]
              /\ meta[f] # R!NoId => k[1] # meta[f]
<1>1. meta' = [meta EXCEPT ![f] = R!NoId] /\ R!NoId \in Nat
  BY DEF R!Invalidate, R!NoId
<1>2. CASE meta[f] = R!NoId
  BY <1>1, <1>2 DEF R!Invalidate, R!TypeOK
<1>3. CASE meta[f] # R!NoId
  <2>1. cache' = [t \in tiers |-> R!Restrict(cache[t], {k \in DOMAIN cache[t] : k[1] # meta[f]})]
    BY <1>3 DEF R!Invalidate
  <2>2. \A t \in tiers : \A k \in DOMAIN cache'[t] :
          k \in DOMAIN cache[t] /\ cache'[t][k] = cache[t][k] /\ k[1] # meta[f]
    BY <2>1 DEF R!Restrict
  <2>3. cache' = [t \in tiers |-> cache'[t]]
    BY <2>1
  <2>. QED
    BY <1>1, <2>2, <2>3 DEF R!TypeOK
<1>. QED
  BY <1>2, <1>3

\* What is in the cache after a step that only drops from it is well typed.
LEMMA DroppedTypes ==
  ASSUME R!TypeOK, tiers' = tiers,
         \A t \in tiers : \A k \in DOMAIN cache'[t] :
           k \in DOMAIN cache[t] /\ cache'[t][k] = cache[t][k]
  PROVE  \A t \in tiers' : \A k \in DOMAIN cache'[t] : cache'[t][k] \in R!Data
BY DEF R!TypeOK

LEMMA WriteStartEffects ==
  ASSUME R!TypeOK, NEW f \in Files, R!WriteStart(f)
  PROVE  /\ R!TypeOK' /\ R!Invalidate(f) /\ writer' = [writer EXCEPT ![f] = "write"]
         /\ UNCHANGED <<content, written, nextId, tiers, fills, reader, flushed, late, stray>>
<1>1. /\ UNCHANGED <<buffered, content, written, nextId, tiers, fills, reader, reads, flushed, late, stray>>
      /\ writer' = [writer EXCEPT ![f] = "write"] /\ R!Invalidate(f)
  BY DEF R!WriteStart
<1>2. writer' \in [Files -> {"idle", "write", "open", "publish"}]
  BY <1>1 DEF R!TypeOK
<1>3. /\ meta' \in [Files -> Nat] /\ cache' = [t \in tiers |-> cache'[t]]
      /\ \A t \in tiers' : \A k \in DOMAIN cache'[t] : cache'[t][k] \in R!Data
  BY <1>1, InvalidateEffects, DroppedTypes
<1>4. R!TypeOK'
  BY <1>1, <1>2, <1>3 DEF R!TypeOK
<1>. QED
  BY <1>1, <1>4

LEMMA WriteAtEffects ==
  ASSUME R!TypeOK, NEW f \in Files, R!WriteAt(f)
  PROVE  /\ R!TypeOK' /\ writer' = [writer EXCEPT ![f] = "open"] /\ writer[f] = "write"
         /\ written' = [written EXCEPT ![f] = @ + 1]
         /\ content' = content \/ content' = [content EXCEPT ![f] = written[f] + 1]
         /\ UNCHANGED <<meta, nextId, tiers, cache, fills, reader, flushed, late, stray>>
<1>1. /\ UNCHANGED <<buffered, meta, nextId, tiers, cache, fills, reader, reads, flushed, late, stray>>
      /\ writer' = [writer EXCEPT ![f] = "open"] /\ writer[f] = "write"
      /\ written' = [written EXCEPT ![f] = @ + 1]
      /\ content' = content \/ content' = [content EXCEPT ![f] = written[f] + 1]
  BY DEF R!WriteAt
<1>2. writer' \in [Files -> {"idle", "write", "open", "publish"}]
  BY <1>1 DEF R!TypeOK
<1>3. written' \in [Files -> Nat] /\ content' \in [Files -> Nat]
  BY <1>1 DEF R!TypeOK
<1>4. R!TypeOK'
  BY <1>1, <1>2, <1>3 DEF R!TypeOK
<1>. QED
  BY <1>1, <1>4

LEMMA FlushEffects ==
  ASSUME R!TypeOK, NEW f \in Files, R!Flush(f)
  PROVE  /\ R!TypeOK' /\ R!Invalidate(f) /\ writer' = [writer EXCEPT ![f] = "publish"]
         /\ late \subseteq late' /\ (f \notin late' => ~R!Pending(f))
         /\ UNCHANGED <<content, written, nextId, tiers, fills, reader, flushed, stray>>
<1>1. /\ UNCHANGED <<buffered, content, written, nextId, tiers, fills, reader, reads, flushed, stray>>
      /\ writer' = [writer EXCEPT ![f] = "publish"] /\ R!Invalidate(f)
      /\ late' = IF R!Pending(f) \/ R!Reading(f) THEN late \cup {f} ELSE late
  BY DEF R!Flush
<1>2. writer' \in [Files -> {"idle", "write", "open", "publish"}]
  BY <1>1 DEF R!TypeOK
<1>3. late' \subseteq Files
  BY <1>1 DEF R!TypeOK
<1>4. /\ meta' \in [Files -> Nat] /\ cache' = [t \in tiers |-> cache'[t]]
      /\ \A t \in tiers' : \A k \in DOMAIN cache'[t] : cache'[t][k] \in R!Data
  BY <1>1, InvalidateEffects, DroppedTypes
<1>5. R!TypeOK'
  BY <1>1, <1>2, <1>3, <1>4 DEF R!TypeOK
<1>. QED
  BY <1>1, <1>5

LEMMA PublishEffects ==
  ASSUME R!TypeOK, NEW f \in Files, R!Publish(f)
  PROVE  /\ R!TypeOK' /\ writer[f] = "publish" /\ writer' = [writer EXCEPT ![f] = "idle"]
         /\ content' = [content EXCEPT ![f] = written[f]]
         /\ flushed' = [flushed EXCEPT ![f] = written[f]]
         /\ UNCHANGED <<written, meta, nextId, tiers, cache, fills, reader, late, stray>>
<1>1. /\ UNCHANGED <<buffered, written, meta, nextId, tiers, cache, fills, reader, reads, late, stray>>
      /\ writer[f] = "publish" /\ writer' = [writer EXCEPT ![f] = "idle"]
      /\ content' = [content EXCEPT ![f] = written[f]]
      /\ flushed' = [flushed EXCEPT ![f] = written[f]]
  BY DEF R!Publish
<1>2. writer' \in [Files -> {"idle", "write", "open", "publish"}]
  BY <1>1 DEF R!TypeOK
<1>3. flushed' \in [Files -> Nat] /\ content' \in [Files -> Nat]
  BY <1>1 DEF R!TypeOK
<1>4. R!TypeOK'
  BY <1>1, <1>2, <1>3 DEF R!TypeOK
<1>. QED
  BY <1>1, <1>4

-----------------------------------------------------------------------------
(* The read cache: the steps *)

\* The steps that take blocks from the cache or give the storage new data.
Writes(f) == R!WriteStart(f) \/ R!WriteAt(f) \/ R!Flush(f) \/ R!Publish(f)
Reads(r) ==
  \/ \E f \in Files, i \in 0..Blocks - 1 : R!ReadStart(r, f, i)
  \/ R!Load(r) \/ R!ReadStorage(r) \/ R!Return(r)

LEMMA CacheTypes ==
  ASSUME R!TypeOK, R!Next
  PROVE  R!TypeOK'
<1>1. ASSUME NEW r \in Readers, Reads(r) PROVE R!TypeOK'
  BY <1>1, StartEffects, LoadEffects, StorageEffects, ReturnEffects DEF Reads
<1>2. ASSUME NEW x \in fills, R!SetCache(x) PROVE R!TypeOK'
  BY <1>2, FillEffects
<1>3. ASSUME NEW t \in tiers, NEW k \in DOMAIN cache[t], R!Drop(t, k) PROVE R!TypeOK'
  BY <1>3, DropEffects
<1>4. ASSUME NEW f \in Files, Writes(f) PROVE R!TypeOK'
  BY <1>4, WriteStartEffects, WriteAtEffects, FlushEffects, PublishEffects DEF Writes
<1>. QED
  BY <1>1, <1>2, <1>3, <1>4 DEF R!Next, Reads, Writes

\* What a reader is about to do with which file, and what for.
LEMMA WaitTypes ==
  ASSUME R!TypeOK, NEW r \in Readers, reader[r].at \in {"load", "storage"}
  PROVE  reader[r].file \in Files /\ reader[r].need \in Nat /\ reader[r].key[1] \in Nat
<1>1. reader[r] \in R!Waits
  BY ReaderShapes
<1>. QED
  BY <1>1 DEF R!Waits

LEMMA VersionsStay ==
  ASSUME R!TypeOK, R!Versions, R!Next
  PROVE  R!Versions'
<1>1. \A r \in Readers : reader[r].at \in {"load", "storage"} =>
        reader[r].file \in Files /\ reader[r].need <= flushed[reader[r].file]
  BY WaitTypes DEF R!Versions
<1>2. CASE UNCHANGED <<content, written, flushed, reader>>
  BY <1>2 DEF R!Versions
<1>3. ASSUME NEW r \in Readers, Reads(r) PROVE R!Versions'
  <2>1. UNCHANGED <<content, written, flushed>> /\ \A o \in Readers \ {r} : reader'[o] = reader[o]
    BY <1>3, StartEffects, LoadEffects, StorageEffects, ReturnEffects DEF Reads
  <2>2. reader'[r].at \in {"load", "storage"} => reader'[r].need <= flushed[reader'[r].file]
    <3>1. ASSUME NEW f \in Files, NEW i \in 0..Blocks - 1, R!ReadStart(r, f, i)
          PROVE  reader'[r].need <= flushed[reader'[r].file]
      <4>1. reader'[r].file = f /\ reader'[r].need = IF f \in late THEN 0 ELSE flushed[f]
        BY <3>1, StartEffects
      <4>2. flushed[f] \in Nat
        BY DEF R!TypeOK
      <4>. QED
        BY <4>1, <4>2
    <3>2. R!Load(r) => reader'[r].need <= flushed[reader'[r].file]
      <4>. SUFFICES ASSUME R!Load(r) PROVE reader'[r].need <= flushed[reader'[r].file]
        OBVIOUS
      <4>1. /\ reader[r].at = "load"
            /\ reader'[r].file = reader[r].file /\ reader'[r].need = reader[r].need
        BY LoadEffects
      <4>. QED
        BY <1>1, <4>1
    <3>3. R!ReadStorage(r) \/ R!Return(r) => reader'[r].at \notin {"load", "storage"}
      BY StorageEffects, ReturnEffects
    <3>. QED
      BY <1>3, <3>1, <3>2, <3>3 DEF Reads
  <2>. QED
    BY <2>1, <2>2 DEF R!Versions
<1>4. ASSUME NEW f \in Files, R!WriteAt(f) PROVE R!Versions'
  <2>1. /\ UNCHANGED <<flushed, reader>> /\ written' = [written EXCEPT ![f] = @ + 1]
        /\ content' = content \/ content' = [content EXCEPT ![f] = written[f] + 1]
    BY <1>4, WriteAtEffects
  <2>2. \A g \in Files : flushed[g] <= content'[g] /\ content'[g] <= written'[g]
    BY <2>1 DEF R!Versions, R!TypeOK
  <2>. QED
    BY <2>1, <2>2 DEF R!Versions
<1>5. ASSUME NEW f \in Files, R!Publish(f) PROVE R!Versions'
  <2>1. /\ UNCHANGED <<written, reader>> /\ content' = [content EXCEPT ![f] = written[f]]
        /\ flushed' = [flushed EXCEPT ![f] = written[f]]
    BY <1>5, PublishEffects
  <2>2. \A g \in Files : /\ flushed'[g] <= content'[g] /\ content'[g] <= written'[g]
                         /\ flushed[g] <= flushed'[g] /\ flushed[g] \in Nat /\ flushed'[g] \in Nat
    BY <2>1 DEF R!Versions, R!TypeOK
  <2>3. \A r \in Readers : reader[r].at \in {"load", "storage"} =>
          reader[r].need <= flushed'[reader[r].file]
    BY <1>1, <2>2, WaitTypes
  <2>. QED
    BY <2>1, <2>2, <2>3 DEF R!Versions
<1>6. ASSUME NEW x \in fills, R!SetCache(x) PROVE UNCHANGED <<content, written, flushed, reader>>
  BY <1>6, FillEffects
<1>7. ASSUME NEW t \in tiers, NEW k \in DOMAIN cache[t], R!Drop(t, k)
      PROVE  UNCHANGED <<content, written, flushed, reader>>
  BY <1>7, DropEffects
<1>8. ASSUME NEW f \in Files, R!WriteStart(f) \/ R!Flush(f)
      PROVE  UNCHANGED <<content, written, flushed, reader>>
  BY <1>8, WriteStartEffects, FlushEffects
<1>. QED
  BY <1>2, <1>3, <1>4, <1>5, <1>6, <1>7, <1>8 DEF R!Next, Reads

\* No file but f has the id m, nor will one get it; also after the step.
OwnKey(m, f) == m <= nextId /\ \A g \in Files : meta[g] = m /\ meta[g] # R!NoId => g = f
StaysOwn(m, f) == m <= nextId' /\ \A g \in Files : meta'[g] = m /\ meta'[g] # R!NoId => g = f
IdsAreDifferent ==
  /\ \A f \in Files : meta[f] <= nextId
  /\ \A f, g \in Files : meta[f] = meta[g] /\ meta[f] # R!NoId => f = g

\* A file gets an id, or loses it: the ids of the others, and their keys, stay theirs.
LEMMA IdsStayDifferent ==
  ASSUME R!TypeOK, IdsAreDifferent, NEW f \in Files,
         R!TakeKey(f) \/ (R!Invalidate(f) /\ nextId' = nextId)
  PROVE  /\ IdsAreDifferent'
         /\ \A m \in Nat, g \in Files : OwnKey(m, g) => StaysOwn(m, g)
<1>1. CASE R!TakeKey(f)
  <2>1. CASE meta' = meta /\ nextId' = nextId
    BY <2>1 DEF IdsAreDifferent, OwnKey, StaysOwn
  <2>2. CASE /\ meta[f] = R!NoId /\ nextId' = nextId + 1
             /\ meta' = [meta EXCEPT ![f] = nextId + 1]
    <3>1. \A g \in Files : meta'[g] = IF g = f THEN nextId + 1 ELSE meta[g]
      BY <2>2 DEF R!TypeOK
    <3>2. \A g \in Files : meta[g] \in Nat /\ meta[g] <= nextId
      BY DEF IdsAreDifferent, R!TypeOK
    <3>3. nextId \in Nat
      BY DEF R!TypeOK
    <3>4. IdsAreDifferent'
      BY <2>2, <3>1, <3>2, <3>3 DEF IdsAreDifferent
    <3>5. \A m \in Nat, g \in Files : OwnKey(m, g) => StaysOwn(m, g)
      BY <2>2, <3>1, <3>3 DEF OwnKey, StaysOwn
    <3>. QED
      BY <3>4, <3>5
  <2>. QED
    BY <1>1, <2>1, <2>2, KeyEffects
<1>2. CASE R!Invalidate(f) /\ nextId' = nextId
  <2>1. \A g \in Files : meta'[g] = IF g = f THEN R!NoId ELSE meta[g]
    BY <1>2, InvalidateEffects DEF R!TypeOK
  <2>2. R!NoId <= nextId
    BY DEF R!NoId, R!TypeOK
  <2>. QED
    BY <1>2, <2>1, <2>2 DEF IdsAreDifferent, OwnKey, StaysOwn
<1>. QED
  BY <1>1, <1>2

LEMMA IdsStayOwn ==
  ASSUME R!TypeOK, R!IdsAreOwn, R!Next
  PROVE  R!IdsAreOwn'
<1>1. /\ IdsAreDifferent
      /\ \A r \in Readers : reader[r].at = "load" => OwnKey(reader[r].key[1], reader[r].file)
  BY DEF R!IdsAreOwn, IdsAreDifferent, OwnKey, StaysOwn
<1>2. SUFFICES /\ IdsAreDifferent'
               /\ \A r \in Readers : reader'[r].at = "load" => StaysOwn(reader'[r].key[1], reader'[r].file)
  BY DEF R!IdsAreOwn, IdsAreDifferent, OwnKey, StaysOwn
<1>3. \A r \in Readers : reader[r].at = "load" => reader[r].key[1] \in Nat /\ reader[r].file \in Files
  BY WaitTypes
<1>4. ASSUME NEW f \in Files, R!TakeKey(f) \/ (R!Invalidate(f) /\ nextId' = nextId)
      PROVE  /\ IdsAreDifferent'
             /\ \A r \in Readers : reader[r].at = "load" => StaysOwn(reader[r].key[1], reader[r].file)
  BY <1>1, <1>3, <1>4, IdsStayDifferent
<1>5. CASE UNCHANGED <<meta, nextId>>
           /\ \A r \in Readers : reader'[r].at = "load" => reader'[r] = reader[r]
  BY <1>1, <1>5 DEF IdsAreDifferent, OwnKey, StaysOwn
<1>6. ASSUME NEW r \in Readers, NEW f \in Files, NEW i \in 0..Blocks - 1, R!ReadStart(r, f, i)
      PROVE  /\ IdsAreDifferent'
             /\ \A o \in Readers : reader'[o].at = "load" => StaysOwn(reader'[o].key[1], reader'[o].file)
  <2>1. /\ R!TakeKey(f) /\ \A o \in Readers \ {r} : reader'[o] = reader[o]
        /\ reader'[r].file = f /\ reader'[r].key[1] = meta[f]
    BY <1>6, StartEffects
  <2>2. OwnKey(meta[f], f) /\ meta[f] \in Nat
    BY <1>1 DEF IdsAreDifferent, OwnKey, StaysOwn, R!TypeOK
  <2>3. StaysOwn(meta[f], f)
    BY <1>1, <2>1, <2>2, IdsStayDifferent
  <2>. QED
    BY <1>4, <2>1, <2>3 DEF OwnKey, StaysOwn
<1>7. ASSUME NEW r \in Readers, R!Load(r) \/ R!ReadStorage(r) \/ R!Return(r)
      PROVE  UNCHANGED <<meta, nextId>>
             /\ \A o \in Readers : reader'[o].at = "load" => reader'[o] = reader[o]
  BY <1>7, LoadEffects, StorageEffects, ReturnEffects
<1>8. ASSUME NEW x \in fills, R!SetCache(x)
      PROVE  reader' = reader /\ x.file \in Files /\ R!TakeKey(x.file)
  BY <1>8, FillEffects DEF R!Fills
<1>9. ASSUME NEW t \in tiers, NEW k \in DOMAIN cache[t], R!Drop(t, k)
      PROVE  UNCHANGED <<meta, nextId, reader>>
  BY <1>9, DropEffects
<1>10. ASSUME NEW f \in Files, R!WriteStart(f) \/ R!Flush(f)
       PROVE  R!Invalidate(f) /\ nextId' = nextId /\ reader' = reader
  BY <1>10, WriteStartEffects, FlushEffects
<1>11. ASSUME NEW f \in Files, R!WriteAt(f) \/ R!Publish(f)
       PROVE  UNCHANGED <<meta, nextId, reader>>
  BY <1>11, WriteAtEffects, PublishEffects
<1>. QED
  BY <1>4, <1>5, <1>6, <1>7, <1>8, <1>9, <1>10, <1>11 DEF R!Next

LEMMA StrayStays ==
  ASSUME R!TypeOK, R!Next
  PROVE  stray => stray'
<1>1. \A r \in Readers : Reads(r) => stray' = stray
  BY StartEffects, LoadEffects, StorageEffects, ReturnEffects DEF Reads
<1>2. \A x \in fills : R!SetCache(x) => (stray => stray')
  BY FillEffects
<1>3. \A t \in tiers : \A k \in DOMAIN cache[t] : R!Drop(t, k) => stray' = stray
  BY DropEffects
<1>4. \A f \in Files : Writes(f) => stray' = stray
  BY WriteStartEffects, WriteAtEffects, FlushEffects, PublishEffects DEF Writes
<1>. QED
  BY <1>1, <1>2, <1>3, <1>4 DEF R!Next, Reads, Writes

\* Whose block it is, by the id it is kept under.
OwnBlock(k, d) == \E f \in Files : meta[f] = k[1] /\ meta[f] # R!NoId /\ d[1] = f

LEMMA BlocksStayOwn ==
  ASSUME R!TypeOK, R!BlocksAreOwn, R!Next, ~stray'
  PROVE  R!BlocksAreOwn'
<1>1. \A t \in tiers : \A k \in DOMAIN cache[t] : OwnBlock(k, cache[t][k])
  BY DEF R!BlocksAreOwn, OwnBlock
<1>2. SUFFICES \A t \in tiers' : \A k \in DOMAIN cache'[t] :
                 \E f \in Files : meta'[f] = k[1] /\ meta'[f] # R!NoId /\ cache'[t][k][1] = f
  BY DEF R!BlocksAreOwn
<1>3. CASE UNCHANGED <<meta, tiers>> /\
           \A t \in tiers : \A k \in DOMAIN cache'[t] :
             k \in DOMAIN cache[t] /\ cache'[t][k] = cache[t][k]
  BY <1>1, <1>3 DEF OwnBlock
<1>4. ASSUME NEW r \in Readers, NEW f \in Files, NEW i \in 0..Blocks - 1, R!ReadStart(r, f, i)
      PROVE  \A t \in tiers' : \A k \in DOMAIN cache'[t] :
               \E g \in Files : meta'[g] = k[1] /\ meta'[g] # R!NoId /\ cache'[t][k][1] = g
  <2>1. R!TakeKey(f) /\ UNCHANGED <<tiers, cache>>
    BY <1>4, StartEffects
  <2>2. \A g \in Files : meta[g] # R!NoId => meta'[g] = meta[g]
    BY <2>1, KeyEffects DEF R!TypeOK
  <2>. QED
    BY <1>1, <2>1, <2>2 DEF OwnBlock
<1>5. ASSUME NEW r \in Readers, R!Load(r) \/ R!ReadStorage(r) \/ R!Return(r)
      PROVE  UNCHANGED <<meta, tiers, cache>>
  BY <1>5, LoadEffects, StorageEffects, ReturnEffects
<1>6. ASSUME NEW x \in fills, R!SetCache(x)
      PROVE  \A t \in tiers' : \A k \in DOMAIN cache'[t] :
               \E g \in Files : meta'[g] = k[1] /\ meta'[g] # R!NoId /\ cache'[t][k][1] = g
  <2>1. x.file \in Files /\ x.data[1] = x.file /\ R!TakeKey(x.file) /\ tiers' = tiers
    BY <1>6, FillEffects DEF R!Fills
  <2>2. meta[x.file] # R!NoId
    BY <1>6, FillEffects
  <2>3. meta' = meta
    BY <2>1, <2>2, KeyEffects
  <2>4. \A t \in tiers : \A k \in DOMAIN cache'[t] :
          \/ k \in DOMAIN cache[t] /\ cache'[t][k] = cache[t][k]
          \/ k[1] = meta[x.file] /\ cache'[t][k] = x.data
    BY <1>6, FillEffects
  <2>. QED
    BY <1>1, <2>1, <2>2, <2>3, <2>4 DEF OwnBlock
<1>7. ASSUME NEW u \in tiers, NEW k \in DOMAIN cache[u], R!Drop(u, k)
      PROVE  UNCHANGED <<meta, tiers>> /\
             \A t \in tiers : \A m \in DOMAIN cache'[t] :
               m \in DOMAIN cache[t] /\ cache'[t][m] = cache[t][m]
  BY <1>7, DropEffects
<1>8. ASSUME NEW f \in Files, R!WriteStart(f) \/ R!Flush(f)
      PROVE  \A t \in tiers' : \A k \in DOMAIN cache'[t] :
               \E g \in Files : meta'[g] = k[1] /\ meta'[g] # R!NoId /\ cache'[t][k][1] = g
  <2>1. R!Invalidate(f) /\ tiers' = tiers
    BY <1>8, WriteStartEffects, FlushEffects
  <2>2. \A g \in Files : g # f => meta'[g] = meta[g]
    BY <2>1, InvalidateEffects DEF R!TypeOK
  <2>3. \A t \in tiers : \A k \in DOMAIN cache'[t] :
          /\ k \in DOMAIN cache[t] /\ cache'[t][k] = cache[t][k]
          /\ meta[f] # R!NoId => k[1] # meta[f]
    BY <2>1, InvalidateEffects
  <2>. QED
    BY <1>1, <2>1, <2>2, <2>3 DEF OwnBlock
<1>9. ASSUME NEW f \in Files, R!WriteAt(f) \/ R!Publish(f)
      PROVE  UNCHANGED <<meta, tiers, cache>>
  BY <1>9, WriteAtEffects, PublishEffects
<1>. QED
  BY <1>3, <1>4, <1>5, <1>6, <1>7, <1>8, <1>9 DEF R!Next

\* Data that is still fresh after the step.
StaysFresh(d) ==
  /\ d[1] \in late' \/ (flushed'[d[1]] <= d[2] /\ writer'[d[1]] # "publish")
  /\ \A r \in Readers : reader'[r].at = "load" /\ reader'[r].file = d[1] => reader'[r].need <= d[2]

\* Only a Flush of its file makes data old.
LEMMA FreshStays ==
  ASSUME R!TypeOK, R!Next, NEW d \in R!Data, R!IsFresh(d), d[1] \in Files, d[2] \in Nat,
         \A f \in Files : R!Flush(f) => f # d[1] \/ f \in late'
  PROVE  StaysFresh(d)
<1>1. CASE /\ late \subseteq late' /\ flushed' = flushed /\ writer' = writer
           /\ \A r \in Readers : reader'[r].at = "load" => reader'[r] = reader[r]
  BY <1>1 DEF R!IsFresh, StaysFresh
<1>2. ASSUME NEW r \in Readers, NEW f \in Files, NEW i \in 0..Blocks - 1, R!ReadStart(r, f, i)
      PROVE  StaysFresh(d)
  <2>1. /\ UNCHANGED <<late, flushed, writer>> /\ \A o \in Readers \ {r} : reader'[o] = reader[o]
        /\ reader'[r].file = f /\ reader'[r].need = IF f \in late THEN 0 ELSE flushed[f]
    BY <1>2, StartEffects
  <2>2. f = d[1] => reader'[r].need <= d[2]
    BY <2>1 DEF R!IsFresh
  <2>. QED
    BY <2>1, <2>2 DEF R!IsFresh, StaysFresh
<1>3. ASSUME NEW r \in Readers, R!Load(r) \/ R!ReadStorage(r) \/ R!Return(r)
      PROVE  /\ late \subseteq late' /\ flushed' = flushed /\ writer' = writer
             /\ \A o \in Readers : reader'[o].at = "load" => reader'[o] = reader[o]
  <2>1. R!Load(r) \/ R!Return(r) => UNCHANGED <<late, flushed, writer>>
    BY LoadEffects, ReturnEffects
  <2>2. R!ReadStorage(r) => late \subseteq late' /\ UNCHANGED <<flushed, writer>>
    BY StorageEffects
  <2>3. reader'[r].at # "load" /\ \A o \in Readers \ {r} : reader'[o] = reader[o]
    BY <1>3, LoadEffects, StorageEffects, ReturnEffects
  <2>. QED
    BY <1>3, <2>1, <2>2, <2>3
<1>4. ASSUME NEW x \in fills, R!SetCache(x) PROVE UNCHANGED <<late, flushed, writer, reader>>
  BY <1>4, FillEffects
<1>5. ASSUME NEW t \in tiers, NEW k \in DOMAIN cache[t], R!Drop(t, k)
      PROVE  UNCHANGED <<late, flushed, writer, reader>>
  BY <1>5, DropEffects
<1>6. ASSUME NEW f \in Files, R!WriteStart(f) \/ R!WriteAt(f) PROVE StaysFresh(d)
  <2>1. UNCHANGED <<late, flushed, reader>>
    BY <1>6, WriteStartEffects, WriteAtEffects
  <2>2. PICK w \in {"write", "open"} : writer' = [writer EXCEPT ![f] = w]
    BY <1>6, WriteStartEffects, WriteAtEffects
  <2>3. writer'[d[1]] = IF d[1] = f THEN w ELSE writer[d[1]]
    BY <2>2 DEF R!TypeOK
  <2>. QED
    BY <2>1, <2>3 DEF R!IsFresh, StaysFresh
<1>7. ASSUME NEW f \in Files, R!Flush(f) PROVE StaysFresh(d)
  <2>1. late \subseteq late' /\ UNCHANGED <<flushed, reader>> /\ writer' = [writer EXCEPT ![f] = "publish"]
    BY <1>7, FlushEffects
  <2>2. f # d[1] \/ f \in late'
    BY <1>7
  <2>3. f # d[1] => writer'[d[1]] = writer[d[1]]
    BY <2>1 DEF R!TypeOK
  <2>. QED
    BY <2>1, <2>2, <2>3 DEF R!IsFresh, StaysFresh
<1>8. ASSUME NEW f \in Files, R!Publish(f) PROVE StaysFresh(d)
  <2>1. /\ UNCHANGED <<late, reader>> /\ writer[f] = "publish"
        /\ writer' = [writer EXCEPT ![f] = "idle"] /\ flushed' = [flushed EXCEPT ![f] = written[f]]
    BY <1>8, PublishEffects
  <2>2. f = d[1] => d[1] \in late
    BY <2>1 DEF R!IsFresh
  <2>3. f # d[1] => writer'[d[1]] = writer[d[1]] /\ flushed'[d[1]] = flushed[d[1]]
    BY <2>1 DEF R!TypeOK
  <2>. QED
    BY <2>1, <2>2, <2>3 DEF R!IsFresh, StaysFresh
<1>. QED
  BY <1>1, <1>2, <1>3, <1>4, <1>5, <1>6, <1>7, <1>8 DEF R!Next

\* What the storage has is fresh, unless a Flush is under way.
LEMMA StoredIsFresh ==
  ASSUME R!TypeOK, R!Versions, NEW r \in Readers, R!ReadStorage(r),
         NEW d, d = <<reader[r].file, content[reader[r].file]>>
  PROVE  StaysFresh(d)
<1>1. reader[r].file \in Files
  BY StorageEffects, WaitTypes
<1>2. /\ UNCHANGED <<flushed, writer>> /\ reader'[r].at = "done"
      /\ \A o \in Readers \ {r} : reader'[o] = reader[o]
      /\ late' = IF writer[reader[r].file] = "publish" THEN late \cup {reader[r].file} ELSE late
  BY StorageEffects
<1>3. /\ d[1] = reader[r].file /\ d[2] = content[d[1]] /\ d[2] \in Nat /\ flushed[d[1]] <= d[2]
      /\ flushed[d[1]] \in Nat
  BY <1>1 DEF R!Versions, R!TypeOK
<1>4. ASSUME NEW o \in Readers, reader'[o].at = "load", reader'[o].file = d[1]
      PROVE  reader'[o].need <= d[2]
  <2>1. reader'[o] = reader[o]
    BY <1>2, <1>4
  <2>2. reader[o].need <= flushed[d[1]] /\ reader[o].need \in Nat
    BY <1>4, <2>1, WaitTypes DEF R!Versions
  <2>. QED
    BY <1>3, <2>1, <2>2
<1>. QED
  BY <1>2, <1>3, <1>4 DEF StaysFresh

\* What is held after a step was held before, or has just been read.
HeldBefore(d) ==
  \/ \E t \in tiers : \E k \in DOMAIN cache[t] : d = cache[t][k]
  \/ \E x \in fills : d = x.data
JustRead(d) ==
  \E r \in Readers : R!ReadStorage(r) /\ d = <<reader[r].file, content[reader[r].file]>>

LEMMA HeldEffects ==
  ASSUME R!TypeOK, R!Next
  PROVE  /\ \A t \in tiers' : \A k \in DOMAIN cache'[t] : HeldBefore(cache'[t][k])
         /\ \A x \in fills' : HeldBefore(x.data) \/ JustRead(x.data)
<1>1. CASE /\ tiers' = tiers /\ fills' = fills
           /\ \A t \in tiers : \A k \in DOMAIN cache'[t] :
                k \in DOMAIN cache[t] /\ cache'[t][k] = cache[t][k]
  BY <1>1 DEF HeldBefore
<1>2. ASSUME NEW r \in Readers, \/ \E f \in Files, i \in 0..Blocks - 1 : R!ReadStart(r, f, i)
                                \/ R!Load(r) \/ R!Return(r)
      PROVE  UNCHANGED <<tiers, fills, cache>>
  BY <1>2, StartEffects, LoadEffects, ReturnEffects
<1>3. ASSUME NEW r \in Readers, R!ReadStorage(r)
      PROVE  /\ \A t \in tiers' : \A k \in DOMAIN cache'[t] : HeldBefore(cache'[t][k])
             /\ \A x \in fills' : HeldBefore(x.data) \/ JustRead(x.data)
  <2>1. UNCHANGED <<tiers, cache>>
    BY <1>3, StorageEffects
  <2>2. PICK y : fills' = fills \cup {y} /\ y.data = <<reader[r].file, content[reader[r].file]>>
    BY <1>3, StorageEffects
  <2>3. JustRead(y.data)
    BY <1>3, <2>2 DEF JustRead
  <2>. QED
    BY <2>1, <2>2, <2>3 DEF HeldBefore
<1>4. ASSUME NEW x \in fills, R!SetCache(x)
      PROVE  /\ \A t \in tiers' : \A k \in DOMAIN cache'[t] : HeldBefore(cache'[t][k])
             /\ \A y \in fills' : HeldBefore(y.data)
  <2>1. /\ tiers' = tiers /\ \A y \in fills' : y \in fills \/ y.data = x.data
        /\ \A t \in tiers : \A k \in DOMAIN cache'[t] :
             \/ k \in DOMAIN cache[t] /\ cache'[t][k] = cache[t][k]
             \/ cache'[t][k] = x.data
    BY <1>4, FillEffects
  <2>. QED
    BY <2>1 DEF HeldBefore
<1>5. ASSUME NEW u \in tiers, NEW m \in DOMAIN cache[u], R!Drop(u, m)
      PROVE  /\ tiers' = tiers /\ fills' = fills
             /\ \A t \in tiers : \A k \in DOMAIN cache'[t] :
                  k \in DOMAIN cache[t] /\ cache'[t][k] = cache[t][k]
  BY <1>5, DropEffects
<1>6. ASSUME NEW f \in Files, R!WriteStart(f) \/ R!Flush(f)
      PROVE  /\ tiers' = tiers /\ fills' = fills
             /\ \A t \in tiers : \A k \in DOMAIN cache'[t] :
                  k \in DOMAIN cache[t] /\ cache'[t][k] = cache[t][k]
  <2>1. UNCHANGED <<tiers, fills>> /\ R!Invalidate(f)
    BY <1>6, WriteStartEffects, FlushEffects
  <2>. QED
    BY <2>1, InvalidateEffects
<1>7. ASSUME NEW f \in Files, R!WriteAt(f) \/ R!Publish(f) PROVE UNCHANGED <<tiers, fills, cache>>
  BY <1>7, WriteAtEffects, PublishEffects
<1>. QED
  BY <1>1, <1>2, <1>3, <1>4, <1>5, <1>6, <1>7 DEF R!Next

LEMMA FlushDropsData ==
  ASSUME R!TypeOK, R!BlocksAreOwn, NEW f \in Files, R!Flush(f)
  PROVE  /\ \A t \in tiers' : \A k \in DOMAIN cache'[t] : cache'[t][k][1] # f
         /\ \A x \in fills' : x.data[1] # f \/ f \in late'
<1>1. /\ R!Invalidate(f) /\ UNCHANGED <<tiers, fills>>
      /\ f \notin late' => ~R!Pending(f)
  BY FlushEffects
<1>2. ASSUME NEW t \in tiers, NEW k \in DOMAIN cache'[t] PROVE cache'[t][k][1] # f
  <2>1. /\ k \in DOMAIN cache[t] /\ cache'[t][k] = cache[t][k]
        /\ meta[f] # R!NoId => k[1] # meta[f]
    BY <1>1, InvalidateEffects
  <2>2. PICK g \in Files : meta[g] = k[1] /\ meta[g] # R!NoId /\ cache[t][k][1] = g
    BY <2>1 DEF R!BlocksAreOwn
  <2>. QED
    BY <2>1, <2>2
<1>3. ASSUME NEW x \in fills, f \notin late' PROVE x.data[1] # f
  <2>1. x.data[1] = x.file
    BY DEF R!TypeOK, R!Fills
  <2>. QED
    BY <1>1, <1>3, <2>1 DEF R!Pending
<1>. QED
  BY <1>1, <1>2, <1>3

LEMMA HeldStaysFresh ==
  ASSUME R!TypeOK, R!Versions, R!BlocksAreOwn, R!HeldIsFresh, R!Next
  PROVE  R!HeldIsFresh'
<1>1. SUFFICES /\ \A t \in tiers' : \A k \in DOMAIN cache'[t] : StaysFresh(cache'[t][k])
               /\ \A x \in fills' : StaysFresh(x.data)
  BY DEF R!HeldIsFresh, R!IsFresh, StaysFresh
<1>2. ASSUME NEW d, HeldBefore(d), \A f \in Files : R!Flush(f) => f # d[1] \/ f \in late'
      PROVE  StaysFresh(d)
  <2>1. d \in R!Data /\ R!IsFresh(d)
    <3>1. \A x \in fills : x.data \in R!Data
      BY DEF R!TypeOK, R!Fills
    <3>. QED
      BY <1>2, <3>1 DEF HeldBefore, R!HeldIsFresh, R!TypeOK
  <2>2. d[1] \in Files /\ d[2] \in Nat
    BY <2>1 DEF R!Data
  <2>. QED
    BY <1>2, <2>1, <2>2, FreshStays
<1>3. \A t \in tiers' : \A k \in DOMAIN cache'[t] :
        HeldBefore(cache'[t][k]) /\ \A f \in Files : R!Flush(f) => f # cache'[t][k][1]
  BY HeldEffects, FlushDropsData
<1>4. \A x \in fills' : \A f \in Files : R!Flush(f) => f # x.data[1] \/ f \in late'
  BY FlushDropsData
<1>5. \A x \in fills' : JustRead(x.data) => StaysFresh(x.data)
  BY StoredIsFresh DEF JustRead
<1>6. \A x \in fills' : StaysFresh(x.data)
  BY <1>2, <1>4, <1>5, HeldEffects
<1>7. \A t \in tiers' : \A k \in DOMAIN cache'[t] : StaysFresh(cache'[t][k])
  BY <1>2, <1>3
<1>. QED
  BY <1>6, <1>7

LEMMA ReadsStayRight ==
  ASSUME R!TypeOK, R!Versions, R!IdsAreOwn, R!BlocksAreOwn, R!HeldIsFresh, R!Next,
         \A r \in Readers : reader[r].at = "done" =>
           reader[r].got[1] = reader[r].file /\ reader[r].got[2] >= reader[r].need
  PROVE  \A r \in Readers : reader'[r].at = "done" =>
           reader'[r].got[1] = reader'[r].file /\ reader'[r].got[2] >= reader'[r].need
<1>1. CASE \A r \in Readers : reader'[r] = reader[r] \/ reader'[r].at # "done"
  BY <1>1
<1>2. ASSUME NEW r \in Readers, R!Load(r)
      PROVE  \A o \in Readers : reader'[o].at = "done" =>
               reader'[o].got[1] = reader'[o].file /\ reader'[o].got[2] >= reader'[o].need
  <2>1. /\ reader[r].at = "load" /\ \A o \in Readers \ {r} : reader'[o] = reader[o]
        /\ reader'[r].file = reader[r].file /\ reader'[r].need = reader[r].need
    BY <1>2, LoadEffects
  <2>2. ASSUME reader'[r].at = "done"
        PROVE  reader'[r].got[1] = reader[r].file /\ reader'[r].got[2] >= reader[r].need
    <3>1. PICK t \in tiers : /\ reader[r].key \in DOMAIN cache[t]
                             /\ reader'[r].got = cache[t][reader[r].key]
      BY <1>2, <2>2, LoadEffects
    <3>2. PICK d : d = cache[t][reader[r].key]
      OBVIOUS
    <3>3. PICK g \in Files : meta[g] = reader[r].key[1] /\ meta[g] # R!NoId /\ d[1] = g
      BY <3>1, <3>2 DEF R!BlocksAreOwn
    <3>4. g = reader[r].file
      BY <2>1, <3>3 DEF R!IdsAreOwn
    <3>5. reader[r].need <= d[2]
      BY <2>1, <3>1, <3>2, <3>3, <3>4 DEF R!HeldIsFresh, R!IsFresh
    <3>6. d[2] \in Nat /\ reader[r].need \in Nat
      BY <2>1, <3>1, <3>2, WaitTypes DEF R!TypeOK, R!Data
    <3>. QED
      BY <3>1, <3>2, <3>3, <3>4, <3>5, <3>6
  <2>. QED
    BY <2>1, <2>2
<1>3. ASSUME NEW r \in Readers, R!ReadStorage(r)
      PROVE  \A o \in Readers : reader'[o].at = "done" =>
               reader'[o].got[1] = reader'[o].file /\ reader'[o].got[2] >= reader'[o].need
  <2>1. /\ reader[r].at = "storage" /\ \A o \in Readers \ {r} : reader'[o] = reader[o]
        /\ reader'[r].file = reader[r].file /\ reader'[r].need = reader[r].need
    BY <1>3, StorageEffects
  <2>2. PICK d : d = <<reader[r].file, content[reader[r].file]>>
    OBVIOUS
  <2>3. reader'[r].got = d
    BY <1>3, <2>2, StorageEffects
  <2>4. /\ reader[r].file \in Files /\ reader[r].need \in Nat
        /\ reader[r].need <= flushed[reader[r].file]
        /\ flushed[reader[r].file] <= content[reader[r].file]
    BY <2>1, WaitTypes DEF R!Versions
  <2>5. content[reader[r].file] >= reader[r].need
    BY <2>4 DEF R!TypeOK
  <2>. QED
    BY <2>1, <2>2, <2>3, <2>5
<1>4. ASSUME NEW r \in Readers, R!Return(r) \/ \E f \in Files, i \in 0..Blocks - 1 : R!ReadStart(r, f, i)
      PROVE  \A o \in Readers : reader'[o] = reader[o] \/ reader'[o].at # "done"
  BY <1>4, ReturnEffects, StartEffects
<1>5. ASSUME NEW x \in fills, R!SetCache(x) PROVE reader' = reader
  BY <1>5, FillEffects
<1>6. ASSUME NEW t \in tiers, NEW k \in DOMAIN cache[t], R!Drop(t, k) PROVE reader' = reader
  BY <1>6, DropEffects
<1>7. ASSUME NEW f \in Files, Writes(f) PROVE reader' = reader
  BY <1>7, WriteStartEffects, WriteAtEffects, FlushEffects, PublishEffects DEF Writes
<1>. QED
  BY <1>1, <1>2, <1>3, <1>4, <1>5, <1>6, <1>7 DEF R!Next, Writes

-----------------------------------------------------------------------------
(* The theorem about the read cache *)

LEMMA CacheInitially == R!Init => R!CacheInv
<1>. SUFFICES ASSUME R!Init PROVE R!CacheInv
  OBVIOUS
<1>1. \A r \in Readers : reader[r].at = "idle"
  BY DEF R!Init, R!Idle
<1>2. /\ \A f \in Files : meta[f] = R!NoId /\ content[f] = 1 /\ written[f] = 1 /\ flushed[f] = 1
      /\ \A t \in tiers : DOMAIN cache[t] = {}
      /\ fills = {} /\ nextId = 0 /\ R!NoId = 0
  BY DEF R!Init, R!NoId
<1>3. R!TypeOK
  <2>1. /\ content \in [Files -> Nat] /\ written \in [Files -> Nat] /\ flushed \in [Files -> Nat]
        /\ meta \in [Files -> Nat] /\ writer \in [Files -> {"idle", "write", "open", "publish"}]
        /\ reader \in [Readers -> {R!Idle} \cup R!Waits \cup R!Answers]
    BY DEF R!Init, R!NoId
  <2>2. tiers \subseteq {"mem", "disk"} /\ cache = [t \in tiers |-> cache[t]]
    BY DEF R!Init
  <2>3. fills \subseteq R!Fills /\ late \subseteq Files
    BY DEF R!Init
  <2>4. buffered \in BOOLEAN /\ stray \in BOOLEAN /\ nextId \in Nat /\ reads \in Nat
    BY DEF R!Init
  <2>. QED
    BY <1>2, <2>1, <2>2, <2>3, <2>4 DEF R!TypeOK
<1>4. R!Versions /\ R!IdsAreOwn
  BY <1>1, <1>2 DEF R!Versions, R!IdsAreOwn
<1>5. R!BlocksAreOwn /\ R!HeldIsFresh
  BY <1>2 DEF R!BlocksAreOwn, R!HeldIsFresh
<1>6. R!ReadsAreRight
  BY <1>1 DEF R!ReadsAreRight, R!ReadsAreFresh, R!NoForeignData, R!Answered
<1>. QED
  BY <1>3, <1>4, <1>5, <1>6 DEF R!CacheInv

LEMMA CacheStays ==
  ASSUME R!CacheInv, R!Next
  PROVE  R!CacheInv'
<1>1. R!TypeOK' /\ R!Versions' /\ R!IdsAreOwn'
  BY CacheTypes, VersionsStay, IdsStayOwn DEF R!CacheInv
<1>2. ASSUME ~stray' PROVE R!BlocksAreOwn' /\ R!HeldIsFresh' /\ R!ReadsAreRight'
  <2>1. ~stray
    BY <1>2, StrayStays DEF R!CacheInv
  <2>2. R!TypeOK /\ R!Versions /\ R!IdsAreOwn /\ R!BlocksAreOwn /\ R!HeldIsFresh /\ R!ReadsAreRight
    BY <2>1 DEF R!CacheInv
  <2>3. \A r \in Readers : reader[r].at = "done" =>
          reader[r].got[1] = reader[r].file /\ reader[r].got[2] >= reader[r].need
    BY <2>1, <2>2 DEF R!ReadsAreRight, R!ReadsAreFresh, R!NoForeignData, R!Answered
  <2>4. \A r \in Readers : reader'[r].at = "done" =>
          reader'[r].got[1] = reader'[r].file /\ reader'[r].got[2] >= reader'[r].need
    BY <2>2, <2>3, ReadsStayRight
  <2>5. R!ReadsAreRight'
    BY <2>4 DEF R!ReadsAreRight, R!ReadsAreFresh, R!NoForeignData, R!Answered
  <2>. QED
    BY <1>2, <2>2, <2>5, BlocksStayOwn, HeldStaysFresh
<1>. QED
  BY <1>1, <1>2 DEF R!CacheInv

LEMMA CacheUnchanged ==
  ASSUME R!CacheInv, UNCHANGED R!vars
  PROVE  R!CacheInv'
BY DEF R!vars, R!CacheInv, R!TypeOK, R!Versions, R!IdsAreOwn, R!BlocksAreOwn, R!HeldIsFresh, R!IsFresh,
       R!ReadsAreRight, R!ReadsAreFresh, R!NoForeignData, R!Answered

\* A read answers its file's own data, and no older than the last Flush that had
\* returned when it began, as long as no block was saved under the key of the empty
\* id; of a file with a read or a fill under way at a Flush, only its own data, of any
\* age (cache.go, writer.go).
THEOREM ReadsGetTheirData == Spec => []ReadsAreRight
<1> DEFINE Inv == which = "cache" => R!CacheInv
<1>1. Init => Inv
  BY CacheInitially DEF Init
<1>2. Inv /\ [Next]_all => Inv'
  <2>. SUFFICES ASSUME Inv, [Next]_all, which' = "cache" PROVE R!CacheInv'
    OBVIOUS
  <2>1. CASE which = "cache" /\ R!Next
    BY <2>1, CacheStays
  <2>2. CASE UNCHANGED all
    <3>1. which = "cache" /\ UNCHANGED R!vars
      BY <2>2 DEF all, R!vars
    <3>. QED
      BY <3>1, CacheUnchanged
  <2>. QED
    BY <2>1, <2>2 DEF Next
<1>3. Inv => ReadsAreRight
  BY DEF ReadsAreRight, R!CacheInv, R!ReadsAreRight, R!ReadsAreFresh, R!NoForeignData
<1>. QED
  BY <1>1, <1>2, <1>3, PTL DEF Spec

-----------------------------------------------------------------------------
(* Operations on trees: paths, stacks and frames *)

LEMMA PathsAreSeqs == ASSUME DepthAssumption, NEW p \in T!Paths PROVE p \in Seq(Names) \ {<<>>}
<1>1. PICK n \in 1..MaxDepth : p \in [1..n -> Names]
  BY DEF T!Paths
<1>2. n \in Nat \ {0}
  BY DEF DepthAssumption
<1> QED
  BY <1>1, <1>2

LEMMA PrefixMeans ==
  ASSUME NEW a \in Seq(Names), NEW b \in Seq(Names)
  PROVE  T!IsPrefix(a, b) <=> Len(a) <= Len(b) /\ \A i \in 1..Len(a) : a[i] = b[i]
<1>1. ASSUME Len(a) <= Len(b)
      PROVE  /\ Len(SubSeq(a, 1, Len(a))) = Len(a) /\ Len(SubSeq(b, 1, Len(a))) = Len(a)
             /\ SubSeq(a, 1, Len(a)) \in Seq(Names) /\ SubSeq(b, 1, Len(a)) \in Seq(Names)
             /\ \A i \in 1..Len(a) : SubSeq(a, 1, Len(a))[i] = a[i] /\ SubSeq(b, 1, Len(a))[i] = b[i]
  BY <1>1
<1>2. ASSUME Len(a) <= Len(b)
      PROVE  SubSeq(a, 1, Len(a)) = SubSeq(b, 1, Len(a)) <=> \A i \in 1..Len(a) : a[i] = b[i]
  <2>1. ASSUME \A i \in 1..Len(a) : a[i] = b[i] PROVE SubSeq(a, 1, Len(a)) = SubSeq(b, 1, Len(a))
    BY <1>1, <1>2, <2>1, SeqEqual
  <2> QED
    BY <1>1, <1>2, <2>1
<1> QED
  BY <1>2 DEF T!IsPrefix

LEMMA PrefixChain ==
  ASSUME NEW a \in Seq(Names), NEW b \in Seq(Names), NEW c \in Seq(Names),
         T!IsPrefix(a, b), T!IsPrefix(b, c)
  PROVE  T!IsPrefix(a, c)
<1>1. /\ Len(a) <= Len(b) /\ Len(b) <= Len(c) /\ Len(a) \in Nat /\ Len(b) \in Nat /\ Len(c) \in Nat
      /\ \A i \in 1..Len(a) : a[i] = b[i]
      /\ \A i \in 1..Len(b) : b[i] = c[i]
  BY PrefixMeans
<1>2. \A i \in 1..Len(a) : i \in 1..Len(b)
  BY <1>1
<1> QED
  BY <1>1, <1>2, PrefixMeans

\* The directories above a path.
LEMMA Above ==
  ASSUME NEW g \in Seq(Names), NEW k \in 1..Len(g)
  PROVE  /\ SubSeq(g, 1, k) \in Seq(Names) /\ Len(SubSeq(g, 1, k)) = k
         /\ T!DirOf(SubSeq(g, 1, k)) = SubSeq(g, 1, k - 1)
         /\ T!IsPrefix(SubSeq(g, 1, k), g)
<1>1. /\ SubSeq(g, 1, k) \in Seq(Names) /\ Len(SubSeq(g, 1, k)) = k /\ k \in Nat /\ k <= Len(g)
      /\ \A i \in 1..k : SubSeq(g, 1, k)[i] = g[i]
  OBVIOUS
<1>2. T!DirOf(SubSeq(g, 1, k)) = SubSeq(g, 1, k - 1)
  <2>1. T!DirOf(SubSeq(g, 1, k)) = SubSeq(SubSeq(g, 1, k), 1, k - 1)
    BY <1>1 DEF T!DirOf
  <2> DEFINE h == SubSeq(g, 1, k)
             l == SubSeq(h, 1, k - 1)
             r == SubSeq(g, 1, k - 1)
  <2>2. /\ r \in Seq(Names) /\ Len(r) = k - 1 /\ \A i \in 1..k - 1 : r[i] = g[i]
    BY <1>1
  <2>3. h \in Seq(Names) /\ Len(h) = k /\ \A i \in 1..k : h[i] = g[i]
    BY <1>1
  <2> HIDE DEF h
  <2>4. l \in Seq(Names) /\ Len(l) = k - 1 /\ \A i \in 1..k - 1 : l[i] = h[i]
    BY <1>1, <2>3
  <2>5. \A i \in 1..k - 1 : i \in 1..k
    BY <1>1
  <2> HIDE DEF l, r
  <2>6. l = r
    BY <2>2, <2>3, <2>4, <2>5, SeqEqual
  <2> QED
    BY <2>1, <2>6 DEF h, l, r
<1>3. T!IsPrefix(SubSeq(g, 1, k), g)
  BY <1>1, PrefixMeans
<1> QED
  BY <1>1, <1>2, <1>3

LEMMA DirOfType == ASSUME NEW p \in Seq(Names) PROVE T!DirOf(p) \in Seq(Names)
BY DEF T!DirOf

\* The three ways a stack changes.
LEMMA StackFields ==
  ASSUME NEW A, NEW s \in Seq(A), s # <<>>
  PROVE  /\ Len(s) \in Nat \ {0} /\ T!Last(s) = s[Len(s)] /\ T!Last(s) \in A
         /\ \A i \in 1..Len(s) : s[i] \in A
         /\ T!Front(s) \in Seq(A) /\ Len(T!Front(s)) = Len(s) - 1
         /\ \A i \in 1..Len(s) - 1 : T!Front(s)[i] = s[i]
         /\ T!Front(s) = <<>> <=> Len(s) = 1
<1>1. /\ Len(s) \in Nat \ {0} /\ T!Last(s) = s[Len(s)] /\ T!Last(s) \in A
      /\ \A i \in 1..Len(s) : s[i] \in A
  BY DEF T!Last
<1>2. /\ SubSeq(s, 1, Len(s) - 1) \in Seq(A) /\ Len(SubSeq(s, 1, Len(s) - 1)) = Len(s) - 1
      /\ \A i \in 1..Len(s) - 1 : SubSeq(s, 1, Len(s) - 1)[i] = s[i]
  <2>1. PICK n \in Nat : n = Len(s) - 1
    BY <1>1
  <2>2. PICK q : q = SubSeq(s, 1, n)
    OBVIOUS
  <2>3. /\ q \in Seq(A) /\ Len(q) = IF 1 <= n THEN n - 1 + 1 ELSE 0
        /\ \A i \in 1..n - 1 + 1 : q[i] = s[1 + i - 1]
    <3>1. 1 \in Int /\ n \in Int /\ \A i \in 1..n : s[i] \in A
      BY <1>1, <2>1
    <3> QED
      BY <2>2, <3>1, SubSeqProperties
  <2>4. Len(q) = n /\ \A i \in 1..n : q[i] = s[i]
    BY <2>3
  <2> QED
    BY <2>1, <2>2, <2>3, <2>4
<1>3. SubSeq(s, 1, Len(s) - 1) = <<>> <=> Len(SubSeq(s, 1, Len(s) - 1)) = 0
  <2>1. PICK q : q = SubSeq(s, 1, Len(s) - 1)
    OBVIOUS
  <2>2. q \in Seq(A)
    BY <1>2, <2>1
  <2>3. q = <<>> <=> Len(q) = 0
    BY <2>2
  <2> QED
    BY <2>1, <2>3
<1> QED
  BY <1>1, <1>2, <1>3 DEF T!Front

LEMMA GotoFields ==
  ASSUME NEW A, NEW s \in Seq(A), s # <<>>, NEW f \in A
  PROVE  /\ Append(T!Front(s), f) \in Seq(A) /\ Len(Append(T!Front(s), f)) = Len(s)
         /\ \A i \in 1..Len(s) - 1 : Append(T!Front(s), f)[i] = s[i]
         /\ Append(T!Front(s), f)[Len(s)] = f
<1>1. T!Front(s) \in Seq(A) /\ Len(T!Front(s)) = Len(s) - 1 /\ Len(s) \in Nat \ {0}
      /\ \A i \in 1..Len(s) - 1 : T!Front(s)[i] = s[i]
  BY StackFields
<1> QED
  BY <1>1

LEMMA CallFields ==
  ASSUME NEW A, NEW s \in Seq(A), s # <<>>, NEW b \in A, NEW f \in A
  PROVE  LET c == Append(Append(T!Front(s), b), f)
         IN  /\ c \in Seq(A) /\ Len(c) = Len(s) + 1
             /\ \A i \in 1..Len(s) - 1 : c[i] = s[i]
             /\ c[Len(s)] = b /\ c[Len(s) + 1] = f
<1>1. PICK g : g = Append(T!Front(s), b)
  OBVIOUS
<1>2. /\ g \in Seq(A) /\ Len(g) = Len(s) /\ Len(s) \in Nat
      /\ \A i \in 1..Len(s) - 1 : g[i] = s[i]
      /\ g[Len(s)] = b
  BY <1>1, GotoFields
<1>3. s # <<>> /\ Len(s) # 0
  OBVIOUS
<1>4. /\ Append(g, f) \in Seq(A) /\ Len(Append(g, f)) = Len(g) + 1
      /\ \A i \in 1..Len(g) : Append(g, f)[i] = g[i]
      /\ Append(g, f)[Len(g) + 1] = f
  BY <1>2
<1> QED
  BY <1>1, <1>2, <1>3, <1>4

\* What a frame holds, by its operation.
LEMMA FrameKinds ==
  ASSUME NEW f \in T!Frames
  PROVE  /\ f.path \in Seq(Names)
         /\ f.op = "mkdirall" => f \in T!MakeFrames
         /\ f.op \in {"removeall", "remove"} => f \in T!RemoveFrames
         /\ f.op = "removeall" /\ f.at = "child" =>
              f \in [op : {"removeall"}, at : {"child"}, path : Seq(Names), todo : Seq(Seq(Names))]
         /\ f.op = "remove" => f \in [op : {"remove"}, at : {"try", "last"}, path : Seq(Names), kind : T!Kinds]
         /\ f.op = "copy" => f.to \in Seq(Names)
         /\ f.op = "copy" /\ f.at # "each" =>
              f \in [op : {"copy"}, at : {"stat", "walk", "file"}, path : Seq(Names), to : Seq(Names)]
         /\ f.op = "copy" /\ f.at = "each" =>
              f \in [op : {"copy"}, at : {"each"}, path : Seq(Names), to : Seq(Names), todo : Seq(Seq(Names))]
BY DEF T!Frames, T!MakeFrames, T!RemoveFrames, T!CopyFrames, T!Names1

\* A set's elements, in some order.
LEMMA ListOf ==
  ASSUME NEW X, NEW Y, IsFiniteSet(X), X \subseteq Y
  PROVE  T!SetToSeq(X) \in Seq(Y) /\ T!Range(T!SetToSeq(X)) = X
<1> DEFINE n == Cardinality(X)
           Lists(f) == f \in [1..n -> X] /\ T!IsInjective(f)
<1>1. n \in Nat
  BY FS_CardinalityType
<1>2. PICK b : b \in Bijection(1..n, X)
  BY FS_CardinalityType DEF ExistsBijection
<1>3. Lists(b)
  BY <1>2 DEF Bijection, Injection, IsInjective, T!IsInjective
<1>4. T!SetToSeq(X) = CHOOSE f \in [1..n -> X] : T!IsInjective(f)
  <2>1. T!Cardinality(X) = Cardinality(X)
    BY DEF T!Cardinality, Cardinality
  <2> QED
    BY <2>1 DEF T!SetToSeq
<1>5. PICK f : f = T!SetToSeq(X)
  OBVIOUS
<1>6. f \in [1..n -> X] /\ T!IsInjective(f)
  <2>1. \E g \in [1..n -> X] : T!IsInjective(g)
    BY <1>3
  <2> HIDE DEF n
  <2>2. (CHOOSE g \in [1..n -> X] : T!IsInjective(g)) \in [1..n -> X]
        /\ T!IsInjective(CHOOSE g \in [1..n -> X] : T!IsInjective(g))
    BY <2>1
  <2> QED
    BY <1>4, <1>5, <2>2
<1>7. f \in Surjection(1..n, X)
  <2>1. f \in Injection(1..n, X)
    BY <1>6 DEF Injection, IsInjective, T!IsInjective
  <2>2. IsFiniteSet(1..n) /\ Cardinality(1..n) = n
    BY <1>1, FS_Interval
  <2> QED
    BY <2>1, <2>2, FS_Injection
<1>8. \A x \in X : \E i \in 1..n : f[i] = x
  BY <1>7 DEF Surjection
<1>9. T!Range(f) = X
  BY <1>6, <1>8 DEF T!Range
<1> QED
  BY <1>1, <1>5, <1>6, <1>9

-----------------------------------------------------------------------------
(* Operations on trees: what a step does to the tree *)

\* What a step of one caller does to the tree, and with whom it interferes.
Grown(u, p, kind) ==
  /\ p \in Seq(Names) \ {<<>>} /\ kind \in T!Kinds
  /\ T!Stat(p) = "missing" \/ (T!Stat(p) = "file" /\ kind = "file")
  /\ tree' = T!Make(p, kind) /\ T!Interfere(u, p, TRUE)
Shrunk(u, p) ==
  p \in Seq(Names) /\ tree' = T!Restrict(tree, DOMAIN tree \ {p}) /\ T!Interfere(u, p, FALSE)
CallFailed(u) ==
  /\ tree' = tree
  /\ undone' = [undone EXCEPT ![u] = undone[u] \/ T!Top(u).at \in {"make", "again", "last"}]
Changes(u) ==
  \/ T!Keep \/ CallFailed(u)
  \/ \E p, kind : Grown(u, p, kind)
  \/ \E p : Shrunk(u, p)

TreeShape == /\ DOMAIN tree \subseteq Seq(Names) \ {<<>>} /\ T!IsFiniteSet(DOMAIN tree)
             /\ \A p \in DOMAIN tree : tree[p] \in T!Kinds

LEMMA GrownTree ==
  ASSUME TreeShape, NEW u, NEW p, NEW kind, Grown(u, p, kind)
  PROVE  /\ TreeShape' /\ DOMAIN tree' = DOMAIN tree \cup {p}
         /\ \A q : T!Stat(q)' = IF q = p THEN kind ELSE T!Stat(q)
         /\ \A q : \A c \in T!Children(q)' : c \in T!Children(q) \/ (c = p /\ T!IsPrefix(q, p))
<1>1. p \in Seq(Names) \ {<<>>} /\ kind \in T!Kinds /\ tree' = [q \in DOMAIN tree \cup {p} |-> IF q = p THEN kind ELSE tree[q]]
  BY DEF Grown, T!Make
<1>2. DOMAIN tree' = DOMAIN tree \cup {p} /\ \A q \in DOMAIN tree' : tree'[q] = IF q = p THEN kind ELSE tree[q]
  BY <1>1
<1>3. T!IsFiniteSet(DOMAIN tree \cup {p})
  <2>1. IsFiniteSet(DOMAIN tree)
    BY DEF TreeShape, T!IsFiniteSet, IsFiniteSet
  <2>2. IsFiniteSet(DOMAIN tree \cup {p})
    BY <2>1, FS_AddElement
  <2> QED
    BY <2>2 DEF T!IsFiniteSet, IsFiniteSet
<1>4. TreeShape'
  BY <1>1, <1>2, <1>3 DEF TreeShape
<1>5. \A q : T!Stat(q)' = IF q = p THEN kind ELSE T!Stat(q)
  BY <1>1, <1>2 DEF T!Stat
<1>6. \A q : \A c \in T!Children(q)' : c \in T!Children(q) \/ (c = p /\ T!IsPrefix(q, p))
  BY <1>2 DEF T!Children
<1> QED
  BY <1>2, <1>4, <1>5, <1>6

LEMMA ShrunkTree ==
  ASSUME TreeShape, NEW u, NEW p, Shrunk(u, p)
  PROVE  /\ TreeShape' /\ DOMAIN tree' = DOMAIN tree \ {p}
         /\ \A q : q # p => T!Stat(q)' = T!Stat(q)
         /\ p # <<>> => T!Stat(p)' = "missing"
         /\ T!Stat(<<>>)' = "dir"
         /\ \A q : T!Children(q)' \subseteq T!Children(q) \ {p}
<1>1. p \in Seq(Names) /\ tree' = [q \in DOMAIN tree \ {p} |-> tree[q]]
  BY DEF Shrunk, T!Restrict
<1>2. DOMAIN tree' = DOMAIN tree \ {p} /\ \A q \in DOMAIN tree' : tree'[q] = tree[q]
  BY <1>1
<1>3. T!IsFiniteSet(DOMAIN tree \ {p})
  <2>1. IsFiniteSet(DOMAIN tree)
    BY DEF TreeShape, T!IsFiniteSet, IsFiniteSet
  <2>2. IsFiniteSet(DOMAIN tree \ {p})
    BY <2>1, FS_RemoveElement
  <2> QED
    BY <2>2 DEF T!IsFiniteSet, IsFiniteSet
<1>4. TreeShape'
  BY <1>1, <1>2, <1>3 DEF TreeShape
<1>5. /\ \A q : q # p => T!Stat(q)' = T!Stat(q)
      /\ p # <<>> => T!Stat(p)' = "missing"
      /\ T!Stat(<<>>)' = "dir"
  BY <1>2 DEF T!Stat
<1>6. \A q : T!Children(q)' \subseteq T!Children(q) \ {p}
  BY <1>2 DEF T!Children
<1> QED
  BY <1>2, <1>4, <1>5, <1>6

LEMMA StatKinds ==
  ASSUME TreeShape, NEW q
  PROVE  /\ T!Stat(q) \in {"dir", "file", "missing"} /\ T!Stat(<<>>) = "dir"
         /\ T!Stat(q) = "missing" => q # <<>> /\ q \notin DOMAIN tree
         /\ T!Stat(q) = "file" => q # <<>>
BY DEF TreeShape, T!Stat, T!Kinds

\* A caller that removes keeps what is left, as long as nothing is made at or below its path.
LEMMA LeftStays ==
  ASSUME NEW t \in Threads, T!RemovesBelow(t), T!LeftToRemove(t),
         stack'[t] = stack[t], ret'[t] = ret[t],
         \A q \in Seq(Names) : T!IsPrefix(goal[t].path, q) =>
            T!Children(q)' \subseteq T!Children(q) /\ T!Stat(q)' \in {T!Stat(q), "missing"}
  PROVE  T!LeftToRemove(t)'
<1> SUFFICES ASSUME NEW i \in 1..Len(stack[t])
             PROVE  LET f == stack[t][i]
                    IN  /\ f.at = "child" => \/ i = Len(stack[t]) /\ ret[t] = "err"
                                             \/ T!Children(f.path)' \subseteq T!Range(f.todo) \cup T!Remains(t, i)
                        /\ f.at = "last" => T!Children(f.path)' = {}
                        /\ f.op = "remove" => T!Stat(f.path)' \in {f.kind, "missing"}
  BY DEF T!LeftToRemove, T!Remains
<1>1. PICK f : f = stack[t][i]
  OBVIOUS
<1>2. f \in T!RemoveFrames /\ T!IsPrefix(goal[t].path, f.path)
  BY <1>1 DEF T!RemovesBelow
<1>3. f.path \in Seq(Names)
  BY <1>2 DEF T!RemoveFrames, T!Names1
<1>4. T!Children(f.path)' \subseteq T!Children(f.path) /\ T!Stat(f.path)' \in {T!Stat(f.path), "missing"}
  BY <1>2, <1>3
<1>5. /\ f.at = "child" => \/ i = Len(stack[t]) /\ ret[t] = "err"
                           \/ T!Children(f.path) \subseteq T!Range(f.todo) \cup T!Remains(t, i)
      /\ f.at = "last" => T!Children(f.path) = {}
      /\ f.op = "remove" => T!Stat(f.path) \in {f.kind, "missing"}
  BY <1>1 DEF T!LeftToRemove
<1> QED
  BY <1>1, <1>4, <1>5

-----------------------------------------------------------------------------
(* Operations on trees: callers that are not disturbed *)

\* The directories MkdirAll comes to are its path's, or the root.
LEMMA MakesAlong ==
  ASSUME NEW t \in Threads, goal[t].path \in Seq(Names), T!MakesAbove(t), NEW i \in 1..Len(stack[t])
  PROVE  LET p == stack[t][i].path
         IN  /\ p \in Seq(Names) \ {<<>>} /\ T!IsPrefix(p, goal[t].path)
             /\ T!DirOf(p) \in Seq(Names) /\ T!IsPrefix(T!DirOf(p), goal[t].path)
             /\ Len(p) \in 1..Len(goal[t].path) /\ p = SubSeq(goal[t].path, 1, Len(p))
             /\ T!DirOf(p) = SubSeq(goal[t].path, 1, Len(p) - 1)
             /\ Len(p) = Len(goal[t].path) - i + 1
<1> DEFINE g == goal[t].path
           k == Len(g) - i + 1
<1>1. g \in Seq(Names) /\ i <= Len(g) /\ Len(g) \in Nat
  BY DEF T!MakesAbove
<1>2. stack[t][i].path = SubSeq(g, 1, k)
  BY DEF T!MakesAbove
<1>3. k \in 1..Len(g)
  BY <1>1
<1> HIDE DEF g, k
<1>4. PICK p : p = SubSeq(g, 1, k)
  OBVIOUS
<1>5. p \in Seq(Names) /\ Len(p) = k /\ T!DirOf(p) = SubSeq(g, 1, k - 1) /\ T!IsPrefix(p, g)
  BY <1>1, <1>3, <1>4, Above
<1>6. T!DirOf(p) \in Seq(Names)
  BY <1>5, DirOfType
<1>7. T!IsPrefix(T!DirOf(p), g)
  <2>1. CASE k = 1
    <3>1. T!DirOf(p) = <<>>
      <4>1. SubSeq(g, 1, 0) = <<>>
        BY SubSeqEmpty
      <4>2. k - 1 = 0
        BY <2>1
      <4> QED
        BY <1>5, <4>1, <4>2
    <3>2. <<>> \in Seq(Names) /\ Len(<<>>) = 0
      OBVIOUS
    <3>3. T!IsPrefix(<<>>, g)
      <4>1. PICK e \in Seq(Names) : e = <<>>
        BY <3>2
      <4>2. Len(e) = 0
        BY <3>2, <4>1
      <4>3. T!IsPrefix(e, g)
        <5>1. Len(e) <= Len(g) /\ \A j \in 1..Len(e) : e[j] = g[j]
          BY <1>1, <4>2
        <5>2. g \in Seq(Names)
          BY <1>1
        <5> QED
          BY <5>1, <5>2, PrefixMeans
      <4> QED
        BY <4>1, <4>3
    <3> QED
      BY <3>1, <3>3
  <2>2. CASE k # 1
    <3>1. k - 1 \in 1..Len(g)
      BY <1>1, <1>3, <2>2
    <3> QED
      BY <1>1, <1>5, <3>1, Above
  <2> QED
    BY <2>1, <2>2
<1>8. p # <<>>
  BY <1>3, <1>5
<1> QED
  BY <1>2, <1>3, <1>4, <1>5, <1>6, <1>7, <1>8 DEF g, k

\* A caller that makes keeps what it found, as long as nothing is removed on its way.
LEMMA ReadyStays ==
  ASSUME NEW t \in Threads, stack[t] # <<>>, stack[t] \in Seq(T!Frames), goal[t].path \in Seq(Names),
         T!MakesAbove(t), T!ReadyToMake(t), TreeShape,
         stack'[t] = stack[t], ret'[t] = ret[t], goal'[t] = goal[t],
         \A q \in Seq(Names) : T!IsPrefix(q, goal[t].path) =>
            (T!Stat(q) = "dir" => T!Stat(q)' = "dir") /\ (T!Stat(q) = "file" => T!Stat(q)' = "file")
  PROVE  T!ReadyToMake(t)'
<1>1. PICK f : f = stack[t][Len(stack[t])]
  OBVIOUS
<1>2. T!Top(t) = f /\ T!Top(t)' = f /\ Len(stack[t]) \in 1..Len(stack[t])
  BY <1>1, StackFields DEF T!Top, T!Last
<1>3. /\ f.path \in Seq(Names) /\ T!IsPrefix(f.path, goal[t].path)
      /\ T!DirOf(f.path) \in Seq(Names) /\ T!IsPrefix(T!DirOf(f.path), goal[t].path)
  BY <1>1, <1>2, MakesAlong
<1>4. /\ f.at = "parent" /\ ret[t] = "ok" => T!Stat(T!DirOf(f.path)) = "dir"
      /\ f.at = "make" => T!Stat(T!DirOf(f.path)) = "dir"
      /\ f.at = "again" => T!Stat(f.path) # "missing"
      /\ ret[t] = "err" => T!FileInTheWay(t)
  BY <1>2 DEF T!ReadyToMake
<1>5. T!Stat(f.path) \in {"dir", "file", "missing"}
  BY StatKinds
<1>6. /\ T!Stat(T!DirOf(f.path)) = "dir" => T!Stat(T!DirOf(f.path))' = "dir"
      /\ T!Stat(f.path) # "missing" => T!Stat(f.path)' # "missing"
  BY <1>3, <1>5
<1>7. T!FileInTheWay(t) => T!FileInTheWay(t)'
  <2> SUFFICES ASSUME NEW n \in 1..Len(goal[t].path), T!Stat(SubSeq(goal[t].path, 1, n)) = "file"
               PROVE  T!Stat(SubSeq(goal[t].path, 1, n))' = "file"
    BY DEF T!FileInTheWay
  <2> QED
    BY Above
<1> QED
  BY <1>2, <1>4, <1>6, <1>7 DEF T!ReadyToMake

\* What one caller does disturbs no other that was not interfered with.
LEMMA OthersKeep ==
  ASSUME TreeShape, NEW u \in Threads, NEW t \in Threads, t # u, Changes(u), T!AsAsked(t),
         stack[t] \in Seq(T!Frames), goal[t].path \in Seq(Names), DOMAIN undone = Threads,
         stack'[t] = stack[t], ret'[t] = ret[t], goal'[t] = goal[t]
  PROVE  T!AsAsked(t)'
<1> SUFFICES ASSUME stack[t] # <<>> PROVE T!AsAsked(t)'
  BY DEF T!AsAsked
<1>1. T!RemovesBelow(t)' <=> T!RemovesBelow(t)
  BY DEF T!RemovesBelow
<1>2. T!MakesAbove(t)' <=> T!MakesAbove(t)
  BY DEF T!MakesAbove
<1>3. CASE T!Keep \/ CallFailed(u)
  <2>1. tree' = tree /\ undone'[t] = undone[t]
    BY <1>3 DEF T!Keep, CallFailed
  <2>2. \A q : T!Stat(q)' = T!Stat(q) /\ T!Children(q)' = T!Children(q)
    BY <2>1 DEF T!Stat, T!Children
  <2>3. goal[t].op = "removeall" /\ T!RemovesBelow(t) /\ T!LeftToRemove(t) => T!LeftToRemove(t)'
    BY <2>2, LeftStays
  <2>4. goal[t].op = "mkdirall" /\ T!MakesAbove(t) /\ T!ReadyToMake(t) => T!ReadyToMake(t)'
    BY <2>2, ReadyStays
  <2> QED
    BY <1>1, <1>2, <2>1, <2>3, <2>4 DEF T!AsAsked
<1>4. ASSUME NEW p, NEW kind, Grown(u, p, kind) PROVE T!AsAsked(t)'
  <2>1. undone'[t] = (undone[t] \/ T!Concerned(t, p, TRUE))
    BY <1>4 DEF Grown, T!Interfere
  <2>2. CASE goal[t].op = "removeall" /\ undone'[t]
    BY <1>1, <2>2 DEF T!AsAsked
  <2>3. CASE goal[t].op = "removeall" /\ ~ undone'[t]
    <3>1. ~ T!IsPrefix(p, goal[t].path) /\ ~ T!IsPrefix(goal[t].path, p) /\ ~ undone[t]
      BY <2>1, <2>3 DEF T!Concerned
    <3>2. T!RemovesBelow(t) /\ T!LeftToRemove(t)
      BY <2>3, <3>1 DEF T!AsAsked
    <3>3. p \in Seq(Names)
      BY <1>4 DEF Grown
    <3>4. ASSUME NEW q \in Seq(Names), T!IsPrefix(goal[t].path, q)
          PROVE  T!Children(q)' \subseteq T!Children(q) /\ T!Stat(q)' = T!Stat(q)
      <4>1. ~ T!IsPrefix(q, p)
        BY <3>1, <3>3, <3>4, PrefixChain
      <4>2. q # p
        BY <3>1, <3>4
      <4> QED
        BY <1>4, <4>1, <4>2, GrownTree
    <3>5. T!LeftToRemove(t)'
      BY <3>2, <3>4, LeftStays
    <3> QED
      BY <1>1, <2>3, <3>2, <3>5 DEF T!AsAsked
  <2>4. CASE goal[t].op = "mkdirall"
    <3>1. \A q : (T!Stat(q) = "dir" => T!Stat(q)' = "dir") /\ (T!Stat(q) = "file" => T!Stat(q)' = "file")
      <4>1. T!Stat(p) = "missing" \/ (T!Stat(p) = "file" /\ kind = "file")
        BY <1>4 DEF Grown
      <4>2. \A q : T!Stat(q)' = IF q = p THEN kind ELSE T!Stat(q)
        BY <1>4, GrownTree
      <4> QED
        BY <4>1, <4>2
    <3>2. undone[t] => undone'[t]
      BY <2>1
    <3>3. T!MakesAbove(t) /\ T!ReadyToMake(t) => T!ReadyToMake(t)'
      BY <3>1, ReadyStays
    <3> QED
      BY <1>2, <2>4, <3>2, <3>3 DEF T!AsAsked
  <2> QED
    BY <2>2, <2>3, <2>4 DEF T!AsAsked
<1>5. ASSUME NEW p, Shrunk(u, p) PROVE T!AsAsked(t)'
  <2>1. undone'[t] = (undone[t] \/ T!Concerned(t, p, FALSE))
    BY <1>5 DEF Shrunk, T!Interfere
  <2>2. /\ \A q : q # p => T!Stat(q)' = T!Stat(q)
        /\ p # <<>> => T!Stat(p)' = "missing"
        /\ T!Stat(<<>>)' = "dir" /\ T!Stat(<<>>) = "dir"
        /\ \A q : T!Children(q)' \subseteq T!Children(q) \ {p}
    BY <1>5, ShrunkTree, StatKinds
  <2>3. undone[t] => undone'[t]
    BY <2>1
  <2>4. CASE goal[t].op = "removeall"
    <3>1. \A q : T!Children(q)' \subseteq T!Children(q) /\ T!Stat(q)' \in {T!Stat(q), "missing"}
      BY <2>2
    <3>2. T!RemovesBelow(t) /\ T!LeftToRemove(t) => T!LeftToRemove(t)'
      BY <3>1, LeftStays
    <3> QED
      BY <1>1, <2>3, <2>4, <3>2 DEF T!AsAsked
  <2>5. CASE goal[t].op = "mkdirall" /\ undone'[t]
    BY <1>2, <2>5 DEF T!AsAsked
  <2>6. CASE goal[t].op = "mkdirall" /\ ~ undone'[t]
    <3>1. ~ T!IsPrefix(p, goal[t].path) /\ ~ undone[t]
      BY <2>1, <2>6 DEF T!Concerned
    <3>2. \A q : T!IsPrefix(q, goal[t].path) => T!Stat(q)' = T!Stat(q)
      BY <2>2, <3>1
    <3>3. T!MakesAbove(t) /\ T!ReadyToMake(t)
      BY <2>6, <3>1 DEF T!AsAsked
    <3>4. T!ReadyToMake(t)'
      BY <3>2, <3>3, ReadyStays
    <3> QED
      BY <1>2, <2>6, <3>3, <3>4 DEF T!AsAsked
  <2> QED
    BY <2>4, <2>5, <2>6 DEF T!AsAsked
<1> QED
  BY <1>3, <1>4, <1>5 DEF Changes

-----------------------------------------------------------------------------
(* Operations on trees: types *)

\* The three things a step does to its caller's stack.
Moves(u) ==
  /\ stack[u] # <<>> /\ goal' = goal
  /\ \/ \E f \in T!Frames : T!Goto(u, f)
     \/ \E b, f \in T!Frames : T!Call(u, b, f)
     \/ \E r \in {"ok", "err"} : T!Return(u, r)

LEMMA TopType ==
  ASSUME T!Shape, NEW u \in Threads, stack[u] # <<>>
  PROVE  T!Top(u) \in T!Frames /\ T!Top(u).path \in Seq(Names)
<1>1. stack[u] \in Seq(T!Frames)
  BY DEF T!Shape
<1>2. T!Top(u) \in T!Frames
  BY <1>1, StackFields DEF T!Top
<1> QED
  BY <1>2, FrameKinds

LEMMA MoveTypes ==
  ASSUME T!Shape, NEW u \in Threads, Moves(u)
  PROVE  /\ stack' \in [Threads -> Seq(T!Frames)] /\ ret' \in [Threads -> {"none", "ok", "err"}]
         /\ \A t \in Threads \ {u} : stack'[t] = stack[t] /\ ret'[t] = ret[t]
<1>1. stack \in [Threads -> Seq(T!Frames)] /\ ret \in [Threads -> {"none", "ok", "err"}] /\ stack[u] # <<>>
  BY DEF T!Shape, Moves
<1>2. T!Front(stack[u]) \in Seq(T!Frames)
  BY <1>1, StackFields
<1>3. ASSUME NEW f \in T!Frames, T!Goto(u, f)
      PROVE  /\ stack' \in [Threads -> Seq(T!Frames)] /\ ret' \in [Threads -> {"none", "ok", "err"}]
             /\ \A t \in Threads \ {u} : stack'[t] = stack[t] /\ ret'[t] = ret[t]
  <2>1. Append(T!Front(stack[u]), f) \in Seq(T!Frames)
    BY <1>2
  <2> QED
    BY <1>1, <1>3, <2>1 DEF T!Goto
<1>4. ASSUME NEW b \in T!Frames, NEW f \in T!Frames, T!Call(u, b, f)
      PROVE  /\ stack' \in [Threads -> Seq(T!Frames)] /\ ret' \in [Threads -> {"none", "ok", "err"}]
             /\ \A t \in Threads \ {u} : stack'[t] = stack[t] /\ ret'[t] = ret[t]
  <2>1. Append(Append(T!Front(stack[u]), b), f) \in Seq(T!Frames)
    BY <1>2
  <2> QED
    BY <1>1, <1>4, <2>1 DEF T!Call
<1>5. ASSUME NEW r \in {"ok", "err"}, T!Return(u, r)
      PROVE  /\ stack' \in [Threads -> Seq(T!Frames)] /\ ret' \in [Threads -> {"none", "ok", "err"}]
             /\ \A t \in Threads \ {u} : stack'[t] = stack[t] /\ ret'[t] = ret[t]
  BY <1>1, <1>2, <1>5 DEF T!Return
<1> QED
  BY <1>3, <1>4, <1>5 DEF Moves

\* Frames that are pushed.
LEMMA MakeFramesTypes ==
  /\ \A p \in Seq(Names) : T!MkdirAllOf(p) \in T!MakeFrames
  /\ \A f \in T!MakeFrames : \A a \in {"stat", "parent", "make", "again"} :
        [f EXCEPT !.at = a] \in T!MakeFrames /\ [f EXCEPT !.at = a].path = f.path
                                             /\ [f EXCEPT !.at = a].at = a
BY DEF T!MkdirAllOf, T!MakeFrames, T!Names1

LEMMA RemoveFramesTypes ==
  /\ \A p \in Seq(Names) : T!RemoveAllOf(p) \in T!RemoveFrames
  /\ \A p \in Seq(Names) : \A a \in {"list", "last"} : [op |-> "removeall", at |-> a, path |-> p] \in T!RemoveFrames
  /\ \A p \in Seq(Names) : \A l \in Seq(Seq(Names)) :
        [op |-> "removeall", at |-> "child", path |-> p, todo |-> l] \in T!RemoveFrames
  /\ \A p \in Seq(Names) : \A a \in {"try", "last"} : \A k \in T!Kinds :
        [op |-> "remove", at |-> a, path |-> p, kind |-> k] \in T!RemoveFrames
BY DEF T!RemoveAllOf, T!RemoveFrames, T!Names1

LEMMA CopyFramesTypes ==
  /\ \A p, q \in Seq(Names) : T!CopyOf(p, q) \in T!CopyFrames
  /\ \A p, q \in Seq(Names) : \A l \in Seq(Seq(Names)) :
        [op |-> "copy", at |-> "each", path |-> p, to |-> q, todo |-> l] \in T!CopyFrames
  /\ \A f \in [op : {"copy"}, at : {"stat", "walk", "file"}, path : Seq(Names), to : Seq(Names)] :
        \A a \in {"walk", "file"} : [f EXCEPT !.at = a] \in T!CopyFrames
BY DEF T!CopyOf, T!CopyFrames, T!Names1

LEMMA FramesAre ==
  /\ T!MakeFrames \subseteq T!Frames /\ T!RemoveFrames \subseteq T!Frames /\ T!CopyFrames \subseteq T!Frames
BY DEF T!Frames

\* The slow path of MkdirAll.
LEMMA SlowPathMoves ==
  ASSUME T!Shape, NEW u \in Threads, stack[u] # <<>>, T!Top(u).op = "mkdirall", goal' = goal,
         T!MakeParent(u)
  PROVE  Moves(u)
<1> DEFINE f == T!Top(u)
<1>1. f \in T!MakeFrames /\ f.path \in Seq(Names)
  BY TopType, FrameKinds
<1>2. T!DirOf(f.path) \in Seq(Names)
  BY <1>1, DirOfType
<1>3. /\ [f EXCEPT !.at = "parent"] \in T!Frames /\ [f EXCEPT !.at = "make"] \in T!Frames
      /\ T!MkdirAllOf(T!DirOf(f.path)) \in T!Frames
  BY <1>1, <1>2, MakeFramesTypes, FramesAre
<1> HIDE DEF f
<1> QED
  BY <1>3 DEF T!MakeParent, Moves, f

LEMMA MkdirMoves ==
  ASSUME T!Shape, NEW u \in Threads,
         \/ T!MkdirAllStat(u) \/ T!MkdirAllParent(u) \/ T!MkdirAllMake(u) \/ T!MkdirAllAgain(u)
  PROVE  Moves(u) /\ Changes(u)
<1> DEFINE f == T!Top(u)
<1>1. stack[u] # <<>> /\ f.op = "mkdirall" /\ goal' = goal
  BY DEF T!MkdirAllStat, T!MkdirAllParent, T!MkdirAllMake, T!MkdirAllAgain, T!Running, T!Rest
<1>2. f \in T!MakeFrames /\ f.path \in Seq(Names)
  BY <1>1, TopType, FrameKinds
<1>3. TreeShape /\ ret[u] \in {"none", "ok", "err"}
  BY DEF T!Shape, TreeShape, T!Names1
<1>4. T!DirOf(f.path) \in Seq(Names)
  BY <1>2, DirOfType
<1>5. /\ [f EXCEPT !.at = "parent"] \in T!Frames /\ [f EXCEPT !.at = "make"] \in T!Frames
      /\ [f EXCEPT !.at = "again"] \in T!Frames /\ T!MkdirAllOf(T!DirOf(f.path)) \in T!Frames
  BY <1>2, <1>4, MakeFramesTypes, FramesAre
<1> HIDE DEF f
<1>6. CASE T!MkdirAllStat(u)
  <2>1. T!Keep /\ (T!Return(u, "ok") \/ T!Return(u, "err") \/ T!MakeParent(u))
    BY <1>6 DEF T!MkdirAllStat
  <2>2. T!MakeParent(u) => Moves(u)
    BY <1>1, <1>2, SlowPathMoves DEF f
  <2> QED
    BY <1>1, <2>1, <2>2 DEF Moves, Changes
<1>7. CASE T!MkdirAllParent(u)
  BY <1>1, <1>3, <1>5, <1>7 DEF T!MkdirAllParent, Moves, Changes, f
<1>8. CASE T!MkdirAllMake(u)
  <2>1. CASE T!Stat(f.path) = "missing" /\ T!Stat(T!DirOf(f.path)) = "dir"
    <3>1. tree' = T!Make(f.path, "dir") /\ T!Interfere(u, f.path, TRUE) /\ T!Return(u, "ok")
      BY <1>8, <2>1 DEF T!MkdirAllMake, f
    <3>2. f.path # <<>>
      BY <1>3, <2>1, StatKinds
    <3>3. Grown(u, f.path, "dir")
      BY <1>2, <2>1, <3>1, <3>2 DEF Grown, T!Kinds
    <3> QED
      BY <1>1, <3>1, <3>3 DEF Moves, Changes
  <2>2. CASE ~ (T!Stat(f.path) = "missing" /\ T!Stat(T!DirOf(f.path)) = "dir")
    BY <1>1, <1>5, <1>8, <2>2 DEF T!MkdirAllMake, Moves, Changes, f
  <2> QED
    BY <2>1, <2>2
<1>9. CASE T!MkdirAllAgain(u)
  BY <1>1, <1>9 DEF T!MkdirAllAgain, Moves, Changes
<1> QED
  BY <1>6, <1>7, <1>8, <1>9

\* A list of what a directory holds.
LEMMA ListTypes ==
  ASSUME TreeShape, NEW p
  PROVE  /\ T!SetToSeq(T!Children(p)) \in Seq(Seq(Names))
         /\ T!Range(T!SetToSeq(T!Children(p))) = T!Children(p)
         /\ T!Children(p) \subseteq DOMAIN tree
<1>1. T!Children(p) \subseteq DOMAIN tree /\ DOMAIN tree \subseteq Seq(Names)
  BY DEF T!Children, TreeShape
<1>2. IsFiniteSet(DOMAIN tree)
  BY DEF TreeShape, T!IsFiniteSet, IsFiniteSet
<1>3. IsFiniteSet(T!Children(p))
  BY <1>1, <1>2, FS_Subset
<1> QED
  BY <1>1, <1>3, ListOf

LEMMA TodoTypes ==
  ASSUME NEW l \in Seq(Seq(Names)), l # <<>>
  PROVE  Head(l) \in Seq(Names) /\ Tail(l) \in Seq(Seq(Names)) /\ T!Range(l) = {Head(l)} \cup T!Range(Tail(l))
<1>1. /\ Head(l) \in Seq(Names) /\ Tail(l) \in Seq(Seq(Names)) /\ Head(l) = l[1] /\ Len(l) \in Nat \ {0}
      /\ Len(Tail(l)) = Len(l) - 1 /\ \A i \in 1..Len(l) - 1 : Tail(l)[i] = l[i + 1]
      /\ DOMAIN l = 1..Len(l) /\ DOMAIN Tail(l) = 1..Len(l) - 1
  OBVIOUS
<1>2. T!Range(l) = {l[i] : i \in 1..Len(l)} /\ T!Range(Tail(l)) = {Tail(l)[i] : i \in 1..Len(l) - 1}
  BY <1>1 DEF T!Range
<1>3. \A i \in 1..Len(l) : i = 1 \/ (i - 1 \in 1..Len(l) - 1 /\ (i - 1) + 1 = i)
  BY <1>1
<1>4. \A i \in 1..Len(l) - 1 : i + 1 \in 1..Len(l)
  BY <1>1
<1>5. T!Range(l) \subseteq {Head(l)} \cup T!Range(Tail(l))
  <2> SUFFICES ASSUME NEW i \in 1..Len(l) PROVE l[i] = Head(l) \/ l[i] \in T!Range(Tail(l))
    BY <1>2
  <2>1. CASE i = 1
    BY <1>1, <2>1
  <2>2. CASE i # 1
    <3>1. i - 1 \in 1..Len(l) - 1 /\ (i - 1) + 1 = i
      BY <1>3, <2>2
    <3>2. Tail(l)[i - 1] = l[i]
      BY <1>1, <3>1
    <3> QED
      BY <1>2, <3>1, <3>2
  <2> QED
    BY <2>1, <2>2
<1>6. {Head(l)} \cup T!Range(Tail(l)) \subseteq T!Range(l)
  <2>1. Head(l) \in T!Range(l)
    BY <1>1, <1>2
  <2>2. \A i \in 1..Len(l) - 1 : Tail(l)[i] \in T!Range(l)
    BY <1>1, <1>2, <1>4
  <2> QED
    BY <1>2, <2>1, <2>2
<1> QED
  BY <1>1, <1>5, <1>6

LEMMA RemoveMoves ==
  ASSUME T!Shape, NEW u \in Threads,
         \/ T!RemoveStat(u) \/ T!RemoveAct(u) \/ T!RemoveList(u) \/ T!RemoveChild(u)
  PROVE  Moves(u) /\ Changes(u)
<1> DEFINE f == T!Top(u)
<1>1. stack[u] # <<>> /\ f.op \in {"removeall", "remove"} /\ goal' = goal
  BY DEF T!RemoveStat, T!RemoveAct, T!RemoveList, T!RemoveChild, T!Running, T!Rest
<1>2. f \in T!Frames /\ f \in T!RemoveFrames /\ f.path \in Seq(Names)
  BY <1>1, TopType, FrameKinds
<1>3. TreeShape /\ ret[u] \in {"none", "ok", "err"}
  BY DEF T!Shape, TreeShape, T!Names1
<1> HIDE DEF f
<1>4. CASE T!RemoveStat(u)
  <2>1. f.at \in {"try", "last"} /\ T!Keep
    BY <1>4 DEF T!RemoveStat, T!Running, f
  <2>2. CASE T!Stat(f.path) = "missing"
    BY <1>1, <1>4, <2>1, <2>2 DEF T!RemoveStat, Moves, Changes, f
  <2>3. CASE T!Stat(f.path) # "missing"
    <3>1. T!Goto(u, [op |-> "remove", at |-> f.at, path |-> f.path, kind |-> T!Stat(f.path)])
      BY <1>4, <2>3 DEF T!RemoveStat, f
    <3>2. T!Stat(f.path) \in T!Kinds
      BY <1>3, <2>3, StatKinds DEF T!Kinds
    <3>3. [op |-> "remove", at |-> f.at, path |-> f.path, kind |-> T!Stat(f.path)] \in T!Frames
      BY <1>2, <2>1, <3>2, RemoveFramesTypes, FramesAre
    <3> QED
      BY <1>1, <2>1, <3>1, <3>3 DEF Moves, Changes
  <2> QED
    BY <2>2, <2>3
<1>5. CASE T!RemoveAct(u)
  <2> DEFINE works == T!Stat(f.path) = f.kind /\ T!Children(f.path) = {}
  <2>1. CASE works
    <3>1. tree' = T!Restrict(tree, DOMAIN tree \ {f.path}) /\ T!Interfere(u, f.path, FALSE) /\ T!Return(u, "ok")
      BY <1>5, <2>1 DEF T!RemoveAct, f
    <3>2. Shrunk(u, f.path)
      BY <1>2, <3>1 DEF Shrunk
    <3> QED
      BY <1>1, <3>1, <3>2 DEF Moves, Changes
  <2>2. CASE ~ works /\ f.at = "try" /\ T!Stat(f.path) # "missing"
    <3>1. T!Goto(u, [op |-> "removeall", at |-> "list", path |-> f.path]) /\ T!Keep
      BY <1>5, <2>2 DEF T!RemoveAct, f
    <3>2. [op |-> "removeall", at |-> "list", path |-> f.path] \in T!Frames
      BY <1>2, RemoveFramesTypes, FramesAre
    <3> QED
      BY <1>1, <3>1, <3>2 DEF Moves, Changes
  <2>3. CASE ~ works /\ ~ (f.at = "try" /\ T!Stat(f.path) # "missing")
    <3>1. T!Return(u, "ok") /\ T!Keep
      BY <1>5, <2>3 DEF T!RemoveAct, f
    <3> QED
      BY <1>1, <3>1 DEF Moves, Changes
  <2> QED
    BY <2>1, <2>2, <2>3
<1>6. CASE T!RemoveList(u)
  <2>1. [op |-> "removeall", at |-> "child", path |-> f.path, todo |-> T!SetToSeq(T!Children(f.path))] \in T!Frames
    BY <1>2, <1>3, ListTypes, RemoveFramesTypes, FramesAre
  <2>2. T!Stat(f.path) \in {"dir", "file", "missing"}
    BY <1>3, StatKinds
  <2> QED
    BY <1>1, <1>6, <2>1, <2>2 DEF T!RemoveList, Moves, Changes, f
<1>7. CASE T!RemoveChild(u)
  <2>1. f.op = "removeall" /\ f.at = "child" /\ T!Keep
    BY <1>7 DEF T!RemoveChild, T!Running, f
  <2>2. f \in [op : {"removeall"}, at : {"child"}, path : Seq(Names), todo : Seq(Seq(Names))]
    BY <1>2, <2>1, FrameKinds
  <2>3. CASE ret[u] = "err" \/ f.todo = <<>>
    <3>1. [op |-> "removeall", at |-> "last", path |-> f.path] \in T!Frames
      BY <1>2, RemoveFramesTypes, FramesAre
    <3> QED
      BY <1>1, <1>7, <2>1, <2>3, <3>1 DEF T!RemoveChild, Moves, Changes, f
  <2>4. CASE ~ (ret[u] = "err" \/ f.todo = <<>>)
    <3>1. T!Call(u, [f EXCEPT !.todo = Tail(@)], T!RemoveAllOf(Head(f.todo)))
      BY <1>7, <2>4 DEF T!RemoveChild, f
    <3>2. Head(f.todo) \in Seq(Names) /\ Tail(f.todo) \in Seq(Seq(Names))
      BY <2>2, <2>4, TodoTypes
    <3>3. [f EXCEPT !.todo = Tail(@)] \in T!RemoveFrames
      BY <2>2, <3>2 DEF T!RemoveFrames, T!Names1
    <3>4. T!RemoveAllOf(Head(f.todo)) \in T!RemoveFrames
      BY <3>2, RemoveFramesTypes
    <3> QED
      BY <1>1, <2>1, <3>1, <3>3, <3>4, FramesAre DEF Moves, Changes
  <2> QED
    BY <2>3, <2>4
<1> QED
  BY <1>4, <1>5, <1>6, <1>7

LEMMA MoveType ==
  ASSUME NEW c \in Seq(Names), NEW p \in Seq(Names), NEW q \in Seq(Names)
  PROVE  T!Move(c, p, q) \in Seq(Names)
<1>1. Len(p) + 1 \in Int /\ Len(c) \in Int /\ Len(p) \in Nat
  OBVIOUS
<1>2. \A i \in (Len(p) + 1)..Len(c) : i \in 1..Len(c)
  BY <1>1
<1>3. \A i \in 1..Len(c) : c[i] \in Names
  OBVIOUS
<1>4. SubSeq(c, Len(p) + 1, Len(c)) \in Seq(Names)
  BY <1>1, <1>2, <1>3, SubSeqProperties
<1> QED
  BY <1>4, ConcatProperties DEF T!Move

LEMMA CopyMoves ==
  ASSUME T!Shape, NEW u \in Threads,
         \/ T!CopyStat(u) \/ T!CopyFile(u) \/ T!CopyWalk(u) \/ T!CopyEach(u)
  PROVE  Moves(u) /\ Changes(u)
<1> DEFINE f == T!Top(u)
<1>1. stack[u] # <<>> /\ f.op = "copy" /\ goal' = goal
  BY DEF T!CopyStat, T!CopyFile, T!CopyWalk, T!CopyEach, T!Running, T!Rest
<1>2. f \in T!Frames /\ f.path \in Seq(Names) /\ f.to \in Seq(Names)
  BY <1>1, TopType, FrameKinds
<1>3. TreeShape /\ ret[u] \in {"none", "ok", "err"}
  BY DEF T!Shape, TreeShape, T!Names1
<1> HIDE DEF f
<1>4. CASE T!CopyStat(u)
  <2>1. f.at = "stat" /\ T!Keep
    BY <1>4 DEF T!CopyStat, T!Running, f
  <2>2. f \in [op : {"copy"}, at : {"stat", "walk", "file"}, path : Seq(Names), to : Seq(Names)]
    BY <1>1, <1>2, <2>1, FrameKinds
  <2>3. [f EXCEPT !.at = "walk"] \in T!Frames /\ [f EXCEPT !.at = "file"] \in T!Frames
    BY <2>2, CopyFramesTypes, FramesAre
  <2>4. T!MkdirAllOf(f.to) \in T!Frames /\ T!MkdirAllOf(T!DirOf(f.to)) \in T!Frames
    BY <1>2, DirOfType, MakeFramesTypes, FramesAre
  <2>5. T!Stat(f.path) \in {"dir", "file", "missing"}
    BY <1>3, StatKinds
  <2> QED
    BY <1>1, <1>4, <2>1, <2>3, <2>4, <2>5 DEF T!CopyStat, Moves, Changes, f
<1>5. CASE T!CopyFile(u)
  <2> DEFINE works == ret[u] = "ok" /\ T!MayCopy(f)
  <2>1. CASE works
    <3>1. tree' = T!Make(f.to, "file") /\ T!Interfere(u, f.to, TRUE) /\ T!Return(u, "ok")
      BY <1>5, <2>1 DEF T!CopyFile, f
    <3>2. f.to # <<>> /\ T!Stat(f.to) \in {"file", "missing"}
      BY <1>3, <2>1, StatKinds DEF T!MayCopy
    <3>3. Grown(u, f.to, "file")
      BY <1>2, <3>1, <3>2 DEF Grown, T!Kinds
    <3> QED
      BY <1>1, <3>1, <3>3 DEF Moves, Changes
  <2>2. CASE ~ works
    BY <1>1, <1>5, <2>2 DEF T!CopyFile, Moves, Changes, f
  <2> QED
    BY <2>1, <2>2
<1>6. CASE T!CopyWalk(u)
  <2> DEFINE g == [op |-> "copy", at |-> "each", path |-> f.path, to |-> f.to,
                   todo |-> T!SetToSeq(T!Children(f.path))]
  <2>1. T!SetToSeq(T!Children(f.path)) \in Seq(Seq(Names))
    BY <1>3, ListTypes
  <2>2. g \in T!Frames /\ T!MkdirAllOf(f.to) \in T!Frames
    BY <1>2, <2>1, CopyFramesTypes, MakeFramesTypes, FramesAre
  <2>3. T!Keep /\ (T!Return(u, "err") \/ T!Call(u, g, T!MkdirAllOf(f.to)))
    BY <1>6 DEF T!CopyWalk, f
  <2> HIDE DEF g
  <2> QED
    BY <1>1, <2>2, <2>3 DEF Moves, Changes
<1>7. CASE T!CopyEach(u)
  <2>1. f.at = "each" /\ T!Keep
    BY <1>7 DEF T!CopyEach, T!Running, f
  <2>2. f \in [op : {"copy"}, at : {"each"}, path : Seq(Names), to : Seq(Names), todo : Seq(Seq(Names))]
    BY <1>1, <1>2, <2>1, FrameKinds
  <2>3. CASE ret[u] = "err" \/ f.todo = <<>>
    BY <1>1, <1>7, <2>1, <2>3 DEF T!CopyEach, Moves, Changes, f
  <2>4. CASE ~ (ret[u] = "err" \/ f.todo = <<>>)
    <3>1. T!Call(u, [f EXCEPT !.todo = Tail(@)], T!CopyOf(Head(f.todo), T!Move(Head(f.todo), f.path, f.to)))
      BY <1>7, <2>4 DEF T!CopyEach, f
    <3>2. Head(f.todo) \in Seq(Names) /\ Tail(f.todo) \in Seq(Seq(Names))
      BY <2>2, <2>4, TodoTypes
    <3>3. [f EXCEPT !.todo = Tail(@)] \in T!CopyFrames
      BY <2>2, <3>2 DEF T!CopyFrames, T!Names1
    <3>4. T!Move(Head(f.todo), f.path, f.to) \in Seq(Names)
      BY <1>2, <3>2, MoveType
    <3>5. T!CopyOf(Head(f.todo), T!Move(Head(f.todo), f.path, f.to)) \in T!CopyFrames
      BY <3>2, <3>4, CopyFramesTypes
    <3> QED
      BY <1>1, <2>1, <3>1, <3>3, <3>5, FramesAre DEF Moves, Changes
  <2> QED
    BY <2>3, <2>4
<1> QED
  BY <1>4, <1>5, <1>6, <1>7

LEMMA FailMoves ==
  ASSUME T!Shape, NEW u \in Threads, T!CallFails(u)
  PROVE  Moves(u) /\ Changes(u)
<1> DEFINE f == T!Top(u)
           l == [op |-> "removeall", at |-> "list", path |-> f.path]
<1>1. stack[u] # <<>> /\ goal' = goal /\ CallFailed(u)
  BY DEF T!CallFails, CallFailed
<1>2. f \in T!Frames /\ f.path \in Seq(Names)
  BY <1>1, TopType, FrameKinds
<1>3. f.op = "mkdirall" => [f EXCEPT !.at = "again"] \in T!Frames
  BY <1>2, FrameKinds, MakeFramesTypes, FramesAre
<1>4. l \in T!Frames
  BY <1>2, RemoveFramesTypes, FramesAre
<1>5. \/ f.op = "mkdirall" /\ (T!MakeParent(u) \/ T!Goto(u, [f EXCEPT !.at = "again"]))
      \/ T!Goto(u, l) \/ T!Return(u, "ok") \/ T!Return(u, "err")
  BY DEF T!CallFails
<1> HIDE DEF f, l
<1>6. f.op = "mkdirall" /\ T!MakeParent(u) => Moves(u)
  BY <1>1, SlowPathMoves DEF f
<1>7. Moves(u)
  BY <1>1, <1>3, <1>4, <1>5, <1>6 DEF Moves
<1> QED
  BY <1>1, <1>7 DEF Changes

LEMMA BreakMoves ==
  ASSUME T!Shape, NEW u \in Threads, T!CopyBreaksOff(u)
  PROVE  Moves(u) /\ Changes(u) /\ T!Top(u).op = "copy"
<1> DEFINE f == T!Top(u)
<1>1. /\ stack[u] # <<>> /\ f.op = "copy" /\ goal' = goal /\ T!MayCopy(f)
      /\ tree' = T!Make(f.to, "file") /\ T!Interfere(u, f.to, TRUE) /\ T!Return(u, "err")
  BY DEF T!CopyBreaksOff, T!Running
<1>2. TreeShape /\ f.to \in Seq(Names)
  BY <1>1, TopType, FrameKinds DEF T!Shape, TreeShape, T!Names1
<1> HIDE DEF f
<1>3. f.to # <<>> /\ T!Stat(f.to) \in {"file", "missing"}
  BY <1>1, <1>2, StatKinds DEF T!MayCopy
<1>4. Grown(u, f.to, "file")
  BY <1>1, <1>2, <1>3 DEF Grown, T!Kinds
<1> QED
  BY <1>1, <1>4 DEF Moves, Changes, f

-----------------------------------------------------------------------------
(* Operations on trees: what a caller that removes keeps *)

\* Nothing is made.
Shrinks == \A q : T!Children(q)' \subseteq T!Children(q) /\ T!Stat(q)' \in {T!Stat(q), "missing"}

\* What is left for one call, in a tree.
ChildrenIn(tr, p) == {q \in DOMAIN tr : Len(q) = Len(p) + 1 /\ T!IsPrefix(p, q)}
StatIn(tr, p) == IF p = <<>> THEN "dir" ELSE IF p \in DOMAIN tr THEN tr[p] ELSE "missing"
Left(tr, f, above, failed) ==
  /\ f.at = "child" => failed \/ ChildrenIn(tr, f.path) \subseteq T!Range(f.todo) \cup above
  /\ f.at = "last" => ChildrenIn(tr, f.path) = {}
  /\ f.op = "remove" => StatIn(tr, f.path) \in {f.kind, "missing"}

LEMMA LeftOf ==
  ASSUME NEW t
  PROVE  T!LeftToRemove(t) <=>
           \A i \in 1..Len(stack[t]) :
              Left(tree, stack[t][i], IF i < Len(stack[t]) THEN {stack[t][i + 1].path} ELSE {},
                   i = Len(stack[t]) /\ ret[t] = "err")
BY DEF T!LeftToRemove, T!Remains, Left, T!Children, T!Stat, ChildrenIn, StatIn

LEMMA LeftOfNext ==
  ASSUME NEW t
  PROVE  T!LeftToRemove(t)' <=>
           \A i \in 1..Len(stack'[t]) :
              Left(tree', stack'[t][i], IF i < Len(stack'[t]) THEN {stack'[t][i + 1].path} ELSE {},
                   i = Len(stack'[t]) /\ ret'[t] = "err")
BY DEF T!LeftToRemove, T!Remains, Left, T!Children, T!Stat, ChildrenIn, StatIn

LEMMA LeftShrinks ==
  ASSUME Shrinks, NEW f, NEW above, NEW failed, Left(tree, f, above, failed)
  PROVE  Left(tree', f, above, failed)
<1>1. /\ T!Children(f.path) = ChildrenIn(tree, f.path) /\ T!Children(f.path)' = ChildrenIn(tree', f.path)
      /\ T!Stat(f.path) = StatIn(tree, f.path) /\ T!Stat(f.path)' = StatIn(tree', f.path)
  BY DEF T!Children, T!Stat, ChildrenIn, StatIn
<1>2. ChildrenIn(tree', f.path) \subseteq ChildrenIn(tree, f.path)
      /\ StatIn(tree', f.path) \in {StatIn(tree, f.path), "missing"}
  BY <1>1 DEF Shrinks
<1> QED
  BY <1>2 DEF Left

\* The entries a call has still to remove are below a path.
Within(f, p) == f.at = "child" => \A c \in T!Range(f.todo) : T!IsPrefix(p, c)

\* Going on in a call, calling and returning, for a caller that removes.
LEMMA GotoRemoves ==
  ASSUME T!Shape, NEW u \in Threads, stack[u] # <<>>, T!RemovesBelow(u), goal' = goal,
         NEW f \in T!RemoveFrames, f.path = T!Top(u).path, Within(f, goal[u].path), T!Goto(u, f)
  PROVE  /\ T!RemovesBelow(u)' /\ stack'[u] # <<>>
         /\ Shrinks /\ T!LeftToRemove(u) /\ Left(tree', f, {}, FALSE) => T!LeftToRemove(u)'
<1>1. /\ stack[u] \in Seq(T!Frames) /\ u \in DOMAIN stack /\ u \in DOMAIN ret /\ f \in T!Frames
  BY FramesAre DEF T!Shape
<1>2. stack'[u] = Append(T!Front(stack[u]), f) /\ ret'[u] = "none"
  BY <1>1 DEF T!Goto
<1>3. PICK n : n = Len(stack[u])
  OBVIOUS
<1>4. /\ Len(stack'[u]) = n /\ \A i \in 1..n - 1 : stack'[u][i] = stack[u][i]
      /\ stack'[u][n] = f
  BY <1>1, <1>2, <1>3, GotoFields
<1>5. n \in Nat \ {0} /\ f.path = stack[u][n].path
  BY <1>1, <1>3, StackFields DEF T!Top
<1>6. \A i \in 1..n : (i \in 1..n - 1 /\ i + 1 \in 1..n) \/ i = n
  BY <1>5
<1>7. \A i \in 1..n : stack'[u][i].path = stack[u][i].path
  BY <1>4, <1>5, <1>6
<1>8. T!RemovesBelow(u)'
  <2>1. stack'[u][1].path = goal'[u].path
    BY <1>5, <1>7 DEF T!RemovesBelow
  <2>2. ASSUME NEW i \in 1..n
        PROVE  /\ stack'[u][i] \in T!RemoveFrames /\ T!IsPrefix(goal'[u].path, stack'[u][i].path)
               /\ i < n => stack'[u][i].at = "child"
               /\ Within(stack'[u][i], goal'[u].path)
    <3>1. /\ stack[u][i] \in T!RemoveFrames /\ T!IsPrefix(goal[u].path, stack[u][i].path)
          /\ i < n => stack[u][i].at = "child"
          /\ Within(stack[u][i], goal[u].path)
      BY <1>3 DEF T!RemovesBelow, Within
    <3>2. CASE i = n
      BY <1>4, <1>5, <3>1, <3>2
    <3>3. CASE i \in 1..n - 1
      BY <1>4, <3>1, <3>3
    <3> QED
      BY <1>6, <3>2, <3>3
  <2> QED
    BY <1>4, <2>1, <2>2 DEF T!RemovesBelow, Within
<1>9. stack'[u] # <<>>
  BY <1>4, <1>5
<1>10. ASSUME Shrinks, T!LeftToRemove(u), Left(tree', f, {}, FALSE) PROVE T!LeftToRemove(u)'
  <2> SUFFICES ASSUME NEW i \in 1..n
               PROVE  Left(tree', stack'[u][i], IF i < n THEN {stack'[u][i + 1].path} ELSE {}, i = n /\ ret'[u] = "err")
    BY <1>4, LeftOfNext
  <2>1. CASE i = n
    BY <1>2, <1>4, <1>10, <2>1 DEF Left
  <2>2. CASE i \in 1..n - 1 /\ i + 1 \in 1..n
    <3>1. i < n /\ i # n
      BY <1>5, <2>2
    <3>2. Left(tree, stack[u][i], {stack[u][i + 1].path}, FALSE)
      BY <1>3, <1>10, <3>1, LeftOf DEF Left
    <3>3. stack'[u][i] = stack[u][i] /\ stack'[u][i + 1].path = stack[u][i + 1].path
      BY <1>4, <1>7, <2>2
    <3> QED
      BY <1>10, <3>1, <3>2, <3>3, LeftShrinks DEF Left
  <2> QED
    BY <1>6, <2>1, <2>2
<1> QED
  BY <1>8, <1>9, <1>10

LEMMA RemovesIs ==
  ASSUME NEW t, T!RemovesBelow(t)
  PROVE  /\ stack[t][1].path = goal[t].path
         /\ \A i \in 1..Len(stack[t]) :
               /\ stack[t][i] \in T!RemoveFrames /\ T!IsPrefix(goal[t].path, stack[t][i].path)
               /\ i < Len(stack[t]) => stack[t][i].at = "child"
               /\ Within(stack[t][i], goal[t].path)
BY DEF T!RemovesBelow, Within

\* A call under another has its entries below it left, or the one it was made for.
LEMMA LeftUnder ==
  ASSUME NEW t, T!LeftToRemove(t), NEW i \in 1..Len(stack[t]), i < Len(stack[t]), Len(stack[t]) \in Nat
  PROVE  Left(tree, stack[t][i], {stack[t][i + 1].path}, FALSE)
<1>1. PICK f : f = stack[t][i]
  OBVIOUS
<1>2. /\ f.at = "child" => T!Children(f.path) \subseteq T!Range(f.todo) \cup T!Remains(t, i)
      /\ f.at = "last" => T!Children(f.path) = {}
      /\ f.op = "remove" => T!Stat(f.path) \in {f.kind, "missing"}
  BY <1>1 DEF T!LeftToRemove
<1>3. /\ T!Remains(t, i) = {stack[t][i + 1].path}
      /\ T!Children(f.path) = ChildrenIn(tree, f.path) /\ T!Stat(f.path) = StatIn(tree, f.path)
  BY DEF T!Remains, T!Children, T!Stat, ChildrenIn, StatIn
<1> QED
  BY <1>1, <1>2, <1>3 DEF Left

LEMMA CallRemoves ==
  ASSUME T!Shape, NEW u \in Threads, stack[u] # <<>>, T!RemovesBelow(u), goal' = goal,
         NEW b \in T!RemoveFrames, b.path = T!Top(u).path, b.op = "removeall", b.at = "child", Within(b, goal[u].path),
         NEW f \in T!RemoveFrames, T!IsPrefix(goal[u].path, f.path), Within(f, goal[u].path), T!Call(u, b, f)
  PROVE  /\ T!RemovesBelow(u)' /\ stack'[u] # <<>>
         /\ Shrinks /\ T!LeftToRemove(u) /\ Left(tree', b, {f.path}, FALSE) /\ Left(tree', f, {}, FALSE) =>
              T!LeftToRemove(u)'
<1>1. /\ stack[u] \in Seq(T!Frames) /\ u \in DOMAIN stack /\ u \in DOMAIN ret /\ f \in T!Frames /\ b \in T!Frames
  BY FramesAre DEF T!Shape
<1>2. stack'[u] = Append(Append(T!Front(stack[u]), b), f) /\ ret'[u] = "none"
  BY <1>1 DEF T!Call
<1>3. PICK n : n = Len(stack[u])
  OBVIOUS
<1>4. /\ Len(stack'[u]) = n + 1 /\ \A i \in 1..n - 1 : stack'[u][i] = stack[u][i]
      /\ stack'[u][n] = b /\ stack'[u][n + 1] = f
  <2>1. PICK s : s = stack[u]
    OBVIOUS
  <2>2. PICK c : c = Append(Append(T!Front(s), b), f)
    OBVIOUS
  <2>3. s \in Seq(T!Frames) /\ s # <<>>
    BY <1>1, <2>1
  <2>4. /\ Len(c) = Len(s) + 1 /\ \A i \in 1..Len(s) - 1 : c[i] = s[i]
        /\ c[Len(s)] = b /\ c[Len(s) + 1] = f
    BY <1>1, <2>2, <2>3, CallFields
  <2> QED
    BY <1>2, <1>3, <2>1, <2>2, <2>4
<1>5. n \in Nat \ {0} /\ b.path = stack[u][n].path
  BY <1>1, <1>3, StackFields DEF T!Top
<1>6. \A i \in 1..n + 1 : (i \in 1..n - 1 /\ i + 1 \in 1..n /\ i \in 1..n) \/ i = n \/ i = n + 1
  BY <1>5
<1>7. \A i \in 1..n : stack'[u][i].path = stack[u][i].path
  <2> SUFFICES ASSUME NEW i \in 1..n PROVE stack'[u][i].path = stack[u][i].path
    OBVIOUS
  <2>1. CASE i = n
    BY <1>4, <1>5, <2>1
  <2>2. CASE i # n
    <3>1. i \in 1..n - 1
      BY <1>5, <2>2
    <3> QED
      BY <1>4, <3>1
  <2> QED
    BY <2>1, <2>2
<1>8. T!RemovesBelow(u)'
  <2>1. stack'[u][1].path = goal'[u].path
    BY <1>5, <1>7 DEF T!RemovesBelow
  <2>2. ASSUME NEW i \in 1..n
        PROVE  /\ stack[u][i] \in T!RemoveFrames /\ T!IsPrefix(goal[u].path, stack[u][i].path)
               /\ i < n => stack[u][i].at = "child"
               /\ Within(stack[u][i], goal[u].path)
    BY <1>3, RemovesIs
  <2>3. ASSUME NEW i \in 1..n + 1
        PROVE  /\ stack'[u][i] \in T!RemoveFrames /\ T!IsPrefix(goal'[u].path, stack'[u][i].path)
               /\ i < n + 1 => stack'[u][i].at = "child"
               /\ Within(stack'[u][i], goal'[u].path)
    <3>1. CASE i \in 1..n - 1 /\ i \in 1..n
      <4>1. stack'[u][i] = stack[u][i] /\ i < n
        <5>1. \A j \in 1..n - 1 : stack'[u][j] = stack[u][j]
          BY <1>4
        <5>2. n \in Nat
          BY <1>5
        <5>3. i < n
          BY <3>1, <5>2
        <5> QED
          BY <3>1, <5>1, <5>3
      <4> QED
        BY <2>2, <3>1, <4>1
    <3>2. CASE i = n
      BY <1>4, <1>5, <2>2, <3>2
    <3>3. CASE i = n + 1
      BY <1>4, <3>3
    <3> QED
      BY <1>6, <3>1, <3>2, <3>3
  <2> QED
    BY <1>4, <2>1, <2>3 DEF T!RemovesBelow, Within
<1>9. stack'[u] # <<>>
  BY <1>4, <1>5
<1>10. ASSUME Shrinks, T!LeftToRemove(u), Left(tree', b, {f.path}, FALSE), Left(tree', f, {}, FALSE)
       PROVE  T!LeftToRemove(u)'
  <2> SUFFICES ASSUME NEW i \in 1..n + 1
               PROVE  Left(tree', stack'[u][i], IF i < n + 1 THEN {stack'[u][i + 1].path} ELSE {},
                           i = n + 1 /\ ret'[u] = "err")
    BY <1>4, LeftOfNext
  <2>1. CASE i = n + 1
    BY <1>2, <1>4, <1>5, <1>10, <2>1 DEF Left
  <2>2. CASE i = n
    BY <1>2, <1>4, <1>5, <1>10, <2>2 DEF Left
  <2>3. CASE i \in 1..n - 1 /\ i + 1 \in 1..n /\ i \in 1..n
    <3>1. i < n /\ i < n + 1 /\ i # n /\ i # n + 1
      BY <1>5, <2>3
    <3>2. Left(tree, stack[u][i], {stack[u][i + 1].path}, FALSE)
      BY <1>3, <1>5, <1>10, <2>3, <3>1, LeftUnder
    <3>3. stack'[u][i] = stack[u][i] /\ stack'[u][i + 1].path = stack[u][i + 1].path
      BY <1>4, <1>7, <2>3
    <3> QED
      BY <1>10, <3>1, <3>2, <3>3, LeftShrinks DEF Left
  <2> QED
    BY <1>6, <2>1, <2>2, <2>3
<1> QED
  BY <1>8, <1>9, <1>10

\* A call that returns without an error has removed its path.
LEMMA ReturnRemoves ==
  ASSUME T!Shape, NEW u \in Threads, stack[u] # <<>>, T!RemovesBelow(u), goal' = goal,
         NEW r \in {"ok", "err"}, T!Return(u, r)
  PROVE  /\ stack'[u] # <<>> => T!RemovesBelow(u)'
         /\ ret'[u] = r
         /\ stack'[u] = <<>> => T!Top(u).path = goal[u].path
         /\ stack'[u] # <<>> /\ Shrinks /\ T!LeftToRemove(u)
              /\ (r = "ok" => T!Top(u).path \notin DOMAIN tree') => T!LeftToRemove(u)'
<1>1. /\ stack[u] \in Seq(T!Frames) /\ u \in DOMAIN stack /\ u \in DOMAIN ret
  BY DEF T!Shape
<1>2. stack'[u] = T!Front(stack[u]) /\ ret'[u] = r
  BY <1>1 DEF T!Return
<1>3. PICK n : n = Len(stack[u])
  OBVIOUS
<1>4. /\ n \in Nat \ {0} /\ T!Top(u) = stack[u][n] /\ stack'[u] \in Seq(T!Frames)
      /\ Len(stack'[u]) = n - 1 /\ \A i \in 1..n - 1 : stack'[u][i] = stack[u][i]
      /\ stack'[u] = <<>> <=> n = 1
  BY <1>1, <1>2, <1>3, StackFields DEF T!Top
<1>5. stack'[u] = <<>> => T!Top(u).path = goal[u].path
  BY <1>4 DEF T!RemovesBelow
<1>6. \A i \in 1..n : /\ stack[u][i] \in T!RemoveFrames /\ T!IsPrefix(goal[u].path, stack[u][i].path)
                      /\ i < n => stack[u][i].at = "child"
                      /\ Within(stack[u][i], goal[u].path)
  BY <1>3, RemovesIs
<1>7. \A i \in 1..n - 1 : i \in 1..n /\ i < n /\ i + 1 \in 1..n
  BY <1>4
<1>8. ASSUME stack'[u] # <<>> PROVE T!RemovesBelow(u)'
  <2>1. 1 \in 1..n - 1
    BY <1>4, <1>8
  <2>2. stack'[u][1].path = goal'[u].path
    BY <1>4, <2>1 DEF T!RemovesBelow
  <2> QED
    <3>1. \A i \in 1..n - 1 :
             /\ stack'[u][i] \in T!RemoveFrames /\ T!IsPrefix(goal'[u].path, stack'[u][i].path)
             /\ stack'[u][i].at = "child" /\ Within(stack'[u][i], goal'[u].path)
      BY <1>4, <1>6, <1>7
    <3>2. Len(stack'[u]) = n - 1
      BY <1>4
    <3> QED
      BY <2>2, <3>1, <3>2 DEF T!RemovesBelow, Within
<1>9. ASSUME stack'[u] # <<>>, Shrinks, T!LeftToRemove(u), r = "ok" => T!Top(u).path \notin DOMAIN tree'
      PROVE  T!LeftToRemove(u)'
  <2> SUFFICES ASSUME NEW i \in 1..n - 1
               PROVE  Left(tree', stack'[u][i], IF i < n - 1 THEN {stack'[u][i + 1].path} ELSE {},
                           i = n - 1 /\ ret'[u] = "err")
    BY <1>4, LeftOfNext
  <2>1. Left(tree, stack[u][i], {stack[u][i + 1].path}, FALSE)
    BY <1>3, <1>4, <1>7, <1>9, LeftUnder
  <2>2. Left(tree', stack[u][i], {stack[u][i + 1].path}, FALSE)
    BY <1>9, <2>1, LeftShrinks
  <2>3. stack'[u][i] = stack[u][i] /\ stack[u][i].at = "child" /\ stack[u][i] \in T!RemoveFrames
    BY <1>4, <1>6, <1>7
  <2>4. CASE i # n - 1
    <3>1. i < n - 1 /\ i + 1 \in 1..n - 1
      BY <1>4, <2>4
    <3>2. stack'[u][i + 1] = stack[u][i + 1]
      BY <1>4, <3>1
    <3> QED
      BY <2>2, <2>3, <2>4, <3>1, <3>2 DEF Left
  <2>5. CASE i = n - 1
    <3>1. stack[u][i + 1] = T!Top(u) /\ ~ (i < n - 1)
      BY <1>4, <2>5
    <3>2. CASE r = "err"
      BY <1>2, <2>2, <2>3, <2>5, <3>1, <3>2 DEF Left
    <3>3. CASE r = "ok"
      <4>1. T!Top(u).path \notin ChildrenIn(tree', stack[u][i].path)
        BY <1>9, <3>3 DEF ChildrenIn
      <4>2. ChildrenIn(tree', stack[u][i].path) \subseteq T!Range(stack[u][i].todo)
        BY <2>2, <2>3, <3>1, <4>1 DEF Left
      <4> QED
        BY <2>2, <2>3, <3>1, <4>2 DEF Left
    <3> QED
      BY <3>2, <3>3
  <2> QED
    BY <2>4, <2>5
<1> QED
  BY <1>2, <1>5, <1>8, <1>9

\* The call a caller that removes is in.
LEMMA TopRemoves ==
  ASSUME T!Shape, NEW u \in Threads, stack[u] # <<>>, T!RemovesBelow(u)
  PROVE  /\ T!Top(u) \in T!RemoveFrames /\ T!Top(u).path \in Seq(Names)
         /\ T!IsPrefix(goal[u].path, T!Top(u).path) /\ Within(T!Top(u), goal[u].path)
         /\ T!LeftToRemove(u) =>
              /\ T!Top(u).at = "child" => ret[u] = "err" \/ T!Children(T!Top(u).path) \subseteq T!Range(T!Top(u).todo)
              /\ T!Top(u).at = "last" => T!Children(T!Top(u).path) = {}
              /\ T!Top(u).op = "remove" => T!Stat(T!Top(u).path) \in {T!Top(u).kind, "missing"}
<1>1. stack[u] \in Seq(T!Frames)
  BY DEF T!Shape
<1>2. PICK n : n = Len(stack[u])
  OBVIOUS
<1>3. n \in Nat \ {0} /\ T!Top(u) = stack[u][n] /\ n \in 1..Len(stack[u]) /\ ~ (n < Len(stack[u]))
  <2>1. PICK s : s = stack[u]
    OBVIOUS
  <2>2. s \in Seq(T!Frames) /\ s # <<>>
    BY <1>1, <2>1
  <2>3. Len(s) \in Nat \ {0} /\ T!Last(s) = s[Len(s)]
    BY <2>2, StackFields
  <2>4. T!Top(u) = s[n]
    BY <1>2, <2>1, <2>3 DEF T!Top
  <2> QED
    BY <1>2, <2>1, <2>3, <2>4
<1>4. /\ T!Top(u) \in T!RemoveFrames /\ T!IsPrefix(goal[u].path, T!Top(u).path)
      /\ Within(T!Top(u), goal[u].path)
  <2>1. \A i \in 1..Len(stack[u]) :
          stack[u][i] \in T!RemoveFrames /\ T!IsPrefix(goal[u].path, stack[u][i].path)
          /\ Within(stack[u][i], goal[u].path)
    BY RemovesIs
  <2> QED
    BY <1>3, <2>1
<1>5. T!Top(u).path \in Seq(Names)
  BY TopType
<1>6. ASSUME T!LeftToRemove(u)
      PROVE  /\ T!Top(u).at = "child" => ret[u] = "err" \/ T!Children(T!Top(u).path) \subseteq T!Range(T!Top(u).todo)
             /\ T!Top(u).at = "last" => T!Children(T!Top(u).path) = {}
             /\ T!Top(u).op = "remove" => T!Stat(T!Top(u).path) \in {T!Top(u).kind, "missing"}
  BY <1>3, <1>6 DEF T!LeftToRemove, T!Remains
<1> QED
  BY <1>4, <1>5, <1>6

LEMMA KeepShrinks ==
  ASSUME TreeShape, NEW u, T!Keep \/ tree' = tree \/ \E p : Shrunk(u, p)
  PROVE  Shrinks
<1>1. CASE T!Keep \/ tree' = tree
  BY <1>1 DEF T!Keep, Shrinks, T!Children, T!Stat
<1>2. ASSUME NEW p, Shrunk(u, p) PROVE Shrinks
  <2>1. /\ \A q : q # p => T!Stat(q)' = T!Stat(q)
        /\ p # <<>> => T!Stat(p)' = "missing"
        /\ T!Stat(<<>>)' = "dir" /\ T!Stat(<<>>) = "dir"
        /\ \A q : T!Children(q)' \subseteq T!Children(q)
    BY <1>2, ShrunkTree, StatKinds
  <2> QED
    BY <2>1 DEF Shrinks
<1> QED
  BY <1>1, <1>2

\* What a step of a caller that removes must keep, and what it answers at the end.
RemovesRight(u) ==
  /\ stack'[u] # <<>> => T!RemovesBelow(u)' /\ (undone'[u] \/ T!LeftToRemove(u)')
  /\ stack'[u] = <<>> /\ ret'[u] = "ok" /\ ~ undone'[u] => goal[u].path \notin DOMAIN tree'

Removing(u) ==
  T!RemovesBelow(u) /\ (undone[u] \/ T!LeftToRemove(u)) /\ stack[u] # <<>> /\ goal' = goal

\* It goes on, ...
LEMMA GotoRight ==
  ASSUME T!Shape, NEW u \in Threads, Removing(u), undone[u] => undone'[u], Shrinks,
         NEW f \in T!RemoveFrames, f.path = T!Top(u).path, Within(f, goal[u].path), T!Goto(u, f),
         T!LeftToRemove(u) => Left(tree', f, {}, FALSE)
  PROVE  RemovesRight(u)
<1>1. T!RemovesBelow(u)' /\ stack'[u] # <<>> /\ (T!LeftToRemove(u) => T!LeftToRemove(u)')
  BY GotoRemoves DEF Removing
<1> QED
  BY <1>1 DEF RemovesRight, Removing

\* ... or answers.
LEMMA ReturnRight ==
  ASSUME T!Shape, NEW u \in Threads, Removing(u), undone[u] => undone'[u], Shrinks,
         NEW r \in {"ok", "err"}, T!Return(u, r),
         T!LeftToRemove(u) /\ r = "ok" => T!Top(u).path \notin DOMAIN tree'
  PROVE  RemovesRight(u)
<1>1. /\ stack'[u] # <<>> => T!RemovesBelow(u)'
      /\ ret'[u] = r
      /\ stack'[u] = <<>> => T!Top(u).path = goal[u].path
      /\ stack'[u] # <<>> /\ T!LeftToRemove(u) => T!LeftToRemove(u)'
  BY ReturnRemoves DEF Removing
<1> QED
  BY <1>1 DEF RemovesRight, Removing

LEMMA RemoveStatRight ==
  ASSUME T!Shape, NEW u \in Threads, Removing(u), T!RemoveStat(u) PROVE RemovesRight(u)
<1>1. PICK f : f = T!Top(u)
  OBVIOUS
<1>2. TreeShape /\ T!Keep /\ undone'[u] = undone[u] /\ tree' = tree
  BY DEF T!RemoveStat, T!Keep, T!Shape, TreeShape, T!Names1
<1>3. Shrinks
  BY <1>2, KeepShrinks
<1>4. /\ f \in T!RemoveFrames /\ f.path \in Seq(Names)
      /\ T!LeftToRemove(u) /\ f.at = "last" => T!Children(f.path) = {}
  BY <1>1, TopRemoves DEF Removing
<1>5. CASE T!Stat(f.path) = "missing"
  <2>1. T!Return(u, "ok") /\ f.path \notin DOMAIN tree'
    BY <1>1, <1>2, <1>5, StatKinds DEF T!RemoveStat
  <2> QED
    BY <1>1, <1>2, <1>3, <2>1, ReturnRight
<1>6. CASE T!Stat(f.path) # "missing"
  <2>1. PICK g : g = [op |-> "remove", at |-> f.at, path |-> f.path, kind |-> T!Stat(f.path)]
    OBVIOUS
  <2>2. T!Goto(u, g) /\ f.at \in {"try", "last"}
    BY <1>1, <1>6, <2>1 DEF T!RemoveStat, T!Running
  <2>3. T!Stat(f.path) \in T!Kinds
    BY <1>2, <1>6, StatKinds DEF T!Kinds
  <2>4. g \in T!RemoveFrames
    BY <1>4, <2>1, <2>2, <2>3, RemoveFramesTypes
  <2>5. g.path = f.path /\ g.at = f.at /\ g.at # "child" /\ g.kind = T!Stat(f.path)
    BY <2>1, <2>2
  <2>6. ChildrenIn(tree', g.path) = T!Children(f.path) /\ StatIn(tree', g.path) = g.kind
    BY <1>2, <2>5 DEF ChildrenIn, StatIn, T!Children, T!Stat
  <2>7. Within(g, goal[u].path)
    BY <2>5 DEF Within
  <2>8. T!LeftToRemove(u) => Left(tree', g, {}, FALSE)
    BY <1>4, <2>5, <2>6 DEF Left
  <2> QED
    BY <1>1, <1>2, <1>3, <2>2, <2>4, <2>5, <2>7, <2>8, GotoRight
<1> QED
  BY <1>5, <1>6

LEMMA RemoveActRight ==
  ASSUME T!Shape, NEW u \in Threads, Removing(u), T!RemoveAct(u) PROVE RemovesRight(u)
<1>1. PICK f : f = T!Top(u)
  OBVIOUS
<1>2. TreeShape /\ f.op = "remove" /\ f.at \in {"try", "last"} /\ DOMAIN undone = Threads
  BY <1>1 DEF T!RemoveAct, T!Running, T!Shape, TreeShape, T!Names1
<1>3. /\ f \in T!RemoveFrames /\ f.path \in Seq(Names)
      /\ T!LeftToRemove(u) =>
           (f.at = "last" => T!Children(f.path) = {}) /\ T!Stat(f.path) \in {f.kind, "missing"}
  BY <1>1, <1>2, TopRemoves DEF Removing
<1> DEFINE works == T!Stat(f.path) = f.kind /\ T!Children(f.path) = {}
<1>4. CASE works
  <2>1. tree' = T!Restrict(tree, DOMAIN tree \ {f.path}) /\ T!Interfere(u, f.path, FALSE) /\ T!Return(u, "ok")
    BY <1>1, <1>4 DEF T!RemoveAct
  <2>2. Shrunk(u, f.path)
    BY <1>3, <2>1 DEF Shrunk
  <2>3. Shrinks
    BY <1>2, <2>2, KeepShrinks
  <2>4. f.path \notin DOMAIN tree'
    BY <1>2, <2>2, ShrunkTree
  <2>5. undone'[u] = (undone[u] \/ FALSE)
    BY <2>1 DEF T!Interfere
  <2>6. CASE undone[u]
    <3>1. undone'[u] /\ (stack'[u] # <<>> => T!RemovesBelow(u)')
      BY <2>1, <2>5, <2>6, ReturnRemoves DEF Removing
    <3> QED
      BY <3>1 DEF RemovesRight
  <2>7. CASE ~ undone[u]
    <3>1. /\ stack'[u] # <<>> => T!RemovesBelow(u)'
          /\ stack'[u] = <<>> => f.path = goal[u].path
          /\ stack'[u] # <<>> /\ T!LeftToRemove(u) => T!LeftToRemove(u)'
      BY <1>1, <2>1, <2>3, <2>4, ReturnRemoves DEF Removing
    <3> QED
      BY <2>4, <2>7, <3>1 DEF RemovesRight, Removing
  <2> QED
    BY <2>6, <2>7
<1>5. ASSUME ~ works PROVE T!Keep /\ undone'[u] = undone[u] /\ tree' = tree /\ Shrinks
  <2>1. T!Keep
    BY <1>1, <1>5 DEF T!RemoveAct
  <2> QED
    BY <1>2, <2>1, KeepShrinks DEF T!Keep
<1>6. CASE ~ works /\ f.at = "try" /\ T!Stat(f.path) # "missing"
  <2>1. PICK g : g = [op |-> "removeall", at |-> "list", path |-> f.path]
    OBVIOUS
  <2>2. T!Goto(u, g)
    BY <1>1, <1>6, <2>1 DEF T!RemoveAct
  <2>3. g \in T!RemoveFrames /\ g.path = f.path /\ g.at = "list" /\ g.op = "removeall"
    BY <1>3, <2>1, RemoveFramesTypes
  <2>4. Within(g, goal[u].path) /\ Left(tree', g, {}, FALSE)
    BY <2>3 DEF Within, Left
  <2> QED
    BY <1>1, <1>5, <1>6, <2>2, <2>3, <2>4, GotoRight
<1>7. CASE ~ works /\ ~ (f.at = "try" /\ T!Stat(f.path) # "missing")
  <2>1. T!Return(u, "ok")
    BY <1>1, <1>7 DEF T!RemoveAct
  <2>2. T!LeftToRemove(u) => T!Stat(f.path) = "missing"
    BY <1>2, <1>3, <1>7
  <2>3. T!LeftToRemove(u) => f.path \notin DOMAIN tree'
    BY <1>2, <1>5, <1>7, <2>2, StatKinds
  <2> QED
    BY <1>1, <1>5, <1>7, <2>1, <2>3, ReturnRight
<1> QED
  BY <1>4, <1>6, <1>7

LEMMA RemoveListRight ==
  ASSUME T!Shape, NEW u \in Threads, goal[u].path \in Seq(Names), Removing(u), T!RemoveList(u)
  PROVE  RemovesRight(u)
<1>1. PICK f : f = T!Top(u)
  OBVIOUS
<1>2. TreeShape /\ T!Keep /\ undone'[u] = undone[u] /\ tree' = tree
  BY DEF T!RemoveList, T!Keep, T!Shape, TreeShape, T!Names1
<1>3. Shrinks
  BY <1>2, KeepShrinks
<1>4. f \in T!RemoveFrames /\ f.path \in Seq(Names) /\ T!IsPrefix(goal[u].path, f.path)
  BY <1>1, TopRemoves DEF Removing
<1>5. CASE T!Stat(f.path) = "missing"
  <2>1. T!Return(u, "ok") /\ f.path \notin DOMAIN tree'
    BY <1>1, <1>2, <1>5, StatKinds DEF T!RemoveList
  <2> QED
    BY <1>1, <1>2, <1>3, <2>1, ReturnRight
<1>6. CASE T!Stat(f.path) = "file"
  <2>1. T!Return(u, "err")
    BY <1>1, <1>6 DEF T!RemoveList
  <2> QED
    BY <1>2, <1>3, <2>1, ReturnRight
<1>7. CASE T!Stat(f.path) = "dir"
  <2>1. PICK l : l = T!SetToSeq(T!Children(f.path))
    OBVIOUS
  <2>2. PICK g : g = [op |-> "removeall", at |-> "child", path |-> f.path, todo |-> l]
    OBVIOUS
  <2>3. T!Goto(u, g)
    BY <1>1, <1>7, <2>1, <2>2 DEF T!RemoveList
  <2>4. l \in Seq(Seq(Names)) /\ T!Range(l) = T!Children(f.path) /\ T!Children(f.path) \subseteq DOMAIN tree
    BY <1>2, <2>1, ListTypes
  <2>5. g \in T!RemoveFrames /\ g.path = f.path /\ g.at = "child" /\ g.op = "removeall" /\ g.todo = l
    BY <1>4, <2>2, <2>4, RemoveFramesTypes
  <2>6. Within(g, goal[u].path)
    <3> SUFFICES ASSUME NEW c \in T!Children(f.path) PROVE T!IsPrefix(goal[u].path, c)
      BY <2>4, <2>5 DEF Within
    <3>1. c \in Seq(Names)
      BY <1>2, <2>4 DEF TreeShape
    <3>2. T!IsPrefix(f.path, c)
      BY DEF T!Children
    <3> QED
      BY <1>4, <3>1, <3>2, PrefixChain
  <2>7. ChildrenIn(tree', f.path) = T!Children(f.path)
    BY <1>2 DEF ChildrenIn, T!Children
  <2>8. Left(tree', g, {}, FALSE)
    BY <2>4, <2>5, <2>7 DEF Left
  <2> QED
    BY <1>1, <1>2, <1>3, <2>3, <2>5, <2>6, <2>8, GotoRight
<1> QED
  BY <1>2, <1>5, <1>6, <1>7, StatKinds

LEMMA RemoveChildRight ==
  ASSUME T!Shape, NEW u \in Threads, goal[u].path \in Seq(Names), Removing(u), T!RemoveChild(u)
  PROVE  RemovesRight(u)
<1>1. PICK f : f = T!Top(u)
  OBVIOUS
<1>2. TreeShape /\ T!Keep /\ undone'[u] = undone[u] /\ tree' = tree
  BY DEF T!RemoveChild, T!Keep, T!Shape, TreeShape, T!Names1
<1>3. Shrinks
  BY <1>2, KeepShrinks
<1>4. f.op = "removeall" /\ f.at = "child"
  BY <1>1 DEF T!RemoveChild, T!Running
<1>5. /\ f \in T!RemoveFrames /\ f.path \in Seq(Names) /\ Within(f, goal[u].path)
      /\ T!LeftToRemove(u) => ret[u] = "err" \/ T!Children(f.path) \subseteq T!Range(f.todo)
  BY <1>1, <1>4, TopRemoves DEF Removing
<1>6. f \in [op : {"removeall"}, at : {"child"}, path : Seq(Names), todo : Seq(Seq(Names))]
  BY <1>4, <1>5, FrameKinds, FramesAre
<1>7. ChildrenIn(tree', f.path) = T!Children(f.path)
  BY <1>2 DEF ChildrenIn, T!Children
<1>8. CASE ret[u] = "err"
  <2>1. T!Return(u, "err")
    BY <1>8 DEF T!RemoveChild
  <2> QED
    BY <1>2, <1>3, <2>1, ReturnRight
<1>9. CASE ret[u] # "err" /\ f.todo = <<>>
  <2>1. PICK g : g = [op |-> "removeall", at |-> "last", path |-> f.path]
    OBVIOUS
  <2>2. T!Goto(u, g)
    BY <1>1, <1>9, <2>1 DEF T!RemoveChild
  <2>3. g \in T!RemoveFrames /\ g.path = f.path /\ g.at = "last" /\ g.op = "removeall"
    BY <1>5, <2>1, RemoveFramesTypes
  <2>4. T!Range(f.todo) = {}
    BY <1>9 DEF T!Range
  <2>5. Within(g, goal[u].path) /\ (T!LeftToRemove(u) => Left(tree', g, {}, FALSE))
    BY <1>5, <1>7, <1>9, <2>3, <2>4 DEF Within, Left
  <2> QED
    BY <1>1, <1>2, <1>3, <2>2, <2>3, <2>5, GotoRight
<1>10. CASE ret[u] # "err" /\ f.todo # <<>>
  <2>1. PICK l, c : l = Tail(f.todo) /\ c = Head(f.todo)
    OBVIOUS
  <2>2. PICK b, g : b = [f EXCEPT !.todo = l] /\ g = T!RemoveAllOf(c)
    OBVIOUS
  <2>3. T!Call(u, b, g)
    BY <1>1, <1>10, <2>1, <2>2 DEF T!RemoveChild
  <2>4. /\ c \in Seq(Names) /\ l \in Seq(Seq(Names)) /\ T!Range(f.todo) = {c} \cup T!Range(l)
    BY <1>6, <1>10, <2>1, TodoTypes
  <2>5. /\ b \in T!RemoveFrames /\ b.path = f.path /\ b.op = "removeall" /\ b.at = "child" /\ b.todo = l
    BY <1>6, <2>2, <2>4 DEF T!RemoveFrames, T!Names1
  <2>6. g \in T!RemoveFrames /\ g.path = c /\ g.at = "try" /\ g.op = "removeall"
    BY <2>2, <2>4, RemoveFramesTypes DEF T!RemoveAllOf
  <2>7. Within(b, goal[u].path) /\ Within(g, goal[u].path) /\ T!IsPrefix(goal[u].path, g.path)
    BY <1>4, <1>5, <2>4, <2>5, <2>6 DEF Within
  <2>8. T!LeftToRemove(u) => Left(tree', b, {g.path}, FALSE) /\ Left(tree', g, {}, FALSE)
    BY <1>5, <1>7, <1>10, <2>4, <2>5, <2>6 DEF Left
  <2>9. T!RemovesBelow(u)' /\ stack'[u] # <<>> /\ (T!LeftToRemove(u) => T!LeftToRemove(u)')
    BY <1>1, <1>3, <2>3, <2>5, <2>6, <2>7, <2>8, CallRemoves DEF Removing
  <2> QED
    BY <1>2, <2>9 DEF RemovesRight, Removing
<1> QED
  BY <1>8, <1>9, <1>10

LEMMA FailRemovesRight ==
  ASSUME T!Shape, NEW u \in Threads, Removing(u), T!CallFails(u) PROVE RemovesRight(u)
<1>1. PICK f : f = T!Top(u)
  OBVIOUS
<1>2. f \in T!RemoveFrames /\ f.path \in Seq(Names)
  BY <1>1, TopRemoves DEF Removing
<1>3. TreeShape /\ tree' = tree /\ DOMAIN undone = Threads
  BY DEF T!CallFails, T!Shape, TreeShape, T!Names1
<1>4. Shrinks
  BY <1>3, KeepShrinks
<1>5. undone'[u] = (undone[u] \/ f.at \in {"make", "again", "last"})
  BY <1>1, <1>3 DEF T!CallFails
<1>6. f.op # "mkdirall" /\ f.op # "copy"
  BY <1>2 DEF T!RemoveFrames
<1>7. PICK g : g = [op |-> "removeall", at |-> "list", path |-> f.path]
  OBVIOUS
<1>8. T!Goto(u, g) \/ (f.at = "last" /\ T!Return(u, "ok")) \/ T!Return(u, "err")
  BY <1>1, <1>6, <1>7 DEF T!CallFails
<1>9. CASE T!Goto(u, g)
  <2>1. g \in T!RemoveFrames /\ g.path = f.path /\ g.at = "list" /\ g.op = "removeall"
    BY <1>2, <1>7, RemoveFramesTypes
  <2>2. Within(g, goal[u].path) /\ Left(tree', g, {}, FALSE)
    BY <2>1 DEF Within, Left
  <2> QED
    BY <1>1, <1>4, <1>5, <1>9, <2>1, <2>2, GotoRight
<1>10. CASE f.at = "last" /\ T!Return(u, "ok")
  <2>1. undone'[u] /\ (stack'[u] # <<>> => T!RemovesBelow(u)')
    BY <1>5, <1>10, ReturnRemoves DEF Removing
  <2> QED
    BY <2>1 DEF RemovesRight
<1>11. CASE T!Return(u, "err")
  BY <1>4, <1>5, <1>11, ReturnRight
<1> QED
  BY <1>8, <1>9, <1>10, <1>11

LEMMA RemovesKeep ==
  ASSUME T!Shape, NEW u \in Threads, goal[u].path \in Seq(Names), goal[u].op = "removeall", T!AsAsked(u),
         stack[u] # <<>>, goal' = goal, T!Step(u) \/ T!CallFails(u) \/ T!CopyBreaksOff(u)
  PROVE  RemovesRight(u)
<1>1. Removing(u)
  BY DEF Removing, T!AsAsked
<1>2. T!Top(u).op \in {"removeall", "remove"}
  BY <1>1, TopRemoves DEF Removing, T!RemoveFrames
<1>3. ~ T!MkdirAllStat(u) /\ ~ T!MkdirAllParent(u) /\ ~ T!MkdirAllMake(u) /\ ~ T!MkdirAllAgain(u)
  BY <1>2 DEF T!MkdirAllStat, T!MkdirAllParent, T!MkdirAllMake, T!MkdirAllAgain, T!Running
<1>4. /\ ~ T!CopyStat(u) /\ ~ T!CopyFile(u) /\ ~ T!CopyWalk(u) /\ ~ T!CopyEach(u)
      /\ ~ T!CopyBreaksOff(u)
  BY <1>2 DEF T!CopyStat, T!CopyFile, T!CopyWalk, T!CopyEach, T!CopyBreaksOff, T!Running
<1>5. T!RemoveStat(u) \/ T!RemoveAct(u) \/ T!RemoveList(u) \/ T!RemoveChild(u) \/ T!CallFails(u)
  BY <1>3, <1>4 DEF T!Step
<1> QED
  BY <1>1, <1>5, RemoveStatRight, RemoveActRight, RemoveListRight, RemoveChildRight, FailRemovesRight

-----------------------------------------------------------------------------
(* Operations on trees: what a caller that makes keeps *)

\* When a call that makes may go on, in a tree.
Ready(tr, f, answer) ==
  /\ f.at = "parent" /\ answer = "ok" => StatIn(tr, T!DirOf(f.path)) = "dir"
  /\ f.at = "make" => StatIn(tr, T!DirOf(f.path)) = "dir"
  /\ f.at = "again" => StatIn(tr, f.path) # "missing"
InTheWay(tr, p) == \E n \in 1..Len(p) : StatIn(tr, SubSeq(p, 1, n)) = "file"

LEMMA ReadyOf ==
  ASSUME NEW t
  PROVE  T!ReadyToMake(t) <=>
           Ready(tree, T!Last(stack[t]), ret[t]) /\ (ret[t] = "err" => InTheWay(tree, goal[t].path))
BY DEF T!ReadyToMake, T!FileInTheWay, T!Top, T!Stat, Ready, InTheWay, StatIn

LEMMA ReadyOfNext ==
  ASSUME NEW t
  PROVE  T!ReadyToMake(t)' <=>
           Ready(tree', T!Last(stack'[t]), ret'[t]) /\ (ret'[t] = "err" => InTheWay(tree', goal'[t].path))
BY DEF T!ReadyToMake, T!FileInTheWay, T!Top, T!Stat, Ready, InTheWay, StatIn

\* The calls of a caller that makes, one directory each.
MakesAt(f, g, i) == f \in T!MakeFrames /\ i <= Len(g) /\ f.path = SubSeq(g, 1, Len(g) - i + 1)

LEMMA MakesIs ==
  ASSUME NEW t
  PROVE  T!MakesAbove(t) <=>
           \A i \in 1..Len(stack[t]) :
              MakesAt(stack[t][i], goal[t].path, i) /\ (i < Len(stack[t]) => stack[t][i].at = "parent")
BY DEF T!MakesAbove, MakesAt

LEMMA MakesIsNext ==
  ASSUME NEW t
  PROVE  T!MakesAbove(t)' <=>
           \A i \in 1..Len(stack'[t]) :
              MakesAt(stack'[t][i], goal'[t].path, i) /\ (i < Len(stack'[t]) => stack'[t][i].at = "parent")
BY DEF T!MakesAbove, MakesAt

LEMMA LastIs ==
  ASSUME NEW A, NEW s \in Seq(A), s # <<>> PROVE Len(s) \in Nat \ {0} /\ T!Last(s) = s[Len(s)]
BY StackFields

\* The path of the call number i of one that makes g.
PathAt(g, p, i) ==
  /\ g \in Seq(Names) /\ Len(g) \in Nat /\ p \in Seq(Names) \ {<<>>}
  /\ Len(p) = Len(g) - i + 1 /\ Len(p) \in 1..Len(g) /\ p = SubSeq(g, 1, Len(p))
  /\ T!DirOf(p) = SubSeq(g, 1, Len(p) - 1)

LEMMA MakesPath ==
  ASSUME T!Shape, NEW t \in Threads, T!MakesAbove(t), NEW i \in 1..Len(stack[t])
  PROVE  PathAt(goal[t].path, stack[t][i].path, i)
<1>1. goal[t].path \in Seq(Names)
  BY DEF T!Shape, T!Names1
<1>2. Len(goal[t].path) \in Nat
  BY <1>1
<1>3. LET q == stack[t][i].path
      IN  /\ q \in Seq(Names) \ {<<>>} /\ Len(q) = Len(goal[t].path) - i + 1
          /\ Len(q) \in 1..Len(goal[t].path) /\ q = SubSeq(goal[t].path, 1, Len(q))
          /\ T!DirOf(q) = SubSeq(goal[t].path, 1, Len(q) - 1)
  BY <1>1, MakesAlong
<1> QED
  BY <1>1, <1>2, <1>3, Zenon DEF PathAt

LEMMA GotoMakes ==
  ASSUME T!Shape, NEW u \in Threads, stack[u] # <<>>, T!MakesAbove(u), goal' = goal,
         NEW f \in T!MakeFrames, f.path = T!Top(u).path, T!Goto(u, f)
  PROVE  /\ T!MakesAbove(u)' /\ stack'[u] # <<>> /\ ret'[u] = "none"
         /\ Ready(tree', f, "none") => T!ReadyToMake(u)'
<1>1. PICK s : s = stack[u]
  OBVIOUS
<1>2. s \in Seq(T!Frames) /\ s # <<>> /\ u \in DOMAIN stack /\ u \in DOMAIN ret /\ f \in T!Frames
  BY <1>1, FramesAre DEF T!Shape
<1>3. PICK c : c = Append(T!Front(s), f)
  OBVIOUS
<1>4. stack'[u] = c /\ ret'[u] = "none"
  BY <1>1, <1>2, <1>3 DEF T!Goto
<1>5. PICK n : n = Len(s)
  OBVIOUS
<1>6. n \in Nat \ {0} /\ T!Last(s) = s[n]
  BY <1>2, <1>5, LastIs
<1>7. /\ c \in Seq(T!Frames) /\ Len(c) = n /\ \A i \in 1..n - 1 : c[i] = s[i]
      /\ c[n] = f
  BY <1>2, <1>3, <1>5, GotoFields
<1>8. c # <<>> /\ T!Last(c) = f
  <2>1. c # <<>>
    BY <1>6, <1>7
  <2> QED
    BY <1>7, <2>1, LastIs
<1>9. f.path = s[n].path
  BY <1>1, <1>6 DEF T!Top
<1>10. \A i \in 1..n : MakesAt(s[i], goal[u].path, i) /\ (i < n => s[i].at = "parent")
  BY <1>1, <1>5, MakesIs
<1>11. ASSUME NEW i \in 1..n PROVE MakesAt(c[i], goal[u].path, i) /\ (i < n => c[i].at = "parent")
  <2>1. CASE i = n
    <3>1. MakesAt(s[n], goal[u].path, n)
      BY <1>10, <2>1
    <3> QED
      BY <1>7, <1>9, <2>1, <3>1 DEF MakesAt
  <2>2. CASE i # n
    <3>1. i \in 1..n - 1
      BY <1>6, <2>2
    <3> QED
      BY <1>7, <1>10, <3>1
  <2> QED
    BY <2>1, <2>2
<1>12. T!MakesAbove(u)'
  BY <1>4, <1>7, <1>11, MakesIsNext
<1>13. Ready(tree', f, "none") => T!ReadyToMake(u)'
  BY <1>4, <1>8, ReadyOfNext
<1> QED
  BY <1>4, <1>8, <1>12, <1>13

\* MkdirAll calls itself for the directory above.
LEMMA CallMakes ==
  ASSUME T!Shape, NEW u \in Threads, stack[u] # <<>>, T!MakesAbove(u), goal' = goal,
         NEW b \in T!MakeFrames, b.path = T!Top(u).path, b.at = "parent", Len(b.path) > 1,
         NEW f \in T!MakeFrames, f.path = T!DirOf(b.path), f.at = "stat", T!Call(u, b, f)
  PROVE  T!MakesAbove(u)' /\ stack'[u] # <<>> /\ T!ReadyToMake(u)'
<1>1. PICK s : s = stack[u]
  OBVIOUS
<1>2. s \in Seq(T!Frames) /\ s # <<>> /\ u \in DOMAIN stack /\ u \in DOMAIN ret /\ f \in T!Frames /\ b \in T!Frames
  BY <1>1, FramesAre DEF T!Shape
<1>3. PICK c : c = Append(Append(T!Front(s), b), f)
  OBVIOUS
<1>4. stack'[u] = c /\ ret'[u] = "none"
  BY <1>1, <1>2, <1>3 DEF T!Call
<1>5. PICK n : n = Len(s)
  OBVIOUS
<1>6. n \in Nat \ {0} /\ T!Last(s) = s[n]
  BY <1>2, <1>5, LastIs
<1>7. /\ c \in Seq(T!Frames) /\ Len(c) = n + 1 /\ \A i \in 1..n - 1 : c[i] = s[i]
      /\ c[n] = b /\ c[n + 1] = f
  BY <1>2, <1>3, <1>5, CallFields
<1>8. c # <<>> /\ T!Last(c) = f
  <2>1. c # <<>>
    BY <1>6, <1>7
  <2> QED
    BY <1>7, <2>1, LastIs
<1>9. b.path = s[n].path
  BY <1>1, <1>6 DEF T!Top
<1>10. \A i \in 1..n : MakesAt(s[i], goal[u].path, i) /\ (i < n => s[i].at = "parent")
  BY <1>1, <1>5, MakesIs
<1>11. MakesAt(f, goal[u].path, n + 1)
  <2>1. PICK g, p : g = goal[u].path /\ p = s[n].path
    OBVIOUS
  <2>2. n \in 1..Len(stack[u]) /\ p = stack[u][n].path
    BY <1>1, <1>5, <1>6, <2>1
  <2>3. Len(p) = Len(g) - n + 1 /\ T!DirOf(p) = SubSeq(g, 1, Len(p) - 1) /\ Len(g) \in Nat
    <3>1. PathAt(goal[u].path, stack[u][n].path, n)
      BY <2>2, MakesPath
    <3>2. PathAt(g, p, n)
      BY <2>1, <2>2, <3>1
    <3> QED
      BY <3>2 DEF PathAt
  <2>4. Len(p) > 1 /\ n + 1 <= Len(g) /\ Len(p) - 1 = Len(g) - (n + 1) + 1
    <3>1. PICK lp, lg : lp = Len(p) /\ lg = Len(g)
      OBVIOUS
    <3>2. b.path = p
      BY <1>9, <2>1
    <3>3. lp > 1
      BY <3>1, <3>2
    <3>4. n \in Nat /\ lg \in Nat /\ lp = lg - n + 1
      BY <1>6, <2>3, <3>1
    <3>5. n + 1 <= lg /\ lp - 1 = lg - (n + 1) + 1
      BY <3>3, <3>4
    <3> QED
      BY <3>1, <3>3, <3>5
  <2> QED
    BY <1>9, <2>1, <2>3, <2>4 DEF MakesAt
<1>12. ASSUME NEW i \in 1..n + 1 PROVE MakesAt(c[i], goal[u].path, i) /\ (i < n + 1 => c[i].at = "parent")
  <2>1. CASE i = n
    <3>1. MakesAt(s[n], goal[u].path, n)
      BY <1>6, <1>10
    <3> QED
      BY <1>7, <1>9, <2>1, <3>1 DEF MakesAt
  <2>2. CASE i = n + 1
    BY <1>7, <1>11, <2>2
  <2>3. CASE i # n /\ i # n + 1
    <3>1. i \in 1..n - 1 /\ i \in 1..n /\ i < n
      BY <1>6, <2>3
    <3> QED
      BY <1>7, <1>10, <3>1
  <2> QED
    BY <2>1, <2>2, <2>3
<1>13. T!MakesAbove(u)'
  BY <1>4, <1>7, <1>12, MakesIsNext
<1>14. T!ReadyToMake(u)'
  <2>1. Ready(tree', f, "none")
    BY DEF Ready
  <2> QED
    BY <1>4, <1>8, <2>1, ReadyOfNext
<1> QED
  BY <1>4, <1>8, <1>13, <1>14

LEMMA ReturnMakes ==
  ASSUME T!Shape, NEW u \in Threads, stack[u] # <<>>, T!MakesAbove(u), goal' = goal,
         NEW r \in {"ok", "err"}, T!Return(u, r)
  PROVE  /\ ret'[u] = r
         /\ stack'[u] # <<>> => T!MakesAbove(u)'
         /\ /\ stack'[u] # <<>>
            /\ r = "ok" => StatIn(tree', T!Top(u).path) = "dir"
            /\ r = "err" => InTheWay(tree', goal[u].path)
            => T!ReadyToMake(u)'
<1>1. PICK s : s = stack[u]
  OBVIOUS
<1>2. s \in Seq(T!Frames) /\ s # <<>> /\ u \in DOMAIN stack /\ u \in DOMAIN ret
  BY <1>1 DEF T!Shape
<1>3. PICK c : c = T!Front(s)
  OBVIOUS
<1>4. stack'[u] = c /\ ret'[u] = r
  BY <1>1, <1>2, <1>3 DEF T!Return
<1>5. PICK n : n = Len(s)
  OBVIOUS
<1>6. n \in Nat \ {0} /\ T!Last(s) = s[n]
  BY <1>2, <1>5, LastIs
<1>7. /\ c \in Seq(T!Frames) /\ Len(c) = n - 1 /\ \A i \in 1..n - 1 : c[i] = s[i]
      /\ c = <<>> <=> n = 1
  BY <1>2, <1>3, <1>5, StackFields
<1>8. \A i \in 1..n : MakesAt(s[i], goal[u].path, i) /\ (i < n => s[i].at = "parent")
  BY <1>1, <1>5, MakesIs
<1>9. \A i \in 1..n - 1 : MakesAt(c[i], goal[u].path, i) /\ c[i].at = "parent"
  <2>1. \A i \in 1..n - 1 : i \in 1..n /\ i < n
    BY <1>6
  <2> QED
    BY <1>7, <1>8, <2>1
<1>10. T!MakesAbove(u)'
  BY <1>4, <1>7, <1>9, MakesIsNext
<1>11. ASSUME stack'[u] # <<>>,
              r = "ok" => StatIn(tree', T!Top(u).path) = "dir",
              r = "err" => InTheWay(tree', goal[u].path)
       PROVE  T!ReadyToMake(u)'
  <2>1. PICK m : m = n - 1
    OBVIOUS
  <2>2. m \in 1..n - 1 /\ m \in 1..Len(stack[u]) /\ n \in 1..Len(stack[u]) /\ c # <<>> /\ m + 1 = n
    BY <1>1, <1>4, <1>5, <1>6, <1>7, <1>11, <2>1
  <2>3. T!Last(c) = s[m] /\ s[m].at = "parent"
    BY <1>7, <1>9, <2>1, <2>2, LastIs
  <2>4. T!Top(u).path = T!DirOf(s[m].path)
    <3>1. PICK g, p, q : g = goal[u].path /\ p = s[n].path /\ q = s[m].path
      OBVIOUS
    <3>2. p = stack[u][n].path /\ q = stack[u][m].path /\ g = goal[u].path
      BY <1>1, <3>1
    <3>3. n \in 1..Len(stack[u]) /\ m \in 1..Len(stack[u])
      BY <2>2
    <3>4. PathAt(goal[u].path, stack[u][n].path, n) /\ PathAt(goal[u].path, stack[u][m].path, m)
      BY <3>3, MakesPath
    <3>5. PathAt(g, p, n) /\ PathAt(g, q, m)
      BY <3>2, <3>4
    <3>6. Len(p) = Len(g) - n + 1 /\ p = SubSeq(g, 1, Len(p)) /\ Len(g) \in Nat
      BY <3>5 DEF PathAt
    <3>7. Len(q) = Len(g) - m + 1 /\ T!DirOf(q) = SubSeq(g, 1, Len(q) - 1)
      BY <3>5 DEF PathAt
    <3>8. Len(q) - 1 = Len(p)
      BY <1>6, <2>1, <3>6, <3>7
    <3> QED
      BY <1>1, <1>6, <3>1, <3>6, <3>7, <3>8 DEF T!Top
  <2>5. Ready(tree', s[m], r)
    BY <1>11, <2>3, <2>4 DEF Ready
  <2> QED
    BY <1>4, <1>11, <2>3, <2>5, ReadyOfNext
<1> QED
  BY <1>4, <1>10, <1>11

\* What a step of a caller that makes must keep, and what it answers at the end.
MakesRight(u) ==
  /\ stack'[u] # <<>> => T!MakesAbove(u)' /\ (undone'[u] \/ T!ReadyToMake(u)')
  /\ stack'[u] = <<>> /\ ret'[u] = "err" /\ ~ undone'[u] => InTheWay(tree, goal[u].path)

Making(u) ==
  T!MakesAbove(u) /\ (undone[u] \/ T!ReadyToMake(u)) /\ stack[u] # <<>> /\ goal' = goal

LEMMA TopMakes ==
  ASSUME T!Shape, NEW u \in Threads, Making(u), NEW f, f = T!Top(u)
  PROVE  /\ f \in T!MakeFrames /\ f.path \in Seq(Names) \ {<<>>} /\ Len(f.path) \in 1..Len(goal[u].path)
         /\ f.path = SubSeq(goal[u].path, 1, Len(f.path)) /\ T!DirOf(f.path) \in Seq(Names)
         /\ T!ReadyToMake(u) =>
              Ready(tree, f, ret[u]) /\ (ret[u] = "err" => InTheWay(tree, goal[u].path))
<1>1. PICK s, n : s = stack[u] /\ n = Len(s)
  OBVIOUS
<1>2. s \in Seq(T!Frames) /\ s # <<>>
  BY <1>1 DEF T!Shape, Making
<1>3. n \in Nat \ {0} /\ f = s[n] /\ n \in 1..Len(stack[u])
  BY <1>1, <1>2, LastIs DEF T!Top
<1>4. MakesAt(stack[u][n], goal[u].path, n) /\ T!MakesAbove(u)
  BY <1>3, MakesIs DEF Making
<1>5. f \in T!MakeFrames
  BY <1>1, <1>3, <1>4 DEF MakesAt
<1>6. /\ f.path \in Seq(Names) \ {<<>>} /\ Len(f.path) \in 1..Len(goal[u].path)
      /\ f.path = SubSeq(goal[u].path, 1, Len(f.path))
  <2>1. f.path = stack[u][n].path
    BY <1>1, <1>3
  <2>2. PICK g, p : g = goal[u].path /\ p = f.path
    OBVIOUS
  <2>3. p \in Seq(Names) \ {<<>>} /\ Len(p) \in 1..Len(g) /\ p = SubSeq(g, 1, Len(p))
    <3>1. PathAt(goal[u].path, stack[u][n].path, n)
      BY <1>3, <1>4, MakesPath
    <3>2. PathAt(g, p, n)
      BY <2>1, <2>2, <3>1
    <3> QED
      BY <3>2 DEF PathAt
  <2> QED
    BY <2>2, <2>3
<1>7. T!DirOf(f.path) \in Seq(Names)
  BY <1>6, DirOfType
<1>8. T!ReadyToMake(u) =>
        Ready(tree, f, ret[u]) /\ (ret[u] = "err" => InTheWay(tree, goal[u].path))
  BY ReadyOf DEF T!Top
<1> QED
  BY <1>5, <1>6, <1>7, <1>8

LEMMA GotoMakesRight ==
  ASSUME T!Shape, NEW u \in Threads, Making(u),
         NEW f \in T!MakeFrames, f.path = T!Top(u).path, T!Goto(u, f),
         undone'[u] \/ (~ undone[u] /\ (T!ReadyToMake(u) => Ready(tree', f, "none")))
  PROVE  MakesRight(u)
<1>1. T!MakesAbove(u)' /\ stack'[u] # <<>> /\ (Ready(tree', f, "none") => T!ReadyToMake(u)')
  BY GotoMakes DEF Making
<1> QED
  BY <1>1 DEF MakesRight, Making

LEMMA ReturnMakesRight ==
  ASSUME T!Shape, NEW u \in Threads, Making(u),
         NEW r \in {"ok", "err"}, T!Return(u, r),
         undone'[u] \/ (~ undone[u] /\
           (T!ReadyToMake(u) => /\ r = "ok" => StatIn(tree', T!Top(u).path) = "dir"
                                /\ r = "err" => InTheWay(tree, goal[u].path) /\ tree' = tree))
  PROVE  MakesRight(u)
<1>1. /\ ret'[u] = r
      /\ stack'[u] # <<>> => T!MakesAbove(u)'
      /\ /\ stack'[u] # <<>>
         /\ r = "ok" => StatIn(tree', T!Top(u).path) = "dir"
         /\ r = "err" => InTheWay(tree', goal[u].path)
         => T!ReadyToMake(u)'
  BY ReturnMakes DEF Making
<1> QED
  BY <1>1 DEF MakesRight, Making

LEMMA SlowPathRight ==
  ASSUME T!Shape, NEW u \in Threads, Making(u), T!MakeParent(u), undone[u] => undone'[u]
  PROVE  MakesRight(u)
<1>1. PICK f : f = T!Top(u)
  OBVIOUS
<1>2. f \in T!MakeFrames /\ f.path \in Seq(Names) \ {<<>>} /\ T!DirOf(f.path) \in Seq(Names)
  BY <1>1, TopMakes
<1>3. CASE Len(f.path) > 1
  <2>1. PICK b, g : b = [f EXCEPT !.at = "parent"] /\ g = T!MkdirAllOf(T!DirOf(f.path))
    OBVIOUS
  <2>2. T!Call(u, b, g)
    BY <1>1, <1>3, <2>1 DEF T!MakeParent
  <2>3. b \in T!MakeFrames /\ b.path = f.path /\ b.at = "parent"
    BY <1>2, <2>1, MakeFramesTypes
  <2>4. g \in T!MakeFrames /\ g.path = T!DirOf(b.path) /\ g.at = "stat"
    BY <1>2, <2>1, <2>3, MakeFramesTypes DEF T!MkdirAllOf
  <2>5. T!MakesAbove(u)' /\ stack'[u] # <<>> /\ T!ReadyToMake(u)'
    BY <1>1, <1>3, <2>2, <2>3, <2>4, CallMakes DEF Making
  <2> QED
    BY <2>5 DEF MakesRight
<1>4. CASE ~ (Len(f.path) > 1)
  <2>1. PICK g : g = [f EXCEPT !.at = "make"]
    OBVIOUS
  <2>2. T!Goto(u, g)
    BY <1>1, <1>4, <2>1 DEF T!MakeParent
  <2>3. g \in T!MakeFrames /\ g.path = f.path /\ g.at = "make"
    BY <1>2, <2>1, MakeFramesTypes
  <2>4. T!DirOf(f.path) = <<>>
    BY <1>2, <1>4, SubSeqEmpty DEF T!DirOf
  <2>5. Ready(tree', g, "none")
    BY <2>3, <2>4 DEF Ready, StatIn
  <2> QED
    BY <1>1, <2>2, <2>3, <2>5, GotoMakesRight
<1> QED
  BY <1>3, <1>4

LEMMA MakeStatRight ==
  ASSUME T!Shape, NEW u \in Threads, Making(u), T!MkdirAllStat(u) PROVE MakesRight(u)
<1>1. PICK f : f = T!Top(u)
  OBVIOUS
<1>2. TreeShape /\ T!Keep /\ undone'[u] = undone[u] /\ tree' = tree
  BY DEF T!MkdirAllStat, T!Keep, T!Shape, TreeShape, T!Names1
<1>3. /\ f \in T!MakeFrames /\ f.path \in Seq(Names) \ {<<>>} /\ Len(f.path) \in 1..Len(goal[u].path)
      /\ f.path = SubSeq(goal[u].path, 1, Len(f.path)) /\ T!DirOf(f.path) \in Seq(Names)
  BY <1>1, TopMakes
<1>4. StatIn(tree, f.path) = T!Stat(f.path)
  BY DEF StatIn, T!Stat
<1>6. CASE T!Stat(f.path) = "dir"
  <2>1. T!Return(u, "ok")
    BY <1>1, <1>6 DEF T!MkdirAllStat
  <2>2. StatIn(tree', T!Top(u).path) = "dir"
    BY <1>1, <1>2, <1>4, <1>6
  <2> QED
    BY <1>2, <2>1, <2>2, ReturnMakesRight
<1>7. CASE T!Stat(f.path) = "file"
  <2>1. T!Return(u, "err")
    BY <1>1, <1>7 DEF T!MkdirAllStat
  <2>2. InTheWay(tree, goal[u].path)
    BY <1>3, <1>4, <1>7 DEF InTheWay
  <2> QED
    BY <1>2, <2>1, <2>2, ReturnMakesRight
<1>8. CASE T!Stat(f.path) \notin {"dir", "file"}
  <2>1. T!MakeParent(u)
    BY <1>1, <1>8 DEF T!MkdirAllStat
  <2> QED
    BY <1>2, <2>1, SlowPathRight
<1> QED
  BY <1>6, <1>7, <1>8

LEMMA MakeParentRight ==
  ASSUME T!Shape, NEW u \in Threads, Making(u), T!MkdirAllParent(u) PROVE MakesRight(u)
<1>1. PICK f : f = T!Top(u)
  OBVIOUS
<1>2. /\ TreeShape /\ undone'[u] = undone[u] /\ tree' = tree /\ f.at = "parent"
      /\ ret[u] \in {"ok", "err"}
  BY <1>1 DEF T!MkdirAllParent, T!Running, T!Keep, T!Shape, TreeShape, T!Names1
<1>3. /\ f \in T!MakeFrames
      /\ T!ReadyToMake(u) => Ready(tree, f, ret[u]) /\ (ret[u] = "err" => InTheWay(tree, goal[u].path))
  BY <1>1, TopMakes
<1>4. CASE ret[u] = "ok"
  <2>1. PICK g : g = [f EXCEPT !.at = "make"]
    OBVIOUS
  <2>2. T!Goto(u, g)
    BY <1>1, <1>4, <2>1 DEF T!MkdirAllParent
  <2>3. g \in T!MakeFrames /\ g.path = f.path /\ g.at = "make"
    BY <1>3, <2>1, MakeFramesTypes
  <2>4. T!ReadyToMake(u) => Ready(tree', g, "none")
    BY <1>2, <1>3, <1>4, <2>3 DEF Ready
  <2> QED
    BY <1>1, <1>2, <2>2, <2>3, <2>4, GotoMakesRight
<1>5. CASE ret[u] = "err"
  <2>1. T!Return(u, "err")
    BY <1>5 DEF T!MkdirAllParent
  <2> QED
    BY <1>2, <1>3, <1>5, <2>1, ReturnMakesRight
<1> QED
  BY <1>2, <1>4, <1>5

LEMMA MakeMakeRight ==
  ASSUME T!Shape, NEW u \in Threads, Making(u), T!MkdirAllMake(u) PROVE MakesRight(u)
<1>1. PICK f : f = T!Top(u)
  OBVIOUS
<1>2. TreeShape /\ f.at = "make" /\ DOMAIN undone = Threads
  BY <1>1 DEF T!MkdirAllMake, T!Running, T!Shape, TreeShape, T!Names1
<1>3. /\ f \in T!MakeFrames /\ f.path \in Seq(Names) \ {<<>>}
      /\ T!ReadyToMake(u) => Ready(tree, f, ret[u])
  BY <1>1, TopMakes
<1> DEFINE works == T!Stat(f.path) = "missing" /\ T!Stat(T!DirOf(f.path)) = "dir"
<1>4. CASE works
  <2>1. tree' = T!Make(f.path, "dir") /\ T!Interfere(u, f.path, TRUE) /\ T!Return(u, "ok")
    BY <1>1, <1>4 DEF T!MkdirAllMake
  <2>2. Grown(u, f.path, "dir")
    BY <1>3, <1>4, <2>1 DEF Grown, T!Kinds
  <2>3. T!Stat(f.path)' = "dir"
    BY <1>2, <2>2, GrownTree
  <2>4. StatIn(tree', T!Top(u).path) = "dir"
    BY <1>1, <2>3 DEF StatIn, T!Stat
  <2>5. undone'[u] \/ ~ undone[u]
    BY <2>1 DEF T!Interfere
  <2> QED
    BY <2>1, <2>4, <2>5, ReturnMakesRight
<1>5. CASE ~ works
  <2>1. PICK g : g = [f EXCEPT !.at = "again"]
    OBVIOUS
  <2>2. T!Goto(u, g) /\ T!Keep
    BY <1>1, <1>5, <2>1 DEF T!MkdirAllMake
  <2>3. g \in T!MakeFrames /\ g.path = f.path /\ g.at = "again"
    BY <1>3, <2>1, MakeFramesTypes
  <2>4. undone'[u] = undone[u] /\ tree' = tree
    BY <2>2 DEF T!Keep
  <2>5. StatIn(tree, f.path) = T!Stat(f.path) /\ StatIn(tree, T!DirOf(f.path)) = T!Stat(T!DirOf(f.path))
    BY DEF StatIn, T!Stat
  <2>6. T!ReadyToMake(u) => Ready(tree', g, "none")
    BY <1>2, <1>3, <1>5, <2>3, <2>4, <2>5 DEF Ready
  <2> QED
    BY <1>1, <2>2, <2>3, <2>4, <2>6, GotoMakesRight
<1> QED
  BY <1>4, <1>5

LEMMA MakeAgainRight ==
  ASSUME T!Shape, NEW u \in Threads, Making(u), T!MkdirAllAgain(u) PROVE MakesRight(u)
<1>1. PICK f : f = T!Top(u)
  OBVIOUS
<1>2. TreeShape /\ undone'[u] = undone[u] /\ tree' = tree /\ f.at = "again"
  BY <1>1 DEF T!MkdirAllAgain, T!Running, T!Keep, T!Shape, TreeShape, T!Names1
<1>3. /\ f.path \in Seq(Names) \ {<<>>} /\ Len(f.path) \in 1..Len(goal[u].path)
      /\ f.path = SubSeq(goal[u].path, 1, Len(f.path))
      /\ T!ReadyToMake(u) => Ready(tree, f, ret[u])
  BY <1>1, TopMakes
<1>4. StatIn(tree, f.path) = T!Stat(f.path) /\ T!Stat(f.path) \in {"dir", "file", "missing"}
  BY <1>2, StatKinds DEF StatIn, T!Stat
<1>5. CASE T!Stat(f.path) = "dir"
  <2>1. T!Return(u, "ok")
    BY <1>1, <1>5 DEF T!MkdirAllAgain
  <2>2. StatIn(tree', T!Top(u).path) = "dir"
    BY <1>1, <1>2, <1>4, <1>5
  <2> QED
    BY <1>2, <2>1, <2>2, ReturnMakesRight
<1>6. CASE T!Stat(f.path) # "dir"
  <2>1. T!Return(u, "err")
    BY <1>1, <1>6 DEF T!MkdirAllAgain
  <2>2. T!ReadyToMake(u) => T!Stat(f.path) = "file"
    BY <1>2, <1>3, <1>4, <1>6 DEF Ready
  <2>3. T!Stat(f.path) = "file" => InTheWay(tree, goal[u].path)
    BY <1>3, <1>4 DEF InTheWay
  <2> QED
    BY <1>2, <2>1, <2>2, <2>3, ReturnMakesRight
<1> QED
  BY <1>5, <1>6

LEMMA FailMakesRight ==
  ASSUME T!Shape, NEW u \in Threads, Making(u), T!CallFails(u) PROVE MakesRight(u)
<1>1. PICK f : f = T!Top(u)
  OBVIOUS
<1>2. f \in T!MakeFrames /\ f.op = "mkdirall"
  BY <1>1, TopMakes DEF T!MakeFrames
<1>3. undone'[u] = (undone[u] \/ f.at \in {"make", "again", "last"})
  BY <1>1 DEF T!CallFails, T!Shape
<1>4. PICK g : g = [f EXCEPT !.at = "again"]
  OBVIOUS
<1>5. \/ T!MakeParent(u)
      \/ f.at = "make" /\ T!Goto(u, g)
      \/ f.at = "again" /\ T!Return(u, "err")
  BY <1>1, <1>2, <1>4 DEF T!CallFails
<1>6. CASE T!MakeParent(u)
  BY <1>3, <1>6, SlowPathRight
<1>7. CASE f.at = "make" /\ T!Goto(u, g)
  <2>1. g \in T!MakeFrames /\ g.path = f.path
    BY <1>2, <1>4, MakeFramesTypes
  <2> QED
    BY <1>1, <1>3, <1>7, <2>1, GotoMakesRight
<1>8. CASE f.at = "again" /\ T!Return(u, "err")
  BY <1>3, <1>8, ReturnMakesRight
<1> QED
  BY <1>5, <1>6, <1>7, <1>8

LEMMA MakesKeep ==
  ASSUME T!Shape, NEW u \in Threads, goal[u].op = "mkdirall", T!AsAsked(u),
         stack[u] # <<>>, goal' = goal, T!Step(u) \/ T!CallFails(u) \/ T!CopyBreaksOff(u)
  PROVE  MakesRight(u)
<1>1. Making(u)
  BY DEF Making, T!AsAsked
<1>2. T!Top(u).op = "mkdirall"
  BY <1>1, TopMakes DEF T!MakeFrames
<1>3. ~ T!RemoveStat(u) /\ ~ T!RemoveAct(u) /\ ~ T!RemoveList(u) /\ ~ T!RemoveChild(u)
  BY <1>2 DEF T!RemoveStat, T!RemoveAct, T!RemoveList, T!RemoveChild, T!Running
<1>4. /\ ~ T!CopyStat(u) /\ ~ T!CopyFile(u) /\ ~ T!CopyWalk(u) /\ ~ T!CopyEach(u)
      /\ ~ T!CopyBreaksOff(u)
  BY <1>2 DEF T!CopyStat, T!CopyFile, T!CopyWalk, T!CopyEach, T!CopyBreaksOff, T!Running
<1>5. \/ T!MkdirAllStat(u) \/ T!MkdirAllParent(u) \/ T!MkdirAllMake(u) \/ T!MkdirAllAgain(u)
      \/ T!CallFails(u)
  BY <1>3, <1>4 DEF T!Step
<1> QED
  BY <1>1, <1>5, MakeStatRight, MakeParentRight, MakeMakeRight, MakeAgainRight, FailMakesRight

-----------------------------------------------------------------------------
(* Operations on trees: the invariant *)

LEMMA TreeInitial == ASSUME DepthAssumption, T!Init PROVE T!TreeInv
<1>1. T!Paths \subseteq Seq(Names) \ {<<>>}
  BY PathsAreSeqs
<1>2. PICK D \in SUBSET T!Paths : T!IsFiniteSet(D) /\ tree \in [D -> {"dir", "file"}]
  BY DEF T!Init
<1>3. /\ DOMAIN tree \subseteq Seq(Names) \ {<<>>} /\ T!IsFiniteSet(DOMAIN tree)
      /\ \A p \in DOMAIN tree : tree[p] \in T!Kinds
  BY <1>1, <1>2 DEF T!Kinds
<1>4. /\ \A t \in Threads : stack[t] = <<>> /\ ret[t] = "none" /\ goal[t].path = <<>>
      /\ DOMAIN stack = Threads /\ DOMAIN ret = Threads /\ DOMAIN goal = Threads /\ DOMAIN undone = Threads
      /\ stack = [t \in Threads |-> <<>>] /\ ret = [t \in Threads |-> "none"]
  BY DEF T!Init
<1>5. <<>> \in Seq(T!Frames) /\ <<>> \in Seq(Names)
  OBVIOUS
<1>6. stack \in [Threads -> Seq(T!Frames)] /\ ret \in [Threads -> {"none", "ok", "err"}]
  BY <1>4, <1>5
<1>7. T!Shape
  BY <1>3, <1>4, <1>5, <1>6 DEF T!Shape, T!Names1
<1> QED
  BY <1>4, <1>7 DEF T!TreeInv, T!AsAsked

\* A caller that is asked for something has one call to make.
LEMMA OneCall ==
  ASSUME NEW f
  PROVE  /\ <<f>> # <<>> /\ Len(<<f>>) = 1 /\ <<f>>[1] = f /\ T!Last(<<f>>) = f
         /\ \A i \in 1..Len(<<f>>) : i = 1
BY DEF T!Last

LEMMA WholePath ==
  ASSUME NEW p \in Seq(Names) \ {<<>>}
  PROVE  Len(p) >= 1 /\ SubSeq(p, 1, Len(p) - 1 + 1) = p /\ T!IsPrefix(p, p)
<1>1. Len(p) \in Nat \ {0}
  OBVIOUS
<1>2. Len(p) - 1 + 1 = Len(p)
  BY <1>1
<1>3. SubSeq(p, 1, Len(p)) = p
  <2>1. PICK q : q = SubSeq(p, 1, Len(p))
    OBVIOUS
  <2>2. q \in Seq(Names) /\ Len(q) = Len(p) /\ \A i \in 1..Len(p) : q[i] = p[i]
    BY <2>1
  <2>3. q = p
    BY <2>2, SeqEqual
  <2> QED
    BY <2>1, <2>3
<1>4. T!IsPrefix(p, p)
  BY PrefixMeans
<1> QED
  BY <1>1, <1>2, <1>3, <1>4

LEMMA Untouched ==
  ASSUME TreeShape, NEW t \in Threads, T!AsAsked(t), stack[t] \in Seq(T!Frames), goal[t].path \in Seq(Names),
         tree' = tree, stack'[t] = stack[t], ret'[t] = ret[t], goal'[t] = goal[t], undone'[t] = undone[t]
  PROVE  T!AsAsked(t)'
<1>1. \A q : T!Stat(q)' = T!Stat(q) /\ T!Children(q)' = T!Children(q)
  BY DEF T!Stat, T!Children
<1>2. T!RemovesBelow(t)' <=> T!RemovesBelow(t)
  BY DEF T!RemovesBelow
<1>3. T!MakesAbove(t)' <=> T!MakesAbove(t)
  BY DEF T!MakesAbove
<1>4. T!RemovesBelow(t) /\ T!LeftToRemove(t) => T!LeftToRemove(t)'
  BY <1>1, LeftStays
<1>5. stack[t] # <<>> /\ T!MakesAbove(t) /\ T!ReadyToMake(t) => T!ReadyToMake(t)'
  BY <1>1, ReadyStays
<1> QED
  BY <1>2, <1>3, <1>4, <1>5 DEF T!AsAsked

LEMMA AsksKeep ==
  ASSUME T!TreeInv, NEW u \in Threads, NEW g, NEW f \in T!Frames, g.path \in Seq(Names) \ {<<>>}, T!Asks(u, g, f),
         g.op = "removeall" => f \in T!RemoveFrames /\ f.path = g.path /\ f.at = "try" /\ f.op = "removeall",
         g.op = "mkdirall" => f \in T!MakeFrames /\ f.path = g.path /\ f.at = "stat"
  PROVE  T!TreeInv' /\ stack'[u] # <<>> /\ \A t \in Threads \ {u} : stack'[t] = stack[t]
<1>1. /\ stack \in [Threads -> Seq(T!Frames)] /\ ret \in [Threads -> {"none", "ok", "err"}]
      /\ DOMAIN goal = Threads /\ DOMAIN undone = Threads /\ \A t \in Threads : goal[t].path \in Seq(Names)
      /\ TreeShape
  BY DEF T!TreeInv, T!Shape, TreeShape, T!Names1
<1>2. /\ stack' = [stack EXCEPT ![u] = <<f>>] /\ ret' = [ret EXCEPT ![u] = "none"]
      /\ goal' = [goal EXCEPT ![u] = g] /\ undone' = [undone EXCEPT ![u] = FALSE] /\ tree' = tree
  BY DEF T!Asks
<1>3. /\ stack'[u] = <<f>> /\ ret'[u] = "none" /\ goal'[u] = g
      /\ \A t \in Threads \ {u} :
            stack'[t] = stack[t] /\ ret'[t] = ret[t] /\ goal'[t] = goal[t] /\ undone'[t] = undone[t]
  BY <1>1, <1>2
<1>4. stack' \in [Threads -> Seq(T!Frames)] /\ ret' \in [Threads -> {"none", "ok", "err"}]
      /\ DOMAIN goal' = Threads /\ DOMAIN undone' = Threads /\ \A t \in Threads : goal'[t].path \in Seq(Names)
  <2>1. <<f>> \in Seq(T!Frames)
    OBVIOUS
  <2>2. stack' \in [Threads -> Seq(T!Frames)]
    BY <1>1, <1>2, <2>1
  <2>3. ret' \in [Threads -> {"none", "ok", "err"}]
    BY <1>1, <1>2
  <2>4. DOMAIN goal' = Threads /\ DOMAIN undone' = Threads
    BY <1>1, <1>2
  <2>5. \A t \in Threads : goal'[t].path \in Seq(Names)
    BY <1>1, <1>3
  <2> QED
    BY <2>2, <2>3, <2>4, <2>5
<1>5. T!Shape'
  BY <1>1, <1>2, <1>4 DEF T!Shape, TreeShape, T!Names1
<1>6. ASSUME NEW t \in Threads, t # u PROVE T!AsAsked(t)'
  <2>1. T!AsAsked(t) /\ stack[t] \in Seq(T!Frames) /\ goal[t].path \in Seq(Names)
    BY <1>1 DEF T!TreeInv
  <2>2. stack'[t] = stack[t] /\ ret'[t] = ret[t] /\ goal'[t] = goal[t] /\ undone'[t] = undone[t]
    BY <1>3, <1>6
  <2> QED
    BY <1>1, <1>2, <2>1, <2>2, Untouched
<1>7. T!AsAsked(u)'
  <2>2. CASE g.op = "removeall"
    <3>1. T!RemovesBelow(u)'
      BY <1>3, <2>2, OneCall, WholePath DEF T!RemovesBelow
    <3>2. T!LeftToRemove(u)'
      <4>1. \A i \in 1..Len(stack'[u]) : stack'[u][i].at = "try" /\ stack'[u][i].op = "removeall"
        BY <1>3, <2>2, OneCall
      <4>2. \A i \in 1..Len(stack'[u]) :
               Left(tree', stack'[u][i], IF i < Len(stack'[u]) THEN {stack'[u][i + 1].path} ELSE {},
                    i = Len(stack'[u]) /\ ret'[u] = "err")
        BY <4>1 DEF Left
      <4> QED
        BY <4>2, LeftOfNext
    <3> QED
      BY <1>3, <2>2, <3>1, <3>2 DEF T!AsAsked
  <2>3. CASE g.op = "mkdirall"
    <3>1. \A i \in 1..Len(stack'[u]) :
             MakesAt(stack'[u][i], goal'[u].path, i) /\ (i < Len(stack'[u]) => stack'[u][i].at = "parent")
      BY <1>3, <2>3, OneCall, WholePath DEF MakesAt
    <3>2. T!MakesAbove(u)'
      BY <3>1, MakesIsNext
    <3>3. Ready(tree', f, "none")
      BY <2>3 DEF Ready
    <3>4. T!ReadyToMake(u)'
      BY <1>3, <3>3, OneCall, ReadyOfNext
    <3> QED
      BY <1>3, <2>3, <3>2, <3>4 DEF T!AsAsked
  <2>4. CASE g.op # "removeall" /\ g.op # "mkdirall"
    BY <1>3, <2>4 DEF T!AsAsked
  <2> QED
    BY <2>2, <2>3, <2>4
<1>8. stack'[u] # <<>>
  BY <1>3, OneCall
<1> QED
  BY <1>3, <1>5, <1>6, <1>7, <1>8 DEF T!TreeInv

LEMMA AskKeeps ==
  ASSUME DepthAssumption, T!TreeInv, NEW u \in Threads, T!Ask(u)
  PROVE  T!TreeInv' /\ stack'[u] # <<>> /\ \A t \in Threads \ {u} : stack'[t] = stack[t]
<1>1. PICK p \in T!Paths :
        \/ T!Asks(u, [op |-> "mkdirall", path |-> p], T!MkdirAllOf(p))
        \/ T!Asks(u, [op |-> "removeall", path |-> p], T!RemoveAllOf(p))
        \/ \E q \in T!Paths : T!Asks(u, [op |-> "copy", path |-> p, to |-> q], T!CopyOf(p, q))
  BY DEF T!Ask
<1>2. p \in Seq(Names) \ {<<>>}
  BY PathsAreSeqs
<1>3. CASE T!Asks(u, [op |-> "mkdirall", path |-> p], T!MkdirAllOf(p))
  <2>1. PICK g, f : g = [op |-> "mkdirall", path |-> p] /\ f = T!MkdirAllOf(p)
    OBVIOUS
  <2>2. f \in T!MakeFrames /\ f \in T!Frames
    BY <1>2, <2>1, MakeFramesTypes, FramesAre
  <2>3. f.path = p /\ f.at = "stat" /\ g.op = "mkdirall" /\ g.path = p
    BY <2>1 DEF T!MkdirAllOf
  <2> QED
    BY <1>2, <1>3, <2>1, <2>2, <2>3, AsksKeep
<1>4. CASE T!Asks(u, [op |-> "removeall", path |-> p], T!RemoveAllOf(p))
  <2>1. PICK g, f : g = [op |-> "removeall", path |-> p] /\ f = T!RemoveAllOf(p)
    OBVIOUS
  <2>2. f \in T!RemoveFrames /\ f \in T!Frames
    BY <1>2, <2>1, RemoveFramesTypes, FramesAre
  <2>3. f.path = p /\ f.at = "try" /\ f.op = "removeall" /\ g.op = "removeall" /\ g.path = p
    BY <2>1 DEF T!RemoveAllOf
  <2> QED
    BY <1>2, <1>4, <2>1, <2>2, <2>3, AsksKeep
<1>5. CASE \E q \in T!Paths : T!Asks(u, [op |-> "copy", path |-> p, to |-> q], T!CopyOf(p, q))
  <2>1. PICK q \in T!Paths : T!Asks(u, [op |-> "copy", path |-> p, to |-> q], T!CopyOf(p, q))
    BY <1>5
  <2>2. PICK g, f : g = [op |-> "copy", path |-> p, to |-> q] /\ f = T!CopyOf(p, q)
    OBVIOUS
  <2>3. q \in Seq(Names) \ {<<>>}
    BY PathsAreSeqs
  <2>4. f \in T!Frames
    BY <1>2, <2>2, <2>3, CopyFramesTypes, FramesAre
  <2>5. g.op = "copy" /\ g.path = p
    BY <2>2
  <2> QED
    BY <1>2, <2>1, <2>2, <2>4, <2>5, AsksKeep
<1> QED
  BY <1>1, <1>3, <1>4, <1>5

LEMMA StepMoves ==
  ASSUME T!Shape, NEW u \in Threads, T!Step(u) \/ T!CallFails(u) \/ T!CopyBreaksOff(u)
  PROVE  Moves(u) /\ Changes(u)
BY MkdirMoves, RemoveMoves, CopyMoves, FailMoves, BreakMoves DEF T!Step

LEMMA StepShape ==
  ASSUME T!Shape, NEW u \in Threads, Moves(u), Changes(u)
  PROVE  T!Shape'
<1>1. TreeShape /\ DOMAIN undone = Threads
  BY DEF T!Shape, TreeShape, T!Names1
<1>2. TreeShape' /\ DOMAIN undone' = Threads
  <2>1. CASE T!Keep \/ CallFailed(u)
    <3>1. tree' = tree
      BY <2>1 DEF T!Keep, CallFailed
    <3>2. TreeShape'
      BY <1>1, <3>1 DEF TreeShape
    <3> QED
      BY <1>1, <2>1, <3>2 DEF T!Keep, CallFailed
  <2>2. ASSUME NEW p, NEW kind, Grown(u, p, kind) PROVE TreeShape' /\ DOMAIN undone' = Threads
    <3>1. TreeShape'
      BY <1>1, <2>2, GrownTree
    <3> QED
      BY <2>2, <3>1 DEF Grown, T!Interfere
  <2>3. ASSUME NEW p, Shrunk(u, p) PROVE TreeShape' /\ DOMAIN undone' = Threads
    <3>1. TreeShape'
      BY <1>1, <2>3, ShrunkTree
    <3> QED
      BY <2>3, <3>1 DEF Shrunk, T!Interfere
  <2> QED
    BY <2>1, <2>2, <2>3 DEF Changes
<1>3. stack' \in [Threads -> Seq(T!Frames)] /\ ret' \in [Threads -> {"none", "ok", "err"}]
  BY MoveTypes
<1>4. goal' = goal
  BY DEF Moves
<1> QED
  BY <1>2, <1>3, <1>4 DEF T!Shape, TreeShape, T!Names1

\* What every answer means.
Truthful(t) ==
  /\ T!Answers(t, "removeall", "ok") => goal[t].path \notin DOMAIN tree'
  /\ T!Answers(t, "mkdirall", "err") =>
       \E n \in 1..Len(goal[t].path) : T!Stat(SubSeq(goal[t].path, 1, n)) = "file"

LEMMA StepKeeps ==
  ASSUME T!TreeInv, NEW u \in Threads, T!Step(u) \/ T!CallFails(u) \/ T!CopyBreaksOff(u)
  PROVE  T!TreeInv' /\ Truthful(u) /\ \A t \in Threads \ {u} : stack'[t] = stack[t]
<1>1. T!Shape /\ Moves(u) /\ Changes(u) /\ T!AsAsked(u)
  BY StepMoves DEF T!TreeInv
<1>2. stack[u] # <<>> /\ goal' = goal
  BY <1>1 DEF Moves
<1>3. /\ TreeShape /\ DOMAIN undone = Threads
      /\ \A t \in Threads : stack[t] \in Seq(T!Frames) /\ goal[t].path \in Seq(Names)
  BY <1>1 DEF T!Shape, TreeShape, T!Names1
<1>4. \A t \in Threads \ {u} : stack'[t] = stack[t] /\ ret'[t] = ret[t]
  BY <1>1, MoveTypes
<1>5. T!Shape'
  BY <1>1, StepShape
<1>6. ASSUME NEW t \in Threads, t # u PROVE T!AsAsked(t)'
  BY <1>1, <1>2, <1>3, <1>4, <1>6, OthersKeep DEF T!TreeInv
<1>7. goal[u].op = "removeall" => RemovesRight(u)
  BY <1>1, <1>2, <1>3, RemovesKeep
<1>8. goal[u].op = "mkdirall" => MakesRight(u)
  BY <1>1, <1>2, MakesKeep
<1>9. T!AsAsked(u)'
  BY <1>2, <1>7, <1>8 DEF T!AsAsked, RemovesRight, MakesRight
<1>10. Truthful(u)
  <2>1. InTheWay(tree, goal[u].path) =>
          \E n \in 1..Len(goal[u].path) : T!Stat(SubSeq(goal[u].path, 1, n)) = "file"
    BY DEF InTheWay, StatIn, T!Stat
  <2> QED
    BY <1>7, <1>8, <2>1 DEF Truthful, T!Answers, RemovesRight, MakesRight
<1> QED
  BY <1>4, <1>5, <1>6, <1>9, <1>10 DEF T!TreeInv

LEMMA NextKeeps ==
  ASSUME DepthAssumption, T!TreeInv, T!Next
  PROVE  T!TreeInv' /\ \A t \in Threads : Truthful(t)
<1>1. PICK u \in Threads : T!Ask(u) \/ T!Step(u) \/ T!CallFails(u) \/ T!CopyBreaksOff(u)
  BY DEF T!Next
<1>2. ASSUME NEW t \in Threads, stack'[t] = stack[t] PROVE Truthful(t)
  BY <1>2 DEF Truthful, T!Answers
<1>3. CASE T!Ask(u)
  <2>1. T!TreeInv' /\ stack'[u] # <<>> /\ \A t \in Threads \ {u} : stack'[t] = stack[t]
    BY <1>3, AskKeeps
  <2>2. Truthful(u)
    BY <2>1 DEF Truthful, T!Answers
  <2> QED
    BY <1>2, <2>1, <2>2
<1>4. CASE T!Step(u) \/ T!CallFails(u) \/ T!CopyBreaksOff(u)
  <2>1. T!TreeInv' /\ Truthful(u) /\ \A t \in Threads \ {u} : stack'[t] = stack[t]
    BY <1>4, StepKeeps
  <2> QED
    BY <1>2, <2>1
<1> QED
  BY <1>1, <1>3, <1>4

LEMMA StillTree ==
  ASSUME T!TreeInv, UNCHANGED <<tree, stack, ret, goal, undone>>
  PROVE  T!TreeInv' /\ \A t \in Threads : Truthful(t)
<1>1. T!TreeInv'
  <2>1. /\ TreeShape
        /\ \A t \in Threads : stack[t] \in Seq(T!Frames) /\ goal[t].path \in Seq(Names) /\ T!AsAsked(t)
    BY DEF T!TreeInv, T!Shape, TreeShape, T!Names1
  <2>2. \A t \in Threads : T!AsAsked(t)'
    BY <2>1, Untouched
  <2>3. T!Shape'
    BY DEF T!TreeInv, T!Shape
  <2> QED
    BY <2>2, <2>3 DEF T!TreeInv
<1>2. \A t \in Threads : Truthful(t)
  BY DEF Truthful, T!Answers
<1> QED
  BY <1>1, <1>2

TreeRight == which = "tree" => T!TreeInv
AnswersNow == which = "tree" => \A t \in Threads : Truthful(t)

\* For any callers, names, depth and trees: RemoveAll() that answers without an error has removed
\* its path, whichever calls failed, unless the last Remove of a directory was among them, whose
\* error the code drops; and MkdirAll() that answers with one has a file in its way, unless a
\* Mkdir or the Stat after it failed.  What another caller made below the one path or removed
\* on the other meanwhile is excepted (pfs_client.go:159-221, 269-297).
THEOREM AnswersStayTrue == Spec => AnswersAreTrue
<1>1. Init => TreeRight
  <2> SUFFICES ASSUME Init, which = "tree" PROVE T!TreeInv
    BY DEF TreeRight
  <2>1. T!Init
    BY DEF Init
  <2> QED
    BY <2>1, TreeInitial, DepthAssumption
<1>2. TreeRight /\ [Next]_all => TreeRight' /\ AnswersNow
  <2> SUFFICES ASSUME TreeRight, [Next]_all, which = "tree"
               PROVE  T!TreeInv' /\ \A t \in Threads : Truthful(t)
    <3>1. [Next]_all => which' = which
      BY DEF Next, all
    <3> QED
      BY <3>1 DEF TreeRight, AnswersNow
  <2>1. CASE Next
    <3>1. T!Next
      BY <2>1 DEF Next
    <3> QED
      BY <3>1, NextKeeps, DepthAssumption DEF TreeRight
  <2>2. CASE UNCHANGED all
    BY <2>2, StillTree DEF all, TreeRight
  <2> QED
    BY <2>1, <2>2
<1>3. Spec => [][AnswersNow]_all
  BY <1>1, <1>2, PTL DEF Spec
<1>4. AnswersNow =>
        (which = "tree" =>
           \A t \in Threads :
             /\ T!Answers(t, "removeall", "ok") => goal[t].path \notin DOMAIN tree'
             /\ T!Answers(t, "mkdirall", "err") =>
                  \E n \in 1..Len(goal[t].path) : T!Stat(SubSeq(goal[t].path, 1, n)) = "file")
  BY DEF AnswersNow, Truthful
<1> QED
  BY <1>3, <1>4, PTL DEF AnswersAreTrue
=============================================================================
