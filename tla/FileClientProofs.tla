-------------------------- MODULE FileClientProofs --------------------------
(***************************************************************************)
(* Proofs about the client of a file system, for any names, links, nodes   *)
(* and handles: ClientInv of FileClient is inductive, and what the kernel  *)
(* and a program see agrees with what the storages hold.  A path is        *)
(* followed up the table by induction on the node, whose parent comes      *)
(* before it; an operation is shown to keep the table sound against any    *)
(* storages, and then to be such an operation.                             *)
(***************************************************************************)
EXTENDS MCFileSystems, FiniteSetTheorems, SequenceTheorems, WellFoundedInduction, TLAPS

-----------------------------------------------------------------------------
(* Numbers, sequences and prefixes *)

\* The least member of a set of numbers; what is said of every node or depth is shown by it.
LEMMA LeastOfSet ==
  ASSUME NEW xs \in SUBSET Nat, xs # {} PROVE \E x \in xs : \A y \in xs : x <= y
<1> DEFINE W == {ss \in Nat \X Nat : ss[1] < ss[2]}
<1>1. IsWellFoundedOn(W, Nat)
  BY NatLessThanWellFounded DEF OpToRel
<1>2. PICK x \in xs : \A y \in xs : ~ (<<y, x>> \in W)
  BY <1>1, WFMin
<1>3. \A y \in xs : x <= y
  <2> SUFFICES ASSUME NEW y \in xs PROVE x <= y
    OBVIOUS
  <2>1. y \in Nat /\ x \in Nat /\ <<y, x>>[1] = y /\ <<y, x>>[2] = x
    OBVIOUS
  <2>2. <<y, x>> \in Nat \X Nat /\ ~ (<<y, x>>[1] < <<y, x>>[2])
    BY <1>2, <2>1
  <2> QED
    BY <2>1, <2>2
<1> QED
  BY <1>3

\* The parents of a table's nodes come before them.
Climbs(ns) ==
  /\ ns \in Seq(F!Nodes) /\ ns # <<>> /\ ns[1].parent = 0
  /\ \A i \in 1..Len(ns) : ns[i].parent < i /\ (i # 1 => ns[i].name \in Names)

Climb(ns, g, i) == IF ns[i].parent = 0 THEN <<>> ELSE Append(g[ns[i].parent], ns[i].name)

\* What a node is.
LEMMA NodeFields ==
  ASSUME NEW ns \in Seq(F!Nodes), NEW i \in 1..Len(ns)
  PROVE  /\ ns[i] \in F!Nodes /\ ns[i].parent \in Nat /\ ns[i].name \in Names \cup {""}
         /\ ns[i].dir \in BOOLEAN /\ ns[i].folder \in BOOLEAN /\ ns[i].child \in [Names -> Nat]
<1>1. ns[i] \in F!Nodes
  OBVIOUS
<1> QED
  BY <1>1 DEF F!Nodes

\* There is a function that gives every node the path to it.
LEMMA ClimbExists ==
  ASSUME NEW ns, Climbs(ns)
  PROVE  \E g : g = [i \in DOMAIN ns |-> Climb(ns, g, i)]
<1> DEFINE Upto(m) == \E g : g = [i \in 1..m |-> Climb(ns, g, i)]
           Bad == {m \in 0..Len(ns) : ~Upto(m)}
<1>1. ns \in Seq(F!Nodes) /\ Len(ns) \in Nat /\ DOMAIN ns = 1..Len(ns)
  BY DEF Climbs
<1>2. ASSUME Bad # {} PROVE FALSE
  <2>1. Bad \in SUBSET Nat
    BY <1>1
  <2>2. PICK m \in Bad : \A y \in Bad : m <= y
    BY <1>2, <2>1, LeastOfSet
  <2>3. m # 0
    <3>1. <<>> = [i \in 1..0 |-> Climb(ns, <<>>, i)]
      OBVIOUS
    <3>2. Upto(0)
      BY <3>1
    <3> QED
      BY <2>2, <3>2
  <2>4. m - 1 \in 0..Len(ns) /\ ~(m <= m - 1) /\ m \in 1..Len(ns)
    BY <1>1, <2>2, <2>3
  <2>5. Upto(m - 1)
    BY <2>2, <2>4
  <2>6. PICK g : g = [i \in 1..m - 1 |-> Climb(ns, g, i)]
    BY <2>5
  <2> DEFINE h == [i \in 1..m |-> IF i = m THEN Climb(ns, g, m) ELSE g[i]]
  <2>7. \A i \in 1..m : Climb(ns, h, i) = Climb(ns, g, i)
    <3> SUFFICES ASSUME NEW i \in 1..m PROVE Climb(ns, h, i) = Climb(ns, g, i)
      OBVIOUS
    <3>1. i \in 1..Len(ns)
      BY <2>4, <1>1
    <3>2. ns[i].parent \in Nat /\ ns[i].parent < i
      BY <1>1, <3>1, NodeFields DEF Climbs
    <3>3. PICK p : p = ns[i].parent
      OBVIOUS
    <3>4. p # 0 => p \in 1..m /\ p # m
      BY <2>4, <3>2, <3>3, <1>1
    <3>5. p # 0 => h[p] = g[p]
      BY <3>4
    <3> HIDE DEF h
    <3> QED
      BY <3>3, <3>5 DEF Climb
  <2>8. \A i \in 1..m - 1 : i \in 1..m /\ i # m /\ g[i] = Climb(ns, g, i)
    <3>1. \A i \in 1..m - 1 : i \in 1..m /\ i # m
      BY <2>4, <1>1
    <3>2. \A i \in 1..m - 1 : g[i] = Climb(ns, g, i)
      BY <2>6
    <3> QED
      BY <3>1, <3>2
  <2>9. \A i \in 1..m : h[i] = Climb(ns, h, i)
    <3>1. \A i \in 1..m : i = m \/ i \in 1..m - 1
      BY <2>4, <1>1
    <3> QED
      BY <3>1, <2>7, <2>8
  <2>10. h = [i \in 1..m |-> Climb(ns, h, i)]
    <3> HIDE DEF h
    <3>1. h = [i \in 1..m |-> h[i]]
      BY DEF h
    <3> QED
      BY <2>9, <3>1
  <2>11. Upto(m)
    BY <2>10
  <2> QED
    BY <2>2, <2>11
<1>3. Upto(Len(ns))
  BY <1>1, <1>2
<1> QED
  BY <1>1, <1>3

\* The path of a node is that of its parent and its name.
LEMMA PathUnfolds ==
  ASSUME NEW ns, Climbs(ns), NEW i \in 1..Len(ns)
  PROVE  F!InodeToPath(ns, i) =
           IF ns[i].parent = 0 THEN <<>> ELSE Append(F!InodeToPath(ns, ns[i].parent), ns[i].name)
<1> DEFINE path == CHOOSE g : g = [n \in DOMAIN ns |-> Climb(ns, g, n)]
<1>1. path = [n \in DOMAIN ns |-> Climb(ns, path, n)]
  BY ClimbExists
<1>2. \A n : F!InodeToPath(ns, n) = path[n]
  BY DEF F!InodeToPath, Climb
<1>3. i \in DOMAIN ns
  BY DEF Climbs
<1> HIDE DEF path
<1>4. path[i] = Climb(ns, path, i)
  BY <1>1, <1>3
<1> QED
  BY <1>2, <1>4 DEF Climb

\* Paths are sequences of names.
LEMMA PathTypes ==
  ASSUME NEW ns, Climbs(ns)
  PROVE  \A i \in 1..Len(ns) : F!InodeToPath(ns, i) \in Seq(Names)
<1> DEFINE Bad == {i \in 1..Len(ns) : F!InodeToPath(ns, i) \notin Seq(Names)}
<1>1. ns \in Seq(F!Nodes) /\ Len(ns) \in Nat
  BY DEF Climbs
<1>2. ASSUME Bad # {} PROVE FALSE
  <2>1. PICK i \in Bad : \A y \in Bad : i <= y
    <3>1. Bad \in SUBSET Nat
      BY <1>1
    <3> QED
      BY <1>2, <3>1, LeastOfSet
  <2>2. PICK p : p = ns[i].parent
    OBVIOUS
  <2>9. i \in 1..Len(ns)
    BY <2>1
  <2>3. p \in Nat /\ p < i /\ i \in 1..Len(ns)
    BY <1>1, <2>9, <2>2, NodeFields DEF Climbs
  <2>4. ASSUME p = 0 PROVE F!InodeToPath(ns, i) \in Seq(Names)
    <3>1. F!InodeToPath(ns, i) = <<>>
      BY <2>2, <2>3, <2>4, PathUnfolds
    <3> QED
      BY <3>1
  <2>5. ASSUME p # 0 PROVE F!InodeToPath(ns, i) \in Seq(Names)
    <3>1. p \in 1..Len(ns) /\ ~(i <= p)
      BY <2>3, <2>5, <1>1
    <3>2. F!InodeToPath(ns, p) \in Seq(Names)
      BY <3>1, <2>1
    <3>3. ns[i].name \in Names
      <4>1. i # 1
        BY <2>2, <2>5 DEF Climbs
      <4> QED
        BY <4>1, <2>3 DEF Climbs
    <3>4. F!InodeToPath(ns, i) = Append(F!InodeToPath(ns, p), ns[i].name)
      BY <2>2, <2>3, <2>5, PathUnfolds
    <3> QED
      BY <3>2, <3>3, <3>4
  <2> QED
    BY <2>1, <2>4, <2>5
<1> QED
  BY <1>2

\* The path to a node depends on the parents and names alone.
LEMMA SamePaths ==
  ASSUME NEW ns, Climbs(ns), NEW ms, Climbs(ms), Len(ns) <= Len(ms),
         \A i \in 1..Len(ns) : ms[i].parent = ns[i].parent /\ ms[i].name = ns[i].name
  PROVE  \A i \in 1..Len(ns) : F!InodeToPath(ms, i) = F!InodeToPath(ns, i)
<1> DEFINE Bad == {i \in 1..Len(ns) : F!InodeToPath(ms, i) # F!InodeToPath(ns, i)}
<1>1. ns \in Seq(F!Nodes) /\ ms \in Seq(F!Nodes) /\ Len(ns) \in Nat /\ Len(ms) \in Nat
  BY DEF Climbs
<1>2. ASSUME Bad # {} PROVE FALSE
  <2>1. PICK i \in Bad : \A y \in Bad : i <= y
    <3>1. Bad \in SUBSET Nat
      BY <1>1
    <3> QED
      BY <1>2, <3>1, LeastOfSet
  <2>2. PICK p : p = ns[i].parent
    OBVIOUS
  <2>9. i \in 1..Len(ns)
    BY <2>1
  <2>3. p \in Nat /\ p < i /\ i \in 1..Len(ns) /\ i \in 1..Len(ms) /\ ms[i].parent = p
    <3>1. p \in Nat
      BY <1>1, <2>9, <2>2, NodeFields
    <3>2. p < i
      BY <2>9, <2>2 DEF Climbs
    <3>3. i \in 1..Len(ms) /\ ms[i].parent = p
      BY <1>1, <2>9, <2>2
    <3> QED
      BY <2>9, <3>1, <3>2, <3>3
  <2>4. ASSUME p = 0 PROVE F!InodeToPath(ms, i) = F!InodeToPath(ns, i)
    <3>1. F!InodeToPath(ns, i) = <<>>
      BY <2>2, <2>3, <2>4, PathUnfolds
    <3>2. F!InodeToPath(ms, i) = <<>>
      BY <2>2, <2>3, <2>4, PathUnfolds
    <3> QED
      BY <3>1, <3>2
  <2>5. ASSUME p # 0 PROVE F!InodeToPath(ms, i) = F!InodeToPath(ns, i)
    <3>1. p \in 1..Len(ns) /\ ~(i <= p)
      BY <2>3, <2>5, <1>1
    <3>2. F!InodeToPath(ms, p) = F!InodeToPath(ns, p)
      BY <3>1, <2>1
    <3>3. /\ F!InodeToPath(ns, i) = Append(F!InodeToPath(ns, p), ns[i].name)
          /\ F!InodeToPath(ms, i) = Append(F!InodeToPath(ms, p), ms[i].name)
      BY <2>2, <2>3, <2>5, PathUnfolds
    <3> QED
      BY <2>3, <3>2, <3>3
  <2> QED
    BY <2>1, <2>4, <2>5
<1> QED
  BY <1>2

\* A prefix, index by index.
LEMMA BeginsWith ==
  ASSUME NEW a \in Seq(Names), NEW b \in Seq(Names)
  PROVE  F!IsPrefix(a, b) <=> Len(a) <= Len(b) /\ \A i \in 1..Len(a) : a[i] = b[i]
<1>1. ASSUME Len(a) <= Len(b)
      PROVE  /\ Len(SubSeq(a, 1, Len(a))) = Len(a) /\ Len(SubSeq(b, 1, Len(a))) = Len(a)
             /\ SubSeq(a, 1, Len(a)) \in Seq(Names) /\ SubSeq(b, 1, Len(a)) \in Seq(Names)
             /\ \A i \in 1..Len(a) : SubSeq(a, 1, Len(a))[i] = a[i] /\ SubSeq(b, 1, Len(a))[i] = b[i]
  BY <1>1
<1>2. ASSUME Len(a) <= Len(b)
      PROVE  SubSeq(a, 1, Len(a)) = SubSeq(b, 1, Len(a)) <=> \A i \in 1..Len(a) : a[i] = b[i]
  <2>1. ASSUME \A i \in 1..Len(a) : a[i] = b[i] PROVE SubSeq(a, 1, Len(a)) = SubSeq(b, 1, Len(a))
    BY <1>1, <1>2, <2>1, SeqEqual
  <2> QED
    BY <1>1, <1>2, <2>1
<1> QED
  BY <1>2 DEF F!IsPrefix

\* What is a prefix, and how prefixes and longer paths go together.
LEMMA Prefixes ==
  /\ \A a \in Seq(Names) : F!IsPrefix(a, a) /\ F!IsPrefix(<<>>, a) /\ (F!IsPrefix(a, <<>>) => a = <<>>)
  /\ \A a, b, c \in Seq(Names) : F!IsPrefix(a, b) /\ F!IsPrefix(b, c) => F!IsPrefix(a, c)
  /\ \A a, b \in Seq(Names) : F!IsPrefix(a, b) /\ F!IsPrefix(b, a) => a = b
  /\ \A a, b, c \in Seq(Names) : F!IsPrefix(a, c) /\ F!IsPrefix(b, c) => F!IsPrefix(a, b) \/ F!IsPrefix(b, a)
<1>1. ASSUME NEW a \in Seq(Names)
      PROVE  F!IsPrefix(a, a) /\ F!IsPrefix(<<>>, a) /\ (F!IsPrefix(a, <<>>) => a = <<>>)
  <2>1. PICK e : e = <<>>
    OBVIOUS
  <2>2. e \in Seq(Names) /\ Len(e) = 0 /\ Len(a) \in Nat /\ (Len(a) = 0 => a = e)
    BY <2>1
  <2>3. F!IsPrefix(a, a)
    BY <2>2, BeginsWith
  <2>4. F!IsPrefix(e, a)
    <3>1. F!IsPrefix(e, a) <=> Len(e) <= Len(a) /\ \A i \in 1..Len(e) : e[i] = a[i]
      BY <2>2, BeginsWith
    <3> QED
      BY <2>2, <3>1
  <2>5. F!IsPrefix(a, e) => a = e
    <3>1. F!IsPrefix(a, e) <=> Len(a) <= Len(e) /\ \A i \in 1..Len(a) : a[i] = e[i]
      BY <2>2, BeginsWith
    <3> QED
      BY <2>2, <3>1
  <2> QED
    BY <2>1, <2>3, <2>4, <2>5
<1>2. ASSUME NEW a \in Seq(Names), NEW b \in Seq(Names), NEW c \in Seq(Names), F!IsPrefix(a, b), F!IsPrefix(b, c)
      PROVE  F!IsPrefix(a, c)
  <2>1. /\ Len(a) <= Len(b) /\ Len(b) <= Len(c) /\ Len(a) \in Nat /\ Len(b) \in Nat /\ Len(c) \in Nat
        /\ \A i \in 1..Len(a) : a[i] = b[i]
        /\ \A i \in 1..Len(b) : b[i] = c[i]
    BY <1>2, BeginsWith
  <2>2. \A i \in 1..Len(a) : i \in 1..Len(b)
    BY <2>1
  <2> QED
    BY <2>1, <2>2, BeginsWith
<1>3. ASSUME NEW a \in Seq(Names), NEW b \in Seq(Names), F!IsPrefix(a, b), F!IsPrefix(b, a) PROVE a = b
  <2>1. Len(a) <= Len(b) /\ Len(b) <= Len(a) /\ Len(a) \in Nat /\ Len(b) \in Nat /\ \A i \in 1..Len(a) : a[i] = b[i]
    BY <1>3, BeginsWith
  <2> QED
    BY <2>1, SeqEqual
<1>4. ASSUME NEW a \in Seq(Names), NEW b \in Seq(Names), NEW c \in Seq(Names), F!IsPrefix(a, c), F!IsPrefix(b, c)
      PROVE  F!IsPrefix(a, b) \/ F!IsPrefix(b, a)
  <2>1. /\ Len(a) <= Len(c) /\ Len(b) <= Len(c) /\ Len(a) \in Nat /\ Len(b) \in Nat /\ Len(c) \in Nat
        /\ \A i \in 1..Len(a) : a[i] = c[i]
        /\ \A i \in 1..Len(b) : b[i] = c[i]
    BY <1>4, BeginsWith
  <2>2. CASE Len(a) <= Len(b)
    <3>1. \A i \in 1..Len(a) : i \in 1..Len(b)
      BY <2>1, <2>2
    <3> QED
      BY <2>1, <2>2, <3>1, BeginsWith
  <2>3. CASE Len(b) <= Len(a)
    <3>1. \A i \in 1..Len(b) : i \in 1..Len(a)
      BY <2>1, <2>3
    <3> QED
      BY <2>1, <2>3, <3>1, BeginsWith
  <2> QED
    BY <2>1, <2>2, <2>3
<1> QED
  BY <1>1, <1>2, <1>3, <1>4

\* A name at the end of a path.
LEMMA AppendFields ==
  ASSUME NEW p \in Seq(Names), NEW n \in Names
  PROVE  /\ Append(p, n) \in Seq(Names) /\ Append(p, n) # <<>> /\ Append(p, n) # p
         /\ Len(Append(p, n)) = Len(p) + 1 /\ Len(p) \in Nat
         /\ F!Last(Append(p, n)) = n /\ F!DirName(Append(p, n)) = p
         /\ F!IsPrefix(p, Append(p, n)) /\ ~F!IsPrefix(Append(p, n), p)
<1>1. PICK q : q = Append(p, n)
  OBVIOUS
<1>2. /\ q \in Seq(Names) /\ Len(q) = Len(p) + 1 /\ Len(p) \in Nat /\ q[Len(p) + 1] = n
      /\ \A i \in 1..Len(p) : q[i] = p[i]
  BY <1>1, AppendProperties
<1>3. SubSeq(q, 1, Len(p)) = p
  <2>1. /\ SubSeq(q, 1, Len(p)) \in Seq(Names) /\ Len(SubSeq(q, 1, Len(p))) = Len(p)
        /\ \A i \in 1..Len(p) : SubSeq(q, 1, Len(p))[i] = q[i]
    BY <1>2
  <2> QED
    BY <1>2, <2>1, SeqEqual
<1>4. Len(q) - 1 = Len(p)
  BY <1>2
<1>5. F!IsPrefix(p, q) /\ ~F!IsPrefix(q, p)
  BY <1>2, BeginsWith
<1>6. q # <<>> /\ q # p
  BY <1>2
<1> QED
  BY <1>1, <1>2, <1>3, <1>4, <1>5, <1>6 DEF F!Last, F!DirName

\* What a path with one more name has as a prefix.
LEMMA PrefixOfAppend ==
  ASSUME NEW a \in Seq(Names), NEW b \in Seq(Names), NEW n \in Names, F!IsPrefix(a, Append(b, n)), a # Append(b, n)
  PROVE  F!IsPrefix(a, b)
<1>1. PICK q : q = Append(b, n)
  OBVIOUS
<1>2. /\ q \in Seq(Names) /\ Len(q) = Len(b) + 1 /\ Len(b) \in Nat /\ Len(a) \in Nat
      /\ \A i \in 1..Len(b) : q[i] = b[i]
  BY <1>1, AppendProperties
<1>3. Len(a) <= Len(q) /\ \A i \in 1..Len(a) : a[i] = q[i]
  BY <1>1, <1>2, BeginsWith
<1>4. Len(a) # Len(q)
  BY <1>1, <1>2, <1>3, SeqEqual
<1>5. Len(a) <= Len(b) /\ \A i \in 1..Len(a) : i \in 1..Len(b)
  BY <1>2, <1>3, <1>4
<1> QED
  BY <1>2, <1>3, <1>5, BeginsWith

\* A path that is not the root is its directory and its last name.
LEMMA PathParts ==
  ASSUME NEW p \in Seq(Names), p # <<>>
  PROVE  F!DirName(p) \in Seq(Names) /\ F!Last(p) \in Names /\ p = Append(F!DirName(p), F!Last(p))
<1>1. Len(p) \in Nat \ {0}
  OBVIOUS
<1>2. PICK m \in Nat : m = Len(p) - 1
  BY <1>1
<1>3. PICK d : d = SubSeq(p, 1, m)
  OBVIOUS
<1>4. d \in Seq(Names) /\ Len(d) = m /\ \A i \in 1..m : d[i] = p[i]
  BY <1>1, <1>2, <1>3
<1>5. PICK q : q = Append(d, p[Len(p)])
  OBVIOUS
<1>6. p[Len(p)] \in Names
  BY <1>1
<1>7. /\ q \in Seq(Names) /\ Len(q) = m + 1 /\ q[m + 1] = p[Len(p)] /\ \A i \in 1..m : q[i] = d[i]
  BY <1>4, <1>5, <1>6, AppendProperties
<1>8. \A i \in 1..Len(p) : q[i] = p[i]
  BY <1>1, <1>2, <1>4, <1>7
<1>9. q = p
  BY <1>1, <1>2, <1>7, <1>8, SeqEqual
<1> QED
  BY <1>2, <1>3, <1>4, <1>5, <1>6, <1>9 DEF F!DirName, F!Last

-----------------------------------------------------------------------------
(* The inode table *)

\* What TableIsTree says of each node.
LEMMA TreeFacts ==
  ASSUME NEW ns, F!TableIsTree(ns)
  PROVE  /\ Climbs(ns) /\ ns \in Seq(F!Nodes) /\ Len(ns) \in Nat /\ 1 \in 1..Len(ns) /\ ns[1].parent = 0
         /\ \A i \in 1..Len(ns) :
              /\ ns[i].parent \in Nat /\ ns[i].parent < i /\ (i # 1 => ns[i].name \in Names)
              /\ ns[i].parent # 0 => ns[i].parent \in 1..Len(ns) /\ i # 1
              /\ ns[i].dir \in BOOLEAN /\ ns[i].folder \in BOOLEAN /\ ns[i].child \in [Names -> Nat]
         /\ \A i \in 1..Len(ns) : \A n \in Names :
              F!Child(ns, i, n) \in Nat /\
              (F!Child(ns, i, n) # 0 =>
                 /\ F!Child(ns, i, n) \in 1..Len(ns) /\ ns[F!Child(ns, i, n)].parent = i
                 /\ ns[F!Child(ns, i, n)].name = n /\ F!Child(ns, i, n) # 1)
<1>1. Climbs(ns) /\ ns \in Seq(F!Nodes) /\ ns[1].parent = 0
  <2>1. ns \in Seq(F!Nodes) /\ ns # <<>> /\ ns[1].parent = 0
    BY DEF F!TableIsTree
  <2>2. \A i \in 1..Len(ns) : ns[i].parent < i /\ (i # 1 => ns[i].name \in Names)
    BY DEF F!TableIsTree
  <2> QED
    BY <2>1, <2>2 DEF Climbs
<1>2. Len(ns) \in Nat /\ 1 \in 1..Len(ns)
  <2>1. ns # <<>>
    BY DEF F!TableIsTree
  <2> QED
    BY <1>1, <2>1
<1>3. ASSUME NEW i \in 1..Len(ns)
      PROVE  /\ ns[i].parent \in Nat /\ ns[i].parent < i /\ (i # 1 => ns[i].name \in Names)
             /\ ns[i].parent # 0 => ns[i].parent \in 1..Len(ns) /\ i # 1
             /\ ns[i].dir \in BOOLEAN /\ ns[i].folder \in BOOLEAN /\ ns[i].child \in [Names -> Nat]
  <2>1. ns[i].parent \in Nat /\ ns[i].dir \in BOOLEAN /\ ns[i].folder \in BOOLEAN /\ ns[i].child \in [Names -> Nat]
    BY <1>1, NodeFields
  <2>2. ns[i].parent < i /\ (i # 1 => ns[i].name \in Names)
    BY <1>1 DEF Climbs
  <2>3. PICK p : p = ns[i].parent
    OBVIOUS
  <2>4. p # 0 => p \in 1..Len(ns)
    BY <1>2, <2>1, <2>2, <2>3
  <2>5. i = 1 => p = 0
    BY <1>1, <2>3
  <2> QED
    BY <2>1, <2>2, <2>3, <2>4, <2>5
<1>4. ASSUME NEW i \in 1..Len(ns), NEW n \in Names
      PROVE  /\ F!Child(ns, i, n) \in Nat
             /\ F!Child(ns, i, n) # 0 =>
                  /\ F!Child(ns, i, n) \in 1..Len(ns) /\ ns[F!Child(ns, i, n)].parent = i
                  /\ ns[F!Child(ns, i, n)].name = n /\ F!Child(ns, i, n) # 1
  <2>1. PICK c : c = F!Child(ns, i, n)
    OBVIOUS
  <2>2. c \in Nat
    <3>1. ns[i].child \in [Names -> Nat]
      BY <1>3
    <3> QED
      BY <2>1, <3>1 DEF F!Child
  <2>3. c # 0 => c \in 1..Len(ns) /\ ns[c].parent = i /\ ns[c].name = n
    BY <2>1 DEF F!TableIsTree
  <2>4. i # 0
    BY <1>2
  <2>5. c # 0 => c # 1
    BY <1>1, <2>3, <2>4
  <2> QED
    BY <2>1, <2>2, <2>3, <2>5
<1> QED
  BY <1>1, <1>2, <1>3, <1>4

\* A table's nodes, said one by one.
LEMMA TreeFromFacts ==
  ASSUME NEW ns \in Seq(F!Nodes), Len(ns) \in Nat \ {0}, ns[1].parent = 0,
         \A i \in 1..Len(ns) : ns[i].parent < i /\ (i # 1 => ns[i].name \in Names),
         \A i \in 1..Len(ns) : \A n \in Names :
           F!Child(ns, i, n) # 0 =>
             /\ F!Child(ns, i, n) \in 1..Len(ns) /\ ns[F!Child(ns, i, n)].parent = i
             /\ ns[F!Child(ns, i, n)].name = n
  PROVE  F!TableIsTree(ns)
<1>1. ns # <<>>
  OBVIOUS
<1> QED
  BY <1>1 DEF F!TableIsTree

\* What a change elsewhere leaves of a node.
Same(ns, ms, x) == ms[x].name = ns[x].name /\ ms[x].dir = ns[x].dir /\ ms[x].folder = ns[x].folder

\* The table after NewChild, field by field.
LEMMA NewChildFields ==
  ASSUME NEW ns, F!TableIsTree(ns), NEW i \in 1..Len(ns), NEW n \in Names, NEW d \in BOOLEAN, NEW f \in BOOLEAN,
         NEW ms, ms = F!NewChild(ns, i, n, d, f)
  PROVE  /\ ms \in Seq(F!Nodes) /\ Len(ms) = Len(ns) + 1
         /\ \A x \in 1..Len(ns) : Same(ns, ms, x) /\ ms[x].parent = ns[x].parent
         /\ \A x \in 1..Len(ns) : \A m \in Names :
              F!Child(ms, x, m) = IF x = i /\ m = n THEN Len(ns) + 1 ELSE F!Child(ns, x, m)
         /\ ms[Len(ns) + 1].parent = i /\ ms[Len(ns) + 1].name = n
         /\ ms[Len(ns) + 1].dir = d /\ ms[Len(ns) + 1].folder = f /\ ms[Len(ns) + 1].child = F!NoChild
<1>1. ns \in Seq(F!Nodes) /\ Len(ns) \in Nat /\ i \in Nat
  BY TreeFacts
<1>2. PICK l : l = Len(ns) + 1
  OBVIOUS
<1>3. PICK node : node = [name |-> n, parent |-> i, dir |-> d, folder |-> f, child |-> F!NoChild]
  OBVIOUS
<1>4. node \in F!Nodes
  BY <1>1, <1>3 DEF F!Nodes, F!NoChild
<1>5. PICK q : q = Append(ns, node)
  OBVIOUS
<1>6. /\ q \in Seq(F!Nodes) /\ Len(q) = l /\ q[l] = node /\ l \in Nat \ {0} /\ l \notin 1..Len(ns)
      /\ \A x \in 1..Len(ns) : q[x] = ns[x] /\ x \in 1..l /\ x # l
  BY <1>1, <1>2, <1>4, <1>5, AppendProperties
<1>7. ms = [q EXCEPT ![i].child[n] = l]
  BY <1>2, <1>3, <1>5 DEF F!NewChild, F!SetChild
<1>8. q[i] \in F!Nodes /\ q[i].child \in [Names -> Nat] /\ i \in 1..l
  BY <1>6, NodeFields
<1>9. PICK r : r = [q[i] EXCEPT !.child = [@ EXCEPT ![n] = l]]
  OBVIOUS
<1>10. /\ r \in F!Nodes /\ r.name = q[i].name /\ r.parent = q[i].parent /\ r.dir = q[i].dir /\ r.folder = q[i].folder
       /\ r.child = [q[i].child EXCEPT ![n] = l]
  BY <1>6, <1>8, <1>9 DEF F!Nodes
<1>11. ms = [q EXCEPT ![i] = r]
  BY <1>7, <1>9
<1>12. /\ ms \in Seq(F!Nodes) /\ Len(ms) = l
       /\ \A x \in 1..l : ms[x] = IF x = i THEN r ELSE q[x]
  <2>1. q \in [1..l -> F!Nodes] /\ DOMAIN q = 1..l
    BY <1>6
  <2>2. ms \in [1..l -> F!Nodes] /\ \A x \in 1..l : ms[x] = IF x = i THEN r ELSE q[x]
    BY <1>8, <1>10, <1>11, <2>1
  <2> QED
    BY <1>6, <2>2
<1>13. l # i
  BY <1>1, <1>2
<1>14. ms[l] = node
  BY <1>6, <1>12, <1>13
<1>15. \A x \in 1..Len(ns) : ms[x] = IF x = i THEN r ELSE ns[x]
  BY <1>6, <1>12
<1>16. \A m \in Names : r.child[m] = IF m = n THEN l ELSE ns[i].child[m]
  BY <1>6, <1>8, <1>10
<1>17. \A x \in 1..Len(ns) : Same(ns, ms, x) /\ ms[x].parent = ns[x].parent
  BY <1>6, <1>10, <1>15 DEF Same
<1>18. \A x \in 1..Len(ns) : \A m \in Names :
              F!Child(ms, x, m) = IF x = i /\ m = n THEN l ELSE F!Child(ns, x, m)
  BY <1>15, <1>16 DEF F!Child
<1> QED
  BY <1>2, <1>3, <1>12, <1>14, <1>17, <1>18

\* A new child: the table stays a tree, and the paths stay.
LEMMA NewChildTree ==
  ASSUME NEW ns, F!TableIsTree(ns), NEW i \in 1..Len(ns), NEW n \in Names, NEW d \in BOOLEAN, NEW f \in BOOLEAN,
         NEW ms, ms = F!NewChild(ns, i, n, d, f)
  PROVE  /\ F!TableIsTree(ms)
         /\ \A x \in 1..Len(ns) : F!InodeToPath(ms, x) = F!InodeToPath(ns, x)
         /\ F!InodeToPath(ms, Len(ns) + 1) = F!PathIn(ns, i, n)
<1>1. PICK l : l = Len(ns) + 1
  OBVIOUS
<1>2. /\ ms \in Seq(F!Nodes) /\ Len(ms) = l
      /\ \A x \in 1..Len(ns) : Same(ns, ms, x) /\ ms[x].parent = ns[x].parent
      /\ \A x \in 1..Len(ns) : \A m \in Names :
           F!Child(ms, x, m) = IF x = i /\ m = n THEN l ELSE F!Child(ns, x, m)
      /\ ms[l].parent = i /\ ms[l].name = n /\ ms[l].child = F!NoChild
  <2>1. ms \in Seq(F!Nodes) /\ Len(ms) = Len(ns) + 1
    BY NewChildFields
  <2>2. \A x \in 1..Len(ns) : Same(ns, ms, x) /\ ms[x].parent = ns[x].parent
    BY NewChildFields
  <2>3. \A x \in 1..Len(ns) : \A m \in Names :
          F!Child(ms, x, m) = IF x = i /\ m = n THEN Len(ns) + 1 ELSE F!Child(ns, x, m)
    BY NewChildFields
  <2>4. ms[Len(ns) + 1].parent = i /\ ms[Len(ns) + 1].name = n /\ ms[Len(ns) + 1].child = F!NoChild
    BY NewChildFields
  <2> QED
    BY <1>1, <2>1, <2>2, <2>3, <2>4
<1>3. /\ Len(ns) \in Nat /\ i \in Nat /\ i # 0 /\ i < l /\ l \in Nat \ {0} /\ 1 \in 1..Len(ns) /\ l # 1 /\ i \in 1..l
      /\ \A x \in 1..l : x = l \/ x \in 1..Len(ns)
      /\ \A x \in 1..Len(ns) : x \in 1..l
      /\ l \in 1..l
  BY <1>1, TreeFacts
<1>4. F!TableIsTree(ms)
  <2>1. ms[1].parent = 0
    BY <1>2, <1>3, TreeFacts
  <2>2. ASSUME NEW x \in 1..l PROVE ms[x].parent < x /\ (x # 1 => ms[x].name \in Names)
    <3>1. CASE x = l
      BY <1>2, <1>3, <3>1
    <3>2. CASE x \in 1..Len(ns)
      <4>1. ns[x].parent < x /\ (x # 1 => ns[x].name \in Names)
        BY <3>2, TreeFacts
      <4>2. ms[x].parent = ns[x].parent /\ ms[x].name = ns[x].name
        BY <1>2, <3>2 DEF Same
      <4> QED
        BY <4>1, <4>2
    <3> QED
      BY <1>3, <3>1, <3>2
  <2>3. ASSUME NEW x \in 1..l, NEW m \in Names, F!Child(ms, x, m) # 0
        PROVE  /\ F!Child(ms, x, m) \in 1..l /\ ms[F!Child(ms, x, m)].parent = x
               /\ ms[F!Child(ms, x, m)].name = m
    <3>1. CASE x = l
      BY <1>2, <2>3, <3>1 DEF F!Child, F!NoChild
    <3>2. CASE x = i /\ m = n
      BY <1>2, <1>3, <3>2
    <3>3. CASE x \in 1..Len(ns) /\ ~(x = i /\ m = n)
      <4>1. PICK c : c = F!Child(ns, x, m)
        OBVIOUS
      <4>2. F!Child(ms, x, m) = c /\ c # 0
        BY <1>2, <2>3, <3>3, <4>1
      <4>3. c \in 1..Len(ns) /\ ns[c].parent = x /\ ns[c].name = m
        BY <3>3, <4>1, <4>2, TreeFacts
      <4>4. ms[c].parent = x /\ ms[c].name = m /\ c \in 1..l
        BY <1>2, <1>3, <4>3 DEF Same
      <4> QED
        BY <4>2, <4>4
    <3> QED
      BY <1>3, <3>1, <3>2, <3>3
  <2> QED
    BY <1>2, <1>3, <2>1, <2>2, <2>3, TreeFromFacts
<1>5. \A x \in 1..Len(ns) : F!InodeToPath(ms, x) = F!InodeToPath(ns, x)
  <2>1. Climbs(ns) /\ Climbs(ms)
    BY <1>4, TreeFacts
  <2>2. Len(ns) <= Len(ms)
    BY <1>1, <1>2, <1>3
  <2>3. \A x \in 1..Len(ns) : ms[x].parent = ns[x].parent /\ ms[x].name = ns[x].name
    BY <1>2 DEF Same
  <2> QED
    BY <2>1, <2>2, <2>3, SamePaths
<1>6. F!InodeToPath(ms, l) = F!PathIn(ns, i, n)
  <2>1. Climbs(ms) /\ l \in 1..Len(ms)
    BY <1>2, <1>3, <1>4, TreeFacts
  <2>2. F!InodeToPath(ms, l) = Append(F!InodeToPath(ms, i), n)
    BY <1>2, <1>3, <2>1, PathUnfolds
  <2> QED
    BY <1>5, <2>2 DEF F!PathIn
<1> QED
  BY <1>1, <1>4, <1>5, <1>6

\* The path of a child.
LEMMA ChildPath ==
  ASSUME NEW ns, F!TableIsTree(ns), NEW i \in 1..Len(ns), NEW n \in Names
  PROVE  /\ F!InodeToPath(ns, i) \in Seq(Names) /\ F!PathIn(ns, i, n) \in Seq(Names) /\ F!PathIn(ns, i, n) # <<>>
         /\ F!PathIn(ns, i, n) = Append(F!InodeToPath(ns, i), n)
         /\ F!Child(ns, i, n) # 0 => F!InodeToPath(ns, F!Child(ns, i, n)) = F!PathIn(ns, i, n)
<1>1. Climbs(ns) /\ i # 0
  BY TreeFacts
<1>2. F!InodeToPath(ns, i) \in Seq(Names)
  BY <1>1, PathTypes
<1>3. F!PathIn(ns, i, n) = Append(F!InodeToPath(ns, i), n)
  BY DEF F!PathIn
<1>4. F!PathIn(ns, i, n) \in Seq(Names) /\ F!PathIn(ns, i, n) # <<>>
  BY <1>2, <1>3, AppendFields
<1>5. ASSUME F!Child(ns, i, n) # 0 PROVE F!InodeToPath(ns, F!Child(ns, i, n)) = F!PathIn(ns, i, n)
  <2>1. PICK c : c = F!Child(ns, i, n)
    OBVIOUS
  <2>2. c \in 1..Len(ns) /\ ns[c].parent = i /\ ns[c].name = n
    BY <1>5, <2>1, TreeFacts
  <2>3. F!InodeToPath(ns, c) = Append(F!InodeToPath(ns, i), n)
    BY <1>1, <2>2, PathUnfolds
  <2> QED
    BY <1>3, <2>1, <2>3
<1> QED
  BY <1>2, <1>3, <1>4, <1>5

\* The table after RmChild, field by field.
LEMMA RmChildFields ==
  ASSUME NEW ns, F!TableIsTree(ns), NEW i \in 1..Len(ns), NEW n \in Names,
         NEW c, c = F!Child(ns, i, n), c # 0, NEW ms, ms = F!RmChild(ns, i, n)
  PROVE  /\ ms \in Seq(F!Nodes) /\ Len(ms) = Len(ns)
         /\ \A x \in 1..Len(ns) : Same(ns, ms, x) /\ ms[x].parent = IF x = c THEN 0 ELSE ns[x].parent
         /\ \A x \in 1..Len(ns) : \A m \in Names :
              F!Child(ms, x, m) = IF x = i /\ m = n THEN 0 ELSE F!Child(ns, x, m)
<1>1. ns \in Seq(F!Nodes) /\ Len(ns) \in Nat /\ c \in 1..Len(ns) /\ ns[c].parent = i /\ ns[c].parent < c
  BY TreeFacts
<1>2. c # i /\ i \in Nat /\ c \in Nat
  BY <1>1, TreeFacts
<1>3. ms = [[ns EXCEPT ![i].child[n] = 0] EXCEPT ![c].parent = 0]
  BY DEF F!RmChild, F!SetChild
<1>4. /\ ns[i] \in F!Nodes /\ ns[i].child \in [Names -> Nat] /\ ns[c] \in F!Nodes
  BY <1>1, NodeFields
<1>5. PICK r : r = [ns[i] EXCEPT !.child = [@ EXCEPT ![n] = 0]]
  OBVIOUS
<1>6. /\ r \in F!Nodes /\ r.name = ns[i].name /\ r.parent = ns[i].parent /\ r.dir = ns[i].dir
      /\ r.folder = ns[i].folder /\ r.child = [ns[i].child EXCEPT ![n] = 0]
  BY <1>4, <1>5 DEF F!Nodes
<1>7. PICK t : t = [ns[c] EXCEPT !.parent = 0]
  OBVIOUS
<1>8. /\ t \in F!Nodes /\ t.name = ns[c].name /\ t.parent = 0 /\ t.dir = ns[c].dir
      /\ t.folder = ns[c].folder /\ t.child = ns[c].child
  BY <1>4, <1>7 DEF F!Nodes
<1>9. ns \in [1..Len(ns) -> F!Nodes] /\ DOMAIN ns = 1..Len(ns)
  BY <1>1
<1>10. PICK q : q = [ns EXCEPT ![i] = r]
  OBVIOUS
<1>11. /\ q \in [1..Len(ns) -> F!Nodes] /\ DOMAIN q = 1..Len(ns)
       /\ \A x \in 1..Len(ns) : q[x] = IF x = i THEN r ELSE ns[x]
  BY <1>6, <1>9, <1>10
<1>12. q = [ns EXCEPT ![i].child[n] = 0]
  BY <1>5, <1>10
<1>13. q[c] = ns[c]
  BY <1>1, <1>2, <1>11
<1>14. ms = [q EXCEPT ![c] = t]
  BY <1>3, <1>7, <1>12, <1>13
<1>15. /\ ms \in [1..Len(ns) -> F!Nodes]
       /\ \A x \in 1..Len(ns) : ms[x] = IF x = c THEN t ELSE q[x]
  BY <1>1, <1>8, <1>11, <1>14
<1>16. ms \in Seq(F!Nodes) /\ Len(ms) = Len(ns)
  BY <1>1, <1>15
<1>17. \A x \in 1..Len(ns) : ms[x] = IF x = c THEN t ELSE IF x = i THEN r ELSE ns[x]
  BY <1>11, <1>15
<1>18. \A m \in Names : r.child[m] = IF m = n THEN 0 ELSE ns[i].child[m]
  BY <1>4, <1>6
<1>19. \A x \in 1..Len(ns) : Same(ns, ms, x) /\ ms[x].parent = IF x = c THEN 0 ELSE ns[x].parent
  BY <1>6, <1>8, <1>17 DEF Same
<1>20. \A x \in 1..Len(ns) : \A m \in Names :
              F!Child(ms, x, m) = IF x = i /\ m = n THEN 0 ELSE F!Child(ns, x, m)
  BY <1>2, <1>8, <1>17, <1>18 DEF F!Child
<1> QED
  BY <1>16, <1>19, <1>20

\* A child goes: the table stays a tree, and the paths stay that do not lead through the child.
LEMMA RmChildTree ==
  ASSUME NEW ns, F!TableIsTree(ns), NEW i \in 1..Len(ns), NEW n \in Names,
         NEW c, c = F!Child(ns, i, n), c # 0, NEW ms, ms = F!RmChild(ns, i, n)
  PROVE  /\ F!TableIsTree(ms)
         /\ \A x \in 1..Len(ns) :
              F!IsPrefix(F!PathIn(ns, i, n), F!InodeToPath(ns, x)) \/ F!InodeToPath(ms, x) = F!InodeToPath(ns, x)
<1>1. /\ ms \in Seq(F!Nodes) /\ Len(ms) = Len(ns)
      /\ \A x \in 1..Len(ns) : Same(ns, ms, x) /\ ms[x].parent = IF x = c THEN 0 ELSE ns[x].parent
      /\ \A x \in 1..Len(ns) : \A m \in Names :
           F!Child(ms, x, m) = IF x = i /\ m = n THEN 0 ELSE F!Child(ns, x, m)
  BY RmChildFields
<1>2. /\ Len(ns) \in Nat /\ c \in 1..Len(ns) /\ ns[c].parent = i /\ ns[c].name = n /\ 1 \in 1..Len(ns) /\ c # 1
  BY TreeFacts
<1>3. F!TableIsTree(ms)
  <2>1. ms[1].parent = 0 /\ Len(ms) \in Nat \ {0}
    BY <1>1, <1>2, TreeFacts
  <2>2. ASSUME NEW x \in 1..Len(ms) PROVE ms[x].parent < x /\ (x # 1 => ms[x].name \in Names)
    <3>1. x \in 1..Len(ns) /\ 0 < x
      BY <1>1, <1>2
    <3>2. ns[x].parent < x /\ (x # 1 => ns[x].name \in Names)
      BY <3>1, TreeFacts
    <3> QED
      BY <1>1, <3>1, <3>2 DEF Same
  <2>3. ASSUME NEW x \in 1..Len(ms), NEW m \in Names, F!Child(ms, x, m) # 0
        PROVE  /\ F!Child(ms, x, m) \in 1..Len(ms) /\ ms[F!Child(ms, x, m)].parent = x
               /\ ms[F!Child(ms, x, m)].name = m
    <3>1. PICK e : e = F!Child(ns, x, m)
      OBVIOUS
    <3>2. x \in 1..Len(ns) /\ ~(x = i /\ m = n) /\ F!Child(ms, x, m) = e /\ e # 0
      BY <1>1, <2>3, <3>1
    <3>3. e \in 1..Len(ns) /\ ns[e].parent = x /\ ns[e].name = m
      BY <3>1, <3>2, TreeFacts
    <3>4. e # c
      BY <1>2, <3>2, <3>3
    <3>5. ms[e].parent = x /\ ms[e].name = m
      BY <1>1, <3>3, <3>4 DEF Same
    <3> QED
      BY <1>1, <3>2, <3>3, <3>5
  <2> QED
    BY <1>1, <2>1, <2>2, <2>3, TreeFromFacts
<1>4. Climbs(ns) /\ Climbs(ms)
  BY <1>3, TreeFacts
<1>5. PICK p : p = F!PathIn(ns, i, n)
  OBVIOUS
<1>6. F!InodeToPath(ns, c) = p /\ p \in Seq(Names) /\ p # <<>>
  BY <1>5, ChildPath
<1>7. \A x \in 1..Len(ns) : F!InodeToPath(ns, x) \in Seq(Names)
  BY <1>4, PathTypes
<1> DEFINE Bad == {x \in 1..Len(ns) : ~F!IsPrefix(p, F!InodeToPath(ns, x)) /\ F!InodeToPath(ms, x) # F!InodeToPath(ns, x)}
<1>8. ASSUME Bad # {} PROVE FALSE
  <2>1. PICK x \in Bad : \A y \in Bad : x <= y
    <3>1. Bad \in SUBSET Nat
      BY <1>2
    <3> QED
      BY <1>8, <3>1, LeastOfSet
  <2>2. x \in 1..Len(ns) /\ ~F!IsPrefix(p, F!InodeToPath(ns, x)) /\ F!InodeToPath(ms, x) # F!InodeToPath(ns, x)
    BY <2>1
  <2>3. x # c
    BY <1>6, <2>2, Prefixes
  <2>4. PICK u : u = ns[x].parent
    OBVIOUS
  <2>5. ms[x].parent = u /\ ms[x].name = ns[x].name /\ x \in 1..Len(ms)
    BY <1>1, <2>2, <2>3, <2>4 DEF Same
  <2>6. u \in Nat /\ u < x /\ (u # 0 => u \in 1..Len(ns) /\ ns[x].name \in Names)
    BY <2>2, <2>4, TreeFacts
  <2>7. u # 0
    <3> SUFFICES ASSUME u = 0 PROVE FALSE
      OBVIOUS
    <3>1. F!InodeToPath(ns, x) = <<>>
      BY <1>4, <2>2, <2>4, PathUnfolds
    <3>2. F!InodeToPath(ms, x) = <<>>
      BY <1>4, <2>5, PathUnfolds
    <3> QED
      BY <2>2, <3>1, <3>2
  <2>8. F!InodeToPath(ns, x) = Append(F!InodeToPath(ns, u), ns[x].name)
    BY <1>4, <2>2, <2>4, <2>7, PathUnfolds
  <2>9. F!InodeToPath(ms, x) = Append(F!InodeToPath(ms, u), ns[x].name)
    BY <1>4, <2>5, <2>7, PathUnfolds
  <2>10. ~F!IsPrefix(p, F!InodeToPath(ns, u))
    <3>1. PICK a : a = F!InodeToPath(ns, u)
      OBVIOUS
    <3>2. a \in Seq(Names) /\ ns[x].name \in Names
      BY <1>7, <2>6, <2>7, <3>1
    <3>3. F!IsPrefix(a, Append(a, ns[x].name)) /\ Append(a, ns[x].name) \in Seq(Names)
      BY <3>2, AppendFields
    <3>4. PICK b : b = Append(a, ns[x].name)
      OBVIOUS
    <3>5. b = F!InodeToPath(ns, x)
      BY <2>8, <3>1, <3>4
    <3>6. ~F!IsPrefix(p, b)
      BY <2>2, <3>5
    <3>7. a \in Seq(Names) /\ b \in Seq(Names) /\ p \in Seq(Names) /\ F!IsPrefix(a, b)
      BY <1>6, <3>2, <3>3, <3>4
    <3>8. ~F!IsPrefix(p, a)
      BY <3>6, <3>7, Prefixes
    <3> QED
      BY <3>1, <3>8
  <2>11. u \in 1..Len(ns) /\ ~(x <= u)
    BY <2>2, <2>6, <2>7
  <2>12. F!InodeToPath(ms, u) = F!InodeToPath(ns, u)
    BY <2>1, <2>10, <2>11
  <2> QED
    BY <2>2, <2>8, <2>9, <2>12
<1> QED
  BY <1>3, <1>5, <1>8

\* The nodes that the root leads to.
LEMMA AttachedFacts ==
  ASSUME NEW ns, F!TableIsTree(ns)
  PROVE  /\ 1 \in F!Attached(ns) /\ F!Attached(ns) \subseteq 1..Len(ns)
         /\ \A i \in 1..Len(ns) : \A n \in Names : F!Child(ns, i, n) # 0 => F!Child(ns, i, n) \in F!Attached(ns)
         /\ \A c \in F!Attached(ns) : c # 1 =>
              /\ ns[c].parent \in 1..Len(ns) /\ ns[c].name \in Names
              /\ F!Child(ns, ns[c].parent, ns[c].name) = c
              /\ F!InodeToPath(ns, c) = F!PathIn(ns, ns[c].parent, ns[c].name)
<1>1. 1 \in F!Attached(ns) /\ F!Attached(ns) \subseteq 1..Len(ns)
  BY TreeFacts DEF F!Attached
<1>2. ASSUME NEW i \in 1..Len(ns), NEW n \in Names, F!Child(ns, i, n) # 0 PROVE F!Child(ns, i, n) \in F!Attached(ns)
  <2>1. PICK c : c = F!Child(ns, i, n)
    OBVIOUS
  <2>2. c \in 1..Len(ns) /\ ns[c].parent = i /\ ns[c].name = n /\ i # 0
    BY <1>2, <2>1, TreeFacts
  <2> QED
    BY <2>1, <2>2 DEF F!Attached
<1>3. ASSUME NEW c \in F!Attached(ns), c # 1
      PROVE  /\ ns[c].parent \in 1..Len(ns) /\ ns[c].name \in Names
             /\ F!Child(ns, ns[c].parent, ns[c].name) = c
             /\ F!InodeToPath(ns, c) = F!PathIn(ns, ns[c].parent, ns[c].name)
  <2>1. c \in 1..Len(ns) /\ ns[c].parent # 0 /\ F!Child(ns, ns[c].parent, ns[c].name) = c
    BY <1>3 DEF F!Attached
  <2>2. ns[c].parent \in 1..Len(ns) /\ ns[c].name \in Names
    BY <1>3, <2>1, TreeFacts
  <2>3. c # 0
    BY <2>1
  <2> QED
    BY <2>1, <2>2, <2>3, ChildPath
<1> QED
  BY <1>1, <1>2, <1>3

\* A new child is attached, and the one it replaces is not.
LEMMA NewChildAttached ==
  ASSUME NEW ns, F!TableIsTree(ns), NEW i \in 1..Len(ns), NEW n \in Names, NEW d \in BOOLEAN, NEW f \in BOOLEAN,
         NEW ms, ms = F!NewChild(ns, i, n, d, f)
  PROVE  F!Attached(ms) = (F!Attached(ns) \ {F!Child(ns, i, n)}) \cup {Len(ns) + 1}
<1>1. PICK l : l = Len(ns) + 1
  OBVIOUS
<1>2. /\ Len(ms) = l
      /\ \A x \in 1..Len(ns) : Same(ns, ms, x) /\ ms[x].parent = ns[x].parent
      /\ \A x \in 1..Len(ns) : \A m \in Names :
           F!Child(ms, x, m) = IF x = i /\ m = n THEN l ELSE F!Child(ns, x, m)
      /\ ms[l].parent = i /\ ms[l].name = n
  BY <1>1, NewChildFields
<1>3. /\ Len(ns) \in Nat /\ i # 0 /\ l \in 1..l /\ l \notin 1..Len(ns) /\ 1 \in 1..Len(ns) /\ 1 \in 1..l
      /\ \A x \in 1..l : x = l \/ x \in 1..Len(ns)
      /\ \A x \in 1..Len(ns) : x \in 1..l
  BY <1>1, TreeFacts
<1>4. PICK c : c = F!Child(ns, i, n)
  OBVIOUS
<1>5. c # 0 => c \in 1..Len(ns) /\ ns[c].parent = i /\ ns[c].name = n /\ c # 1
  BY <1>4, TreeFacts
<1>6. l \in F!Attached(ms)
  <2>1. F!Child(ms, i, n) = l
    BY <1>2
  <2> QED
    BY <1>2, <1>3, <2>1 DEF F!Attached
<1>7. ASSUME NEW x \in 1..Len(ns), x # 1, ns[x].parent # 0
      PROVE  x \in F!Attached(ms) <=> x \in F!Attached(ns) \ {c}
  <2>1. PICK u, m : u = ns[x].parent /\ m = ns[x].name
    OBVIOUS
  <2>2. u \in 1..Len(ns) /\ m \in Names
    BY <1>7, <2>1, TreeFacts
  <2>3. ms[x].parent = u /\ ms[x].name = m /\ u # 0 /\ x \in 1..l
    BY <1>2, <1>3, <1>7, <2>1 DEF Same
  <2>4. x \in F!Attached(ms) <=> F!Child(ms, u, m) = x
    BY <1>2, <1>7, <2>3 DEF F!Attached
  <2>5. x \in F!Attached(ns) <=> F!Child(ns, u, m) = x
    BY <1>7, <2>1 DEF F!Attached
  <2>6. CASE u = i /\ m = n
    <3>1. F!Child(ms, u, m) = l /\ F!Child(ns, u, m) = c /\ x # l
      BY <1>2, <1>3, <1>4, <1>7, <2>6
    <3> QED
      BY <2>4, <2>5, <3>1
  <2>7. CASE ~(u = i /\ m = n)
    <3>1. F!Child(ms, u, m) = F!Child(ns, u, m)
      BY <1>2, <2>2, <2>7
    <3>2. x # c
      BY <1>3, <1>5, <2>1, <2>7, <1>7
    <3> QED
      BY <2>4, <2>5, <3>1, <3>2
  <2> QED
    BY <2>6, <2>7
<1>8. ASSUME NEW x \in 1..Len(ns), x # 1, ns[x].parent = 0 PROVE x \notin F!Attached(ms) /\ x \notin F!Attached(ns)
  BY <1>2, <1>8 DEF F!Attached
<1>9. 1 \in F!Attached(ms) /\ 1 \in F!Attached(ns) /\ 1 # c
  BY <1>5, <1>3 DEF F!Attached
<1>10. F!Attached(ms) \subseteq 1..l /\ F!Attached(ns) \subseteq 1..Len(ns)
  BY <1>2, <1>3 DEF F!Attached
<1>11. ASSUME NEW x \in F!Attached(ms) PROVE x = l \/ x \in F!Attached(ns) \ {c}
  BY <1>3, <1>7, <1>8, <1>9, <1>10
<1>12. ASSUME NEW x \in F!Attached(ns) \ {c} PROVE x \in F!Attached(ms)
  BY <1>7, <1>8, <1>9, <1>10
<1> QED
  BY <1>1, <1>4, <1>6, <1>11, <1>12

\* A child that goes is no longer attached.
LEMMA RmChildAttached ==
  ASSUME NEW ns, F!TableIsTree(ns), NEW i \in 1..Len(ns), NEW n \in Names,
         NEW c, c = F!Child(ns, i, n), c # 0, NEW ms, ms = F!RmChild(ns, i, n)
  PROVE  F!Attached(ms) = F!Attached(ns) \ {c}
<1>1. /\ Len(ms) = Len(ns)
      /\ \A x \in 1..Len(ns) : Same(ns, ms, x) /\ ms[x].parent = IF x = c THEN 0 ELSE ns[x].parent
      /\ \A x \in 1..Len(ns) : \A m \in Names :
           F!Child(ms, x, m) = IF x = i /\ m = n THEN 0 ELSE F!Child(ns, x, m)
  BY RmChildFields
<1>2. c \in 1..Len(ns) /\ ns[c].parent = i /\ ns[c].name = n /\ c # 1 /\ Len(ns) \in Nat /\ 1 \in 1..Len(ns)
  BY TreeFacts
<1>3. c \notin F!Attached(ms)
  BY <1>1, <1>2 DEF F!Attached
<1>4. ASSUME NEW x \in 1..Len(ns), x # 1, x # c PROVE x \in F!Attached(ms) <=> x \in F!Attached(ns)
  <2>1. PICK u, m : u = ns[x].parent /\ m = ns[x].name
    OBVIOUS
  <2>2. ms[x].parent = u /\ ms[x].name = m
    BY <1>1, <1>4, <2>1 DEF Same
  <2>3. CASE u = 0
    BY <1>1, <1>4, <2>1, <2>2, <2>3 DEF F!Attached
  <2>4. CASE u # 0
    <3>1. u \in 1..Len(ns) /\ m \in Names
      BY <1>4, <2>1, <2>4, TreeFacts
    <3>2. F!Child(ms, u, m) = IF u = i /\ m = n THEN 0 ELSE F!Child(ns, u, m)
      BY <1>1, <3>1
    <3>3. F!Child(ms, u, m) = x <=> F!Child(ns, u, m) = x
      BY <1>4, <1>2, <3>2
    <3> QED
      BY <1>1, <1>4, <2>1, <2>2, <2>4, <3>3 DEF F!Attached
  <2> QED
    BY <2>3, <2>4
<1>5. 1 \in F!Attached(ms) /\ 1 \in F!Attached(ns)
  BY DEF F!Attached
<1>6. F!Attached(ms) \subseteq 1..Len(ns) /\ F!Attached(ns) \subseteq 1..Len(ns)
  BY <1>1, <1>2 DEF F!Attached
<1> QED
  BY <1>2, <1>3, <1>4, <1>5, <1>6

-----------------------------------------------------------------------------
(* Paths and the storages of the links *)

\* The links of a file system: none at the root, none below another.
LinksApart ==
  /\ links \subseteq Seq(Names) \ {<<>>}
  /\ \A a, b \in links : a # b => ~F!IsPrefix(a, b)

\* No link begins the path.
Bare(p) == \A l \in links : ~F!IsPrefix(l, p)

\* A path that no link begins.
LEMMA BareKey ==
  ASSUME NEW p \in Seq(Names), Bare(p)
  PROVE  F!GetUFS(p) = [ufs |-> <<>>, sub |-> p]
<1>1. {l \in links : F!IsPrefix(l, p)} = {}
  BY DEF Bare
<1> QED
  BY <1>1 DEF F!GetUFS

\* A path that a link begins.
LEMMA LinkedKey ==
  ASSUME LinksApart, NEW p \in Seq(Names), NEW l \in links, F!IsPrefix(l, p)
  PROVE  F!GetUFS(p) = [ufs |-> l, sub |-> SubSeq(p, Len(l) + 1, Len(p))]
<1> DEFINE over == {x \in links : F!IsPrefix(x, p)}
<1>1. ASSUME NEW x \in over PROVE x = l
  <2>1. x \in Seq(Names) /\ l \in Seq(Names) /\ x \in links /\ F!IsPrefix(x, p)
    BY DEF LinksApart
  <2>2. F!IsPrefix(x, l) \/ F!IsPrefix(l, x)
    BY <2>1, Prefixes
  <2> QED
    BY <2>1, <2>2 DEF LinksApart
<1>2. over # {} /\ (CHOOSE x \in over : TRUE) = l
  <2>1. l \in over
    OBVIOUS
  <2>2. (CHOOSE x \in over : TRUE) \in over
    BY <2>1
  <2> QED
    BY <1>1, <2>1, <2>2
<1>3. F!GetUFS(p) = IF over = {} THEN [ufs |-> <<>>, sub |-> p]
                    ELSE LET x == CHOOSE x \in over : TRUE
                         IN  [ufs |-> x, sub |-> SubSeq(p, Len(x) + 1, Len(p))]
  BY DEF F!GetUFS
<1> HIDE DEF over
<1> QED
  BY <1>2, <1>3

\* A path is the path of its link, or nothing, and the path in the link's storage.
LEMMA KeyParts ==
  ASSUME LinksApart, NEW p \in Seq(Names), NEW k, k = F!GetUFS(p)
  PROVE  /\ k = [ufs |-> k.ufs, sub |-> k.sub] /\ k \in F!Keys
         /\ k.ufs \in links \cup {<<>>} /\ k.ufs \in Seq(Names) /\ k.sub \in Seq(Names)
         /\ F!IsPrefix(k.ufs, p) /\ Len(k.ufs) \in Nat
         /\ Len(p) = Len(k.ufs) + Len(k.sub)
         /\ \A i \in 1..Len(k.ufs) : p[i] = k.ufs[i]
         /\ \A i \in 1..Len(k.sub) : p[Len(k.ufs) + i] = k.sub[i]
<1>1. CASE Bare(p)
  <2>1. k = [ufs |-> <<>>, sub |-> p]
    BY <1>1, BareKey
  <2>2. PICK e : e = <<>>
    OBVIOUS
  <2>3. e \in Seq(Names) /\ Len(e) = 0 /\ F!IsPrefix(e, p) /\ Len(p) \in Nat
    BY <2>2, Prefixes
  <2>4. k.ufs = e /\ k.sub = p /\ k = [ufs |-> k.ufs, sub |-> k.sub]
    BY <2>1, <2>2
  <2> QED
    BY <2>2, <2>3, <2>4 DEF F!Keys
<1>2. CASE ~Bare(p)
  <2>1. PICK l \in links : F!IsPrefix(l, p)
    BY <1>2 DEF Bare
  <2>2. k = [ufs |-> l, sub |-> SubSeq(p, Len(l) + 1, Len(p))]
    BY <2>1, LinkedKey
  <2>3. l \in Seq(Names) /\ Len(l) \in Nat /\ Len(p) \in Nat
    BY DEF LinksApart
  <2>4. Len(l) <= Len(p) /\ \A i \in 1..Len(l) : l[i] = p[i]
    BY <2>1, <2>3, BeginsWith
  <2>5. PICK sb : sb = SubSeq(p, Len(l) + 1, Len(p))
    OBVIOUS
  <2>6. /\ sb \in Seq(Names) /\ Len(sb) = Len(p) - Len(l)
        /\ \A i \in 1..Len(sb) : sb[i] = p[Len(l) + i]
    <3>1. \A i \in Len(l) + 1..Len(p) : p[i] \in Names
      BY <2>3
    <3>2. /\ sb \in Seq(Names) /\ Len(sb) = IF Len(l) + 1 <= Len(p) THEN Len(p) - (Len(l) + 1) + 1 ELSE 0
          /\ \A i \in 1..Len(p) - (Len(l) + 1) + 1 : sb[i] = p[(Len(l) + 1) + i - 1]
      BY <2>3, <2>5, <3>1, SubSeqProperties
    <3>3. Len(sb) = Len(p) - Len(l)
      BY <2>3, <2>4, <3>2
    <3>4. \A i \in 1..Len(sb) : i \in 1..Len(p) - (Len(l) + 1) + 1 /\ (Len(l) + 1) + i - 1 = Len(l) + i
      BY <2>3, <2>4, <3>3
    <3> QED
      BY <3>2, <3>3, <3>4
  <2>7. k.ufs = l /\ k.sub = sb /\ k = [ufs |-> k.ufs, sub |-> k.sub]
    BY <2>2, <2>5
  <2>8. Len(p) = Len(l) + Len(sb)
    BY <2>3, <2>4, <2>6
  <2> QED
    BY <2>1, <2>3, <2>4, <2>6, <2>7, <2>8 DEF F!Keys
<1> QED
  BY <1>1, <1>2

\* A path p that is the path u of its link, or nothing, and b in the link's storage.
Pieces(p, u, b) ==
  /\ u \in links \cup {<<>>} /\ u \in Seq(Names) /\ b \in Seq(Names)
  /\ Len(u) \in Nat /\ Len(b) \in Nat /\ Len(p) = Len(u) + Len(b)
  /\ \A i \in 1..Len(u) : p[i] = u[i]
  /\ \A i \in 1..Len(b) : p[Len(u) + i] = b[i]

\* GetUFS() takes a path apart so.
LEMMA KeyPieces ==
  ASSUME LinksApart, NEW p \in Seq(Names)
  PROVE  \E u, b : F!GetUFS(p) = [ufs |-> u, sub |-> b] /\ Pieces(p, u, b)
<1>1. PICK k : k = F!GetUFS(p)
  OBVIOUS
<1>2. /\ k = [ufs |-> k.ufs, sub |-> k.sub]
      /\ k.ufs \in links \cup {<<>>} /\ k.ufs \in Seq(Names) /\ k.sub \in Seq(Names)
      /\ Len(k.ufs) \in Nat /\ Len(p) = Len(k.ufs) + Len(k.sub)
      /\ \A i \in 1..Len(k.ufs) : p[i] = k.ufs[i]
      /\ \A i \in 1..Len(k.sub) : p[Len(k.ufs) + i] = k.sub[i]
  BY <1>1, KeyParts, ZenonT(60)
<1>3. PICK u, b : u = k.ufs /\ b = k.sub
  OBVIOUS
<1>4. Len(b) \in Nat
  BY <1>2, <1>3
<1>5. Pieces(p, u, b)
  BY <1>2, <1>3, <1>4, ZenonT(30) DEF Pieces
<1> QED
  BY <1>1, <1>2, <1>3, <1>5, ZenonT(30)

\* Two paths never share a key.
LEMMA KeysDiffer ==
  ASSUME LinksApart, NEW p \in Seq(Names), NEW q \in Seq(Names), F!GetUFS(p) = F!GetUFS(q)
  PROVE  p = q
<1>1. PICK u, sb : F!GetUFS(p) = [ufs |-> u, sub |-> sb] /\ Pieces(p, u, sb)
  BY KeyPieces
<1>2. PICK v, c : F!GetUFS(q) = [ufs |-> v, sub |-> c] /\ Pieces(q, v, c)
  BY KeyPieces
<1>3. v = u /\ c = sb
  <2>1. PICK g : g = F!GetUFS(p)
    OBVIOUS
  <2>2. g = [ufs |-> u, sub |-> sb] /\ g = [ufs |-> v, sub |-> c]
    BY <1>1, <1>2, <2>1
  <2> QED
    BY <2>2
<1>4. Pieces(q, u, sb)
  BY <1>2, <1>3
<1>5. ASSUME NEW i \in 1..Len(p) PROVE p[i] = q[i]
  <2>1. CASE i \in 1..Len(u)
    BY <1>1, <1>4, <2>1 DEF Pieces
  <2>2. CASE i \notin 1..Len(u)
    <3>1. PICK j : j = i - Len(u)
      OBVIOUS
    <3>2. j \in 1..Len(sb) /\ i = Len(u) + j
      <4>1. Len(u) \in Nat /\ Len(sb) \in Nat /\ Len(p) = Len(u) + Len(sb)
        BY <1>1 DEF Pieces
      <4>2. i \in Nat /\ 1 <= i /\ i <= Len(u) + Len(sb)
        BY <4>1
      <4> QED
        BY <2>2, <3>1, <4>1, <4>2
    <3>3. p[Len(u) + j] = sb[j]
      <4>1. \A h \in 1..Len(sb) : p[Len(u) + h] = sb[h]
        BY <1>1 DEF Pieces
      <4> QED
        BY <3>2, <4>1
    <3>4. q[Len(u) + j] = sb[j]
      <4>1. \A h \in 1..Len(sb) : q[Len(u) + h] = sb[h]
        BY <1>4 DEF Pieces
      <4> QED
        BY <3>2, <4>1
    <3> QED
      BY <3>2, <3>3, <3>4
  <2> QED
    BY <2>1, <2>2
<1>6. Len(p) = Len(q)
  BY <1>1, <1>4 DEF Pieces
<1> QED
  BY <1>5, <1>6, SeqEqual

\* The roots of the storages.
LEMMA KeyOfLink ==
  ASSUME LinksApart, NEW p \in Seq(Names)
  PROVE  F!GetUFS(p).sub = <<>> <=> p \in links \cup {<<>>}
<1>1. PICK u, b : F!GetUFS(p) = [ufs |-> u, sub |-> b] /\ Pieces(p, u, b)
  BY KeyPieces
<1>2. F!GetUFS(p).sub = b /\ F!GetUFS(p).ufs = u
  BY <1>1
<1>3. b = <<>> <=> Len(b) = 0
  BY <1>1 DEF Pieces
<1>4. ASSUME b = <<>> PROVE p = u
  <2>1. Len(p) = Len(u)
    BY <1>1, <1>3, <1>4 DEF Pieces
  <2> QED
    BY <1>1, <2>1, SeqEqual DEF Pieces
<1>5. ASSUME p \in links PROVE b = <<>>
  <2>1. F!IsPrefix(p, p)
    BY Prefixes
  <2>2. F!GetUFS(p) = [ufs |-> p, sub |-> SubSeq(p, Len(p) + 1, Len(p))]
    BY <1>5, <2>1, LinkedKey
  <2>3. u = p
    BY <1>2, <2>2
  <2>4. Len(p) = Len(p) + Len(b) /\ Len(p) \in Nat /\ Len(b) \in Nat
    BY <1>1, <2>3 DEF Pieces
  <2>5. Len(b) = 0
    BY <2>4
  <2> QED
    BY <1>3, <2>5
<1>6. ASSUME p = <<>> PROVE b = <<>>
  <2>1. Len(p) = 0
    BY <1>6
  <2>2. Len(b) = 0
    BY <1>1, <2>1 DEF Pieces
  <2> QED
    BY <1>3, <2>2
<1>7. u \in links \cup {<<>>}
  BY <1>1 DEF Pieces
<1> QED
  BY <1>2, <1>4, <1>5, <1>6, <1>7

\* A path in one storage, and its directory.
LEMMA KeyOfChild ==
  ASSUME LinksApart, NEW d \in Seq(Names), NEW n \in Names, Append(d, n) \notin links
  PROVE  /\ F!GetUFS(Append(d, n)) = [ufs |-> F!GetUFS(d).ufs, sub |-> Append(F!GetUFS(d).sub, n)]
         /\ F!Parent(F!GetUFS(Append(d, n))) = F!GetUFS(d)
<1>1. PICK p : p = Append(d, n)
  OBVIOUS
<1>2. p \in Seq(Names) /\ Len(p) = Len(d) + 1 /\ Len(d) \in Nat /\ F!IsPrefix(d, p) /\ p # <<>>
  BY <1>1, AppendFields
<1>3. PICK u, a : F!GetUFS(d) = [ufs |-> u, sub |-> a] /\ Pieces(d, u, a)
  BY KeyPieces
<1>4. PICK v, b : F!GetUFS(p) = [ufs |-> v, sub |-> b] /\ Pieces(p, v, b)
  BY <1>2, KeyPieces
<1>5. v = u
  <2>1. CASE Bare(d)
    <3>1. Bare(p)
      <4> SUFFICES ASSUME NEW l \in links, F!IsPrefix(l, p) PROVE FALSE
        BY DEF Bare
      <4>1. l \in Seq(Names) /\ l # p
        BY <1>1 DEF LinksApart
      <4>2. F!IsPrefix(l, d)
        BY <1>1, <4>1, PrefixOfAppend
      <4> QED
        BY <2>1, <4>2 DEF Bare
    <3>2. F!GetUFS(p) = [ufs |-> <<>>, sub |-> p] /\ F!GetUFS(d) = [ufs |-> <<>>, sub |-> d]
      BY <1>2, <2>1, <3>1, BareKey
    <3> QED
      BY <1>3, <1>4, <3>2
  <2>2. CASE ~Bare(d)
    <3>1. PICK l \in links : F!IsPrefix(l, d)
      BY <2>2 DEF Bare
    <3>2. l \in Seq(Names) /\ F!IsPrefix(l, p)
      BY <1>2, <3>1, Prefixes DEF LinksApart
    <3>3. F!GetUFS(p).ufs = l /\ F!GetUFS(d).ufs = l
      BY <1>2, <3>1, <3>2, LinkedKey
    <3> QED
      BY <1>3, <1>4, <3>3
  <2> QED
    BY <2>1, <2>2
<1>6. /\ u \in Seq(Names) /\ a \in Seq(Names) /\ Len(u) \in Nat /\ Len(a) \in Nat
      /\ Len(d) = Len(u) + Len(a)
      /\ \A i \in 1..Len(a) : d[Len(u) + i] = a[i]
  BY <1>3 DEF Pieces
<1>7. /\ b \in Seq(Names) /\ Len(b) \in Nat
      /\ Len(p) = Len(u) + Len(b)
      /\ \A i \in 1..Len(b) : p[Len(u) + i] = b[i]
  BY <1>4, <1>5 DEF Pieces
<1>8. Len(a) \in Nat /\ Len(b) = Len(a) + 1
  BY <1>2, <1>6, <1>7
<1>9. PICK c : c = Append(a, n)
  OBVIOUS
<1>10. c \in Seq(Names) /\ Len(c) = Len(a) + 1 /\ c[Len(a) + 1] = n /\ \A i \in 1..Len(a) : c[i] = a[i]
  BY <1>6, <1>9, AppendProperties
<1>11. p[Len(d) + 1] = n /\ \A i \in 1..Len(d) : p[i] = d[i]
  BY <1>1, AppendProperties
<1>12. ASSUME NEW i \in 1..Len(b) PROVE b[i] = c[i]
  <2>1. CASE i = Len(a) + 1
    <3>1. Len(u) + i = Len(d) + 1
      BY <1>6, <1>8, <2>1
    <3> QED
      BY <1>7, <1>10, <1>11, <2>1, <3>1
  <2>2. CASE i # Len(a) + 1
    <3>1. i \in 1..Len(a) /\ Len(u) + i \in 1..Len(d)
      BY <1>6, <1>8, <2>2
    <3>2. b[i] = p[Len(u) + i] /\ p[Len(u) + i] = d[Len(u) + i] /\ d[Len(u) + i] = a[i] /\ c[i] = a[i]
      BY <1>6, <1>7, <1>10, <1>11, <3>1
    <3> QED
      BY <3>2
  <2> QED
    BY <2>1, <2>2
<1>13. b = c
  BY <1>7, <1>8, <1>10, <1>12, SeqEqual
<1>14. F!DirName(c) = a
  BY <1>6, <1>9, AppendFields
<1>15. F!GetUFS(p) = [ufs |-> u, sub |-> c]
  BY <1>4, <1>5, <1>13
<1>16. F!Parent(F!GetUFS(p)) = [ufs |-> u, sub |-> a]
  BY <1>14, <1>15 DEF F!Parent
<1>17. F!GetUFS(d).ufs = u /\ F!GetUFS(d).sub = a
  BY <1>3
<1> QED
  BY <1>1, <1>3, <1>9, <1>15, <1>16, <1>17

\* Below a path is below it in its storage, unless a link comes between.
LEMMA KeyBelow ==
  ASSUME LinksApart, NEW p \in Seq(Names), NEW q \in Seq(Names), F!IsPrefix(p, q),
         \A l \in links : F!IsPrefix(p, l) => p = l
  PROVE  F!GetUFS(p).ufs = F!GetUFS(q).ufs /\ F!IsPrefix(F!GetUFS(p).sub, F!GetUFS(q).sub)
<1>1. PICK u, a : F!GetUFS(p) = [ufs |-> u, sub |-> a] /\ Pieces(p, u, a)
  BY KeyPieces
<1>2. PICK v, b : F!GetUFS(q) = [ufs |-> v, sub |-> b] /\ Pieces(q, v, b)
  BY KeyPieces
<1>3. v = u
  <2>1. CASE Bare(q)
    <3>1. Bare(p)
      BY <2>1, Prefixes DEF Bare, LinksApart
    <3>2. F!GetUFS(p) = [ufs |-> <<>>, sub |-> p] /\ F!GetUFS(q) = [ufs |-> <<>>, sub |-> q]
      BY <2>1, <3>1, BareKey
    <3> QED
      BY <1>1, <1>2, <3>2
  <2>2. CASE ~Bare(q)
    <3>1. PICK l \in links : F!IsPrefix(l, q)
      BY <2>2 DEF Bare
    <3>2. l \in Seq(Names)
      BY DEF LinksApart
    <3>3. F!IsPrefix(l, p)
      <4>1. F!IsPrefix(l, p) \/ F!IsPrefix(p, l)
        BY <3>1, <3>2, Prefixes
      <4> QED
        BY <4>1, <3>2, Prefixes
    <3>4. F!GetUFS(p).ufs = l /\ F!GetUFS(q).ufs = l
      BY <3>1, <3>3, LinkedKey
    <3> QED
      BY <1>1, <1>2, <3>4
  <2> QED
    BY <2>1, <2>2
<1>4. /\ u \in Seq(Names) /\ a \in Seq(Names) /\ Len(u) \in Nat /\ Len(a) \in Nat
      /\ Len(p) = Len(u) + Len(a)
      /\ \A i \in 1..Len(a) : p[Len(u) + i] = a[i]
  BY <1>1 DEF Pieces
<1>5. /\ b \in Seq(Names) /\ Len(b) \in Nat /\ Len(q) = Len(u) + Len(b)
      /\ \A i \in 1..Len(b) : q[Len(u) + i] = b[i]
  BY <1>2, <1>3 DEF Pieces
<1>6. Len(p) <= Len(q) /\ \A i \in 1..Len(p) : p[i] = q[i]
  BY BeginsWith
<1>7. Len(a) \in Nat /\ Len(b) \in Nat /\ Len(a) <= Len(b)
  BY <1>4, <1>5, <1>6
<1>8. ASSUME NEW i \in 1..Len(a) PROVE a[i] = b[i]
  <2>1. Len(u) + i \in 1..Len(p) /\ i \in 1..Len(b)
    BY <1>4, <1>7
  <2>2. a[i] = p[Len(u) + i] /\ p[Len(u) + i] = q[Len(u) + i] /\ q[Len(u) + i] = b[i]
    BY <1>4, <1>5, <1>6, <2>1
  <2> QED
    BY <2>2
<1>9. F!IsPrefix(a, b)
  BY <1>4, <1>5, <1>7, <1>8, BeginsWith
<1> QED
  BY <1>1, <1>2, <1>3, <1>9

\* Below a key in a storage is below its path.
LEMMA KeyAbove ==
  ASSUME LinksApart, NEW p \in Seq(Names), NEW q \in Seq(Names),
         F!GetUFS(p).ufs = F!GetUFS(q).ufs, F!IsPrefix(F!GetUFS(p).sub, F!GetUFS(q).sub)
  PROVE  F!IsPrefix(p, q)
<1>1. PICK u, a : F!GetUFS(p) = [ufs |-> u, sub |-> a] /\ Pieces(p, u, a)
  BY KeyPieces
<1>2. PICK v, b : F!GetUFS(q) = [ufs |-> v, sub |-> b] /\ Pieces(q, v, b)
  BY KeyPieces
<1>3. v = u /\ F!IsPrefix(a, b)
  BY <1>1, <1>2
<1>4. /\ u \in Seq(Names) /\ a \in Seq(Names) /\ Len(u) \in Nat /\ Len(a) \in Nat
      /\ Len(p) = Len(u) + Len(a)
      /\ \A i \in 1..Len(u) : p[i] = u[i]
      /\ \A i \in 1..Len(a) : p[Len(u) + i] = a[i]
  BY <1>1 DEF Pieces
<1>5. /\ b \in Seq(Names) /\ Len(b) \in Nat /\ Len(q) = Len(u) + Len(b)
      /\ \A i \in 1..Len(u) : q[i] = u[i]
      /\ \A i \in 1..Len(b) : q[Len(u) + i] = b[i]
  BY <1>2, <1>3 DEF Pieces
<1>6. Len(a) <= Len(b) /\ \A i \in 1..Len(a) : a[i] = b[i]
  BY <1>3, <1>4, <1>5, BeginsWith
<1>7. ASSUME NEW i \in 1..Len(p) PROVE p[i] = q[i]
  <2>1. CASE i \in 1..Len(u)
    BY <1>4, <1>5, <2>1
  <2>2. CASE i \notin 1..Len(u)
    <3>1. PICK j : j = i - Len(u)
      OBVIOUS
    <3>2. j \in 1..Len(a) /\ j \in 1..Len(b) /\ i = Len(u) + j
      BY <1>4, <1>5, <1>6, <2>2, <3>1
    <3> QED
      BY <1>4, <1>5, <1>6, <3>2
  <2> QED
    BY <2>1, <2>2
<1>8. Len(p) <= Len(q)
  BY <1>4, <1>5, <1>6
<1> QED
  BY <1>7, <1>8, BeginsWith

-----------------------------------------------------------------------------
(* What the storages hold *)

\* What StoresAreTrees says of each key.
LEMMA StoreFacts ==
  ASSUME F!StoresAreTrees
  PROVE  /\ LinksApart
         /\ \A k \in DOMAIN store :
              /\ k \in F!Keys /\ k = [ufs |-> k.ufs, sub |-> k.sub] /\ k.sub \in Seq(Names) /\ store[k] \in BOOLEAN
              /\ k.sub = <<>> => store[k]
              /\ k.sub # <<>> => F!Parent(k) \in DOMAIN store /\ store[F!Parent(k)]
         /\ [ufs |-> <<>>, sub |-> <<>>] \in DOMAIN store
<1>1. LinksApart
  BY DEF F!StoresAreTrees, LinksApart
<1>2. [ufs |-> <<>>, sub |-> <<>>] \in DOMAIN store
  BY DEF F!StoresAreTrees, F!Exists
<1>3. \A k \in DOMAIN store : k \in F!Keys /\ k = [ufs |-> k.ufs, sub |-> k.sub] /\ k.sub \in Seq(Names)
  BY DEF F!StoresAreTrees, F!Keys
<1>4. \A k \in DOMAIN store :
              /\ store[k] \in BOOLEAN
              /\ k.sub = <<>> => store[k]
              /\ k.sub # <<>> => F!Parent(k) \in DOMAIN store /\ store[F!Parent(k)]
  BY DEF F!StoresAreTrees, F!DirAt, F!Exists
<1> QED
  BY <1>1, <1>2, <1>3, <1>4

\* The directory of a key.
LEMMA ParentFields ==
  ASSUME NEW k \in F!Keys, k.sub # <<>>
  PROVE  /\ F!Parent(k) \in F!Keys /\ F!Parent(k) = [ufs |-> k.ufs, sub |-> F!DirName(k.sub)]
         /\ F!Parent(k).ufs = k.ufs /\ F!Parent(k).sub = F!DirName(k.sub)
         /\ F!IsPrefix(F!Parent(k).sub, k.sub) /\ Len(F!Parent(k).sub) = Len(k.sub) - 1 /\ F!Parent(k) # k
         /\ \A a \in Seq(Names) : F!IsPrefix(a, k.sub) /\ a # k.sub => F!IsPrefix(a, F!Parent(k).sub)
<1>1. PICK u, sb : u = k.ufs /\ sb = k.sub
  OBVIOUS
<1>2. k = [ufs |-> u, sub |-> sb] /\ sb \in Seq(Names) /\ sb # <<>> /\ u \in links \cup {<<>>}
  BY <1>1 DEF F!Keys
<1>3. PICK d, n : d = F!DirName(sb) /\ n = F!Last(sb)
  OBVIOUS
<1>4. d \in Seq(Names) /\ n \in Names /\ sb = Append(d, n)
  BY <1>2, <1>3, PathParts
<1>5. Len(sb) = Len(d) + 1 /\ Len(d) \in Nat /\ F!IsPrefix(d, sb) /\ d # sb
  BY <1>4, AppendFields
<1>6. PICK q : q = F!Parent(k)
  OBVIOUS
<1>7. q = [ufs |-> u, sub |-> d]
  BY <1>2, <1>3, <1>6 DEF F!Parent
<1>8. \A a \in Seq(Names) : F!IsPrefix(a, sb) /\ a # sb => F!IsPrefix(a, d)
  BY <1>4, PrefixOfAppend
<1>9. q \in F!Keys /\ q.ufs = u /\ q.sub = d /\ q # k
  BY <1>2, <1>4, <1>5, <1>7 DEF F!Keys
<1>10. Len(d) = Len(sb) - 1
  BY <1>5
<1> QED
  BY <1>1, <1>3, <1>5, <1>6, <1>7, <1>8, <1>9, <1>10

\* What something is below is a directory.
LEMMA AboveIsDir ==
  ASSUME F!StoresAreTrees, NEW j \in F!Keys, NEW k \in DOMAIN store, k # j, k.ufs = j.ufs, F!IsPrefix(j.sub, k.sub)
  PROVE  j \in DOMAIN store /\ store[j]
<1> DEFINE Below(x) == x \in DOMAIN store /\ x # j /\ x.ufs = j.ufs /\ F!IsPrefix(j.sub, x.sub)
           Sizes == {Len(x.sub) : x \in {y \in DOMAIN store : Below(y)}}
<1>1. SUFFICES ASSUME ~(j \in DOMAIN store /\ store[j]) PROVE FALSE
  OBVIOUS
<1>2. Sizes \in SUBSET Nat
  BY StoreFacts
<1>3. PICK m \in Sizes : \A y \in Sizes : m <= y
  <2>1. Len(k.sub) \in Sizes
    OBVIOUS
  <2> QED
    BY <1>2, <2>1, LeastOfSet
<1>4. PICK x : Below(x) /\ m = Len(x.sub)
  BY <1>3
<1>5. x \in F!Keys /\ x.sub \in Seq(Names) /\ j.sub \in Seq(Names) /\ j = [ufs |-> j.ufs, sub |-> j.sub] /\ x = [ufs |-> x.ufs, sub |-> x.sub]
  BY <1>4, StoreFacts DEF F!Keys
<1>6. x.sub # j.sub
  BY <1>4, <1>5
<1>7. x.sub # <<>>
  BY <1>4, <1>5, <1>6, Prefixes
<1>8. PICK q : q = F!Parent(x)
  OBVIOUS
<1>9. q \in DOMAIN store /\ store[q] /\ q.ufs = x.ufs /\ Len(q.sub) = Len(x.sub) - 1 /\ F!IsPrefix(j.sub, q.sub)
  BY <1>4, <1>5, <1>6, <1>7, <1>8, StoreFacts, ParentFields
<1>10. q # j
  BY <1>1, <1>9
<1>11. Below(q)
  BY <1>4, <1>9, <1>10
<1>12. Len(q.sub) \in Sizes
  BY <1>9, <1>11
<1>13. m \in Nat /\ ~(m <= m - 1)
  BY <1>2, <1>3
<1> QED
  BY <1>3, <1>4, <1>9, <1>12, <1>13

\* Trees of keys, said one by one.
LEMMA StoreFromFacts ==
  ASSUME LinksApart, links' = links, NEW st, store' = st,
         \A k \in DOMAIN st :
              /\ k \in F!Keys /\ st[k] \in BOOLEAN
              /\ k.sub = <<>> => st[k]
              /\ k.sub # <<>> => F!Parent(k) \in DOMAIN st /\ st[F!Parent(k)],
         [ufs |-> <<>>, sub |-> <<>>] \in DOMAIN st
  PROVE  F!StoresAreTrees'
<1>1. F!Keys' = F!Keys
  BY DEF F!Keys
<1> QED
  BY <1>1 DEF F!StoresAreTrees, F!DirAt, F!Exists, LinksApart

\* A new key in a directory that is there leaves trees.
LEMMA StoreGrows ==
  ASSUME F!StoresAreTrees, NEW k \in F!Keys, F!MayMake(k), NEW d \in BOOLEAN, store' = F!With(k, d), links' = links
  PROVE  /\ F!StoresAreTrees' /\ DOMAIN store' = DOMAIN store \cup {k} /\ k \notin DOMAIN store
         /\ store'[k] = d /\ \A x \in DOMAIN store : store'[x] = store[x]
<1>1. k \notin DOMAIN store /\ k.sub # <<>> /\ F!Parent(k) \in DOMAIN store /\ store[F!Parent(k)]
  BY DEF F!MayMake, F!Exists, F!DirAt
<1>2. store' = [x \in DOMAIN store \cup {k} |-> IF x = k THEN d ELSE store[x]]
  BY DEF F!With, F!Put
<1>3. PICK st : st = store'
  OBVIOUS
<1>4. DOMAIN st = DOMAIN store \cup {k} /\ st[k] = d /\ \A x \in DOMAIN store : st[x] = store[x]
  BY <1>1, <1>2, <1>3
<1>5. /\ LinksApart /\ [ufs |-> <<>>, sub |-> <<>>] \in DOMAIN st
      /\ \A x \in DOMAIN st :
              /\ x \in F!Keys /\ st[x] \in BOOLEAN
              /\ x.sub = <<>> => st[x]
              /\ x.sub # <<>> => F!Parent(x) \in DOMAIN st /\ st[F!Parent(x)]
  BY <1>1, <1>4, StoreFacts
<1>6. F!StoresAreTrees'
  BY <1>3, <1>5, StoreFromFacts
<1> QED
  BY <1>1, <1>3, <1>4, <1>6

\* Removing a key with nothing below it leaves trees.
LEMMA StoreShrinks ==
  ASSUME F!StoresAreTrees, NEW k \in DOMAIN store, k # [ufs |-> <<>>, sub |-> <<>>], store' = F!Without({k}), links' = links,
         \A j \in DOMAIN store : j.ufs = k.ufs /\ F!IsPrefix(k.sub, j.sub) => j = k
  PROVE  /\ F!StoresAreTrees' /\ DOMAIN store' = DOMAIN store \ {k}
         /\ \A x \in DOMAIN store' : store'[x] = store[x]
<1>1. store' = [x \in DOMAIN store \ {k} |-> store[x]]
  BY DEF F!Without, F!Restrict
<1>2. PICK st : st = store'
  OBVIOUS
<1>3. DOMAIN st = DOMAIN store \ {k} /\ \A x \in DOMAIN st : st[x] = store[x]
  BY <1>1, <1>2
<1>4. ASSUME NEW x \in DOMAIN st, x.sub # <<>> PROVE F!Parent(x) # k
  <2>1. x \in DOMAIN store /\ x # k /\ x \in F!Keys
    BY <1>3, StoreFacts
  <2>2. F!Parent(x).ufs = x.ufs /\ F!IsPrefix(F!Parent(x).sub, x.sub)
    BY <1>4, <2>1, ParentFields
  <2> QED
    BY <2>1, <2>2
<1>5. /\ LinksApart /\ [ufs |-> <<>>, sub |-> <<>>] \in DOMAIN st
      /\ \A x \in DOMAIN st :
              /\ x \in F!Keys /\ st[x] \in BOOLEAN
              /\ x.sub = <<>> => st[x]
              /\ x.sub # <<>> => F!Parent(x) \in DOMAIN st /\ st[F!Parent(x)]
  BY <1>3, <1>4, StoreFacts
<1>6. F!StoresAreTrees'
  BY <1>2, <1>5, StoreFromFacts
<1> QED
  BY <1>2, <1>3, <1>6

\* A path s at or below a, seen from b.
Onto(a, b, s) == b \o SubSeq(s, Len(a) + 1, Len(s))

\* The moved path, name by name.
LEMMA OntoFields ==
  ASSUME NEW a \in Seq(Names), NEW b \in Seq(Names), NEW s \in Seq(Names), F!IsPrefix(a, s)
  PROVE  /\ Onto(a, b, s) \in Seq(Names) /\ Len(Onto(a, b, s)) = Len(b) + (Len(s) - Len(a)) /\ Len(a) <= Len(s)
         /\ Len(a) \in Nat /\ Len(b) \in Nat /\ Len(s) \in Nat
         /\ \A i \in 1..Len(b) : Onto(a, b, s)[i] = b[i]
         /\ \A i \in 1..(Len(s) - Len(a)) : Onto(a, b, s)[Len(b) + i] = s[Len(a) + i]
<1>m. PICK m : m = Onto(a, b, s)
  OBVIOUS
<1>1. Len(a) \in Nat /\ Len(b) \in Nat /\ Len(s) \in Nat /\ Len(a) <= Len(s)
  BY BeginsWith
<1>2. PICK r : r = SubSeq(s, Len(a) + 1, Len(s))
  OBVIOUS
<1>3. /\ r \in Seq(Names) /\ Len(r) = Len(s) - Len(a)
      /\ \A i \in 1..(Len(s) - Len(a)) : r[i] = s[Len(a) + i]
  <2>1. \A i \in Len(a) + 1..Len(s) : s[i] \in Names
    BY <1>1
  <2>2. /\ r \in Seq(Names) /\ Len(r) = IF Len(a) + 1 <= Len(s) THEN Len(s) - (Len(a) + 1) + 1 ELSE 0
        /\ \A i \in 1..Len(s) - (Len(a) + 1) + 1 : r[i] = s[(Len(a) + 1) + i - 1]
    BY <1>1, <1>2, <2>1, SubSeqProperties
  <2>3. \A i \in 1..(Len(s) - Len(a)) : i \in 1..Len(s) - (Len(a) + 1) + 1 /\ (Len(a) + 1) + i - 1 = Len(a) + i
    BY <1>1
  <2>4. Len(r) = Len(s) - Len(a)
    BY <1>1, <2>2
  <2> QED
    BY <2>2, <2>3, <2>4
<1>4. m = b \o r
  BY <1>2, <1>m DEF Onto
<1>5. m \in Seq(Names) /\ Len(m) = Len(b) + Len(r)
  BY <1>3, <1>4, ConcatProperties
<1>9. \A i \in 1..Len(b) + Len(r) : m[i] = IF i <= Len(b) THEN b[i] ELSE r[i - Len(b)]
  <2>1. \A i \in 1..Len(b) + Len(r) : (b \o r)[i] = IF i <= Len(b) THEN b[i] ELSE r[i - Len(b)]
    <3>1. r \in Seq(Names)
      BY <1>3
    <3> QED
      BY <3>1, ConcatProperties
  <2> QED
    BY <1>4, <2>1
<1>6. ASSUME NEW i \in 1..Len(b) PROVE m[i] = b[i]
  BY <1>1, <1>3, <1>9
<1>7. ASSUME NEW i \in 1..Len(r) PROVE m[Len(b) + i] = r[i]
  <2>1. Len(b) + i \in 1..Len(b) + Len(r) /\ ~(Len(b) + i <= Len(b)) /\ (Len(b) + i) - Len(b) = i
    BY <1>1, <1>3
  <2> QED
    BY <1>9, <2>1
<1> QED
  BY <1>m, <1>1, <1>3, <1>5, <1>6, <1>7

\* Its length.
LEMMA OntoLength ==
  ASSUME NEW a \in Seq(Names), NEW b \in Seq(Names), NEW s \in Seq(Names), F!IsPrefix(a, s)
  PROVE  /\ Onto(a, b, s) \in Seq(Names) /\ Len(Onto(a, b, s)) = Len(b) + (Len(s) - Len(a)) /\ Len(a) <= Len(s)
         /\ Len(a) \in Nat /\ Len(b) \in Nat /\ Len(s) \in Nat
BY Zenon, OntoFields

\* Its names.
LEMMA OntoAt ==
  ASSUME NEW a \in Seq(Names), NEW b \in Seq(Names), NEW s \in Seq(Names), F!IsPrefix(a, s)
  PROVE  /\ \A i \in 1..Len(b) : Onto(a, b, s)[i] = b[i]
         /\ \A i \in 1..(Len(s) - Len(a)) : Onto(a, b, s)[Len(b) + i] = s[Len(a) + i]
BY Zenon, OntoFields

\* It is below where it went.
LEMMA OntoBelow ==
  ASSUME NEW a \in Seq(Names), NEW b \in Seq(Names), NEW s \in Seq(Names), F!IsPrefix(a, s)
  PROVE  F!IsPrefix(b, Onto(a, b, s))
<1>1. PICK m : m = Onto(a, b, s)
  OBVIOUS
<1>2. /\ m \in Seq(Names) /\ Len(m) = Len(b) + (Len(s) - Len(a)) /\ Len(a) <= Len(s)
      /\ Len(a) \in Nat /\ Len(b) \in Nat /\ Len(s) \in Nat
      /\ \A i \in 1..Len(b) : m[i] = b[i]
  <2>1. /\ m \in Seq(Names) /\ Len(m) = Len(b) + (Len(s) - Len(a)) /\ Len(a) <= Len(s)
      /\ Len(a) \in Nat /\ Len(b) \in Nat /\ Len(s) \in Nat
    BY <1>1, OntoLength
  <2>2. \A i \in 1..Len(b) : m[i] = b[i]
    BY <1>1, OntoAt
  <2> QED
    BY <2>1, <2>2
<1> QED
  BY <1>1, <1>2, BeginsWith

\* The moved path itself.
LEMMA OntoSelf ==
  ASSUME NEW a \in Seq(Names), NEW b \in Seq(Names) PROVE Onto(a, b, a) = b
<1>1. PICK m : m = Onto(a, b, a)
  OBVIOUS
<1>2. F!IsPrefix(a, a)
  BY Prefixes
<1>3. /\ m \in Seq(Names) /\ Len(m) = Len(b) + (Len(a) - Len(a)) /\ Len(a) <= Len(a)
      /\ Len(a) \in Nat /\ Len(b) \in Nat /\ Len(a) \in Nat
      /\ \A i \in 1..Len(b) : m[i] = b[i]
      /\ \A i \in 1..(Len(a) - Len(a)) : m[Len(b) + i] = a[Len(a) + i]
  <2>1. /\ m \in Seq(Names) /\ Len(m) = Len(b) + (Len(a) - Len(a)) /\ Len(a) <= Len(a)
        /\ Len(a) \in Nat /\ Len(b) \in Nat /\ Len(a) \in Nat
    BY <1>1, <1>2, OntoLength
  <2>2. \A i \in 1..Len(b) : m[i] = b[i]
    BY <1>1, <1>2, OntoAt
  <2>3. \A i \in 1..(Len(a) - Len(a)) : m[Len(b) + i] = a[Len(a) + i]
    BY <1>1, <1>2, OntoAt
  <2> QED
    BY <2>1, <2>2, <2>3
<1>4. Len(m) = Len(b)
  BY <1>3
<1> QED
  BY <1>1, <1>3, <1>4, SeqEqual

\* Different paths go to different places.
LEMMA OntoDiffers ==
  ASSUME NEW a \in Seq(Names), NEW b \in Seq(Names), NEW s \in Seq(Names), NEW t \in Seq(Names),
         F!IsPrefix(a, s), F!IsPrefix(a, t), Onto(a, b, s) = Onto(a, b, t)
  PROVE  s = t
<1>1. PICK m : m = Onto(a, b, s)
  OBVIOUS
<1>2. /\ Len(m) = Len(b) + (Len(s) - Len(a)) /\ Len(m) = Len(b) + (Len(t) - Len(a))
      /\ Len(a) \in Nat /\ Len(b) \in Nat /\ Len(s) \in Nat /\ Len(t) \in Nat
      /\ \A i \in 1..(Len(s) - Len(a)) : m[Len(b) + i] = s[Len(a) + i]
      /\ \A i \in 1..(Len(t) - Len(a)) : m[Len(b) + i] = t[Len(a) + i]
  <2>1. /\ Len(m) = Len(b) + (Len(s) - Len(a)) /\ Len(m) = Len(b) + (Len(t) - Len(a))
      /\ Len(a) \in Nat /\ Len(b) \in Nat /\ Len(s) \in Nat /\ Len(t) \in Nat
    <3>1. Len(Onto(a, b, s)) = Len(b) + (Len(s) - Len(a)) /\ Len(a) \in Nat /\ Len(b) \in Nat /\ Len(s) \in Nat
      BY OntoLength
    <3>2. Len(Onto(a, b, t)) = Len(b) + (Len(t) - Len(a)) /\ Len(t) \in Nat
      BY OntoLength
    <3> QED
      BY <1>1, <3>1, <3>2
  <2>2. \A i \in 1..(Len(s) - Len(a)) : m[Len(b) + i] = s[Len(a) + i]
    BY <1>1, OntoAt
  <2>3. \A i \in 1..(Len(t) - Len(a)) : m[Len(b) + i] = t[Len(a) + i]
    BY <1>1, OntoAt
  <2> QED
    BY <2>1, <2>2, <2>3
<1>3. Len(s) = Len(t)
  BY <1>2
<1>4. /\ \A i \in 1..Len(a) : a[i] = s[i]
      /\ \A i \in 1..Len(a) : a[i] = t[i]
  BY BeginsWith
<1>5. ASSUME NEW i \in 1..Len(s) PROVE s[i] = t[i]
  <2>1. CASE i \in 1..Len(a)
    BY <1>4, <2>1
  <2>2. CASE i \notin 1..Len(a)
    <3>1. PICK x : x = i - Len(a)
      OBVIOUS
    <3>2. x \in 1..(Len(s) - Len(a)) /\ x \in 1..(Len(t) - Len(a)) /\ i = Len(a) + x
      BY <1>2, <1>3, <2>2, <3>1
    <3>3. m[Len(b) + x] = s[Len(a) + x] /\ m[Len(b) + x] = t[Len(a) + x]
      BY <1>2, <3>2
    <3> QED
      BY <3>2, <3>3
  <2> QED
    BY <2>1, <2>2
<1> QED
  BY <1>3, <1>5, SeqEqual

\* Directories move with what is in them.
LEMMA OntoParent ==
  ASSUME NEW a \in Seq(Names), NEW b \in Seq(Names), NEW s \in Seq(Names), F!IsPrefix(a, s), a # s
  PROVE  /\ s # <<>> /\ F!DirName(s) \in Seq(Names) /\ F!IsPrefix(a, F!DirName(s))
         /\ F!DirName(Onto(a, b, s)) = Onto(a, b, F!DirName(s)) /\ Onto(a, b, s) # <<>>
<1>1. s # <<>>
  BY Prefixes
<1>2. PICK d, n : d = F!DirName(s) /\ n = F!Last(s)
  OBVIOUS
<1>3. d \in Seq(Names) /\ n \in Names /\ s = Append(d, n)
  BY <1>1, <1>2, PathParts
<1>4. F!IsPrefix(a, d)
  BY <1>3, PrefixOfAppend
<1>5. PICK m, md : m = Onto(a, b, s) /\ md = Onto(a, b, d)
  OBVIOUS
<1>6. /\ m \in Seq(Names) /\ Len(m) = Len(b) + (Len(s) - Len(a))
      /\ \A i \in 1..Len(b) : m[i] = b[i]
      /\ \A i \in 1..(Len(s) - Len(a)) : m[Len(b) + i] = s[Len(a) + i]
  <2>1. /\ m \in Seq(Names) /\ Len(m) = Len(b) + (Len(s) - Len(a))
    BY <1>5, OntoLength
  <2>2. \A i \in 1..Len(b) : m[i] = b[i]
    BY <1>5, OntoAt
  <2>3. \A i \in 1..(Len(s) - Len(a)) : m[Len(b) + i] = s[Len(a) + i]
    BY <1>5, OntoAt
  <2> QED
    BY <2>1, <2>2, <2>3
<1>7. /\ md \in Seq(Names) /\ Len(md) = Len(b) + (Len(d) - Len(a)) /\ Len(a) <= Len(d)
      /\ Len(a) \in Nat /\ Len(b) \in Nat /\ Len(d) \in Nat
      /\ \A i \in 1..Len(b) : md[i] = b[i]
      /\ \A i \in 1..(Len(d) - Len(a)) : md[Len(b) + i] = d[Len(a) + i]
  <2>1. /\ md \in Seq(Names) /\ Len(md) = Len(b) + (Len(d) - Len(a)) /\ Len(a) <= Len(d)
      /\ Len(a) \in Nat /\ Len(b) \in Nat /\ Len(d) \in Nat
    BY <1>3, <1>4, <1>5, OntoLength
  <2>2. \A i \in 1..Len(b) : md[i] = b[i]
    BY <1>3, <1>4, <1>5, OntoAt
  <2>3. \A i \in 1..(Len(d) - Len(a)) : md[Len(b) + i] = d[Len(a) + i]
    BY <1>3, <1>4, <1>5, OntoAt
  <2> QED
    BY <2>1, <2>2, <2>3
<1>8. Len(s) = Len(d) + 1 /\ s[Len(d) + 1] = n /\ \A i \in 1..Len(d) : s[i] = d[i]
  BY <1>3, AppendProperties
<1>9. PICK q : q = Append(md, n)
  OBVIOUS
<1>10. q \in Seq(Names) /\ Len(q) = Len(md) + 1 /\ q[Len(md) + 1] = n /\ \A i \in 1..Len(md) : q[i] = md[i]
  BY <1>3, <1>7, <1>9, AppendProperties
<1>11. Len(m) = Len(q)
  BY <1>6, <1>7, <1>8, <1>10
<1>12. ASSUME NEW i \in 1..Len(m) PROVE m[i] = q[i]
  <2>1. CASE i \in 1..Len(b)
    <3>1. i \in 1..Len(md)
      BY <1>7, <2>1
    <3> QED
      BY <1>6, <1>7, <1>10, <2>1, <3>1
  <2>2. CASE i = Len(md) + 1
    <3>1. PICK x : x = (Len(d) + 1) - Len(a)
      OBVIOUS
    <3>2. x \in 1..(Len(s) - Len(a)) /\ i = Len(b) + x /\ Len(a) + x = Len(d) + 1
      BY <1>7, <1>8, <2>2, <3>1
    <3> QED
      BY <1>6, <1>8, <1>10, <2>2, <3>2
  <2>3. CASE i \notin 1..Len(b) /\ i # Len(md) + 1
    <3>1. PICK x : x = i - Len(b)
      OBVIOUS
    <3>2. x \in 1..(Len(d) - Len(a)) /\ x \in 1..(Len(s) - Len(a)) /\ i = Len(b) + x /\ Len(a) + x \in 1..Len(d) /\ i \in 1..Len(md)
      <4>1. i \in Nat /\ 1 <= i /\ i <= Len(md) + 1 /\ i # Len(md) + 1 /\ i > Len(b)
        <5>1. i \in 1..Len(m) /\ Len(m) = Len(md) + 1 /\ Len(md) \in Nat /\ Len(b) \in Nat
          <6>1. Len(m) = Len(q) /\ Len(q) = Len(md) + 1
            BY <1>10, <1>11
          <6>2. Len(md) \in Nat /\ Len(b) \in Nat
            BY <1>7
          <6> QED
            BY <6>1, <6>2
        <5> QED
          BY <2>3, <5>1
      <4>2. /\ Len(md) = Len(b) + (Len(d) - Len(a)) /\ Len(s) = Len(d) + 1
            /\ Len(a) \in Nat /\ Len(b) \in Nat /\ Len(d) \in Nat /\ Len(a) <= Len(d)
        BY <1>7, <1>8
      <4>3. PICK la, lb, ld, lm : la = Len(a) /\ lb = Len(b) /\ ld = Len(d) /\ lm = Len(md)
        OBVIOUS
      <4>4. /\ la \in Nat /\ lb \in Nat /\ ld \in Nat /\ la <= ld /\ lm = lb + (ld - la) /\ Len(s) = ld + 1
            /\ i \in Nat /\ i <= lm + 1 /\ i # lm + 1 /\ i > lb /\ x = i - lb
        BY <3>1, <4>1, <4>2, <4>3
      <4>5. x \in Nat /\ 1 <= x /\ x <= ld - la /\ x <= (ld + 1) - la /\ i = lb + x /\ i <= lm
        BY <4>4
      <4>6. la + x \in Nat /\ 1 <= la + x /\ la + x <= ld
        BY <4>4, <4>5
      <4> QED
        BY <4>1, <4>3, <4>4, <4>5, <4>6
    <3>3. m[i] = s[Len(a) + x] /\ s[Len(a) + x] = d[Len(a) + x] /\ md[i] = d[Len(a) + x] /\ q[i] = md[i]
      BY <1>6, <1>7, <1>8, <1>10, <3>2
    <3> QED
      BY <3>3
  <2> QED
    BY <2>1, <2>2, <2>3
<1>13. m = q
  BY <1>6, <1>10, <1>11, <1>12, SeqEqual
<1>14. F!DirName(q) = md /\ q # <<>>
  BY <1>3, <1>7, <1>9, AppendFields
<1> QED
  BY <1>1, <1>2, <1>3, <1>4, <1>5, <1>13, <1>14

\* Where the key y goes when k becomes j.
Goes(k, j, y) == [ufs |-> k.ufs, sub |-> Onto(k.sub, j.sub, y.sub)]

\* What is inside a key.
LEMMA InsideFacts ==
  ASSUME F!StoresAreTrees, NEW k \in F!Keys
  PROVE  /\ \A y : y \in F!Inside(k) <=> y \in DOMAIN store /\ y.ufs = k.ufs /\ F!IsPrefix(k.sub, y.sub)
         /\ \A y \in F!Inside(k) : y \in F!Keys /\ y = [ufs |-> k.ufs, sub |-> y.sub] /\ y.sub \in Seq(Names)
         /\ k \in DOMAIN store => k \in F!Inside(k)
<1>1. \A y : y \in F!Inside(k) <=> y \in DOMAIN store /\ y.ufs = k.ufs /\ F!IsPrefix(k.sub, y.sub)
  BY DEF F!Inside
<1>2. \A y \in F!Inside(k) : y \in F!Keys /\ y = [ufs |-> k.ufs, sub |-> y.sub] /\ y.sub \in Seq(Names)
  BY <1>1, StoreFacts
<1>3. k \in DOMAIN store => k \in F!Inside(k)
  <2>1. k.sub \in Seq(Names)
    BY DEF F!Keys
  <2> QED
    BY <1>1, <2>1, Prefixes
<1> QED
  BY <1>1, <1>2, <1>3

\* Where what is inside goes.
LEMMA GoesFacts ==
  ASSUME F!StoresAreTrees, NEW k \in F!Keys, NEW j \in F!Keys, j.ufs = k.ufs
  PROVE  /\ \A y \in F!Inside(k) :
              /\ Goes(k, j, y) \in F!Keys /\ Goes(k, j, y).ufs = j.ufs /\ F!IsPrefix(j.sub, Goes(k, j, y).sub)
              /\ y # k =>
                   /\ y.sub # <<>> /\ Goes(k, j, y).sub # <<>> /\ F!Parent(y) \in F!Inside(k)
                   /\ F!Parent(Goes(k, j, y)) = Goes(k, j, F!Parent(y)) /\ store[F!Parent(y)]
         /\ \A y, z \in F!Inside(k) : Goes(k, j, y) = Goes(k, j, z) => y = z
         /\ Goes(k, j, k) = j
<1>1. PICK a, b, u : a = k.sub /\ b = j.sub /\ u = k.ufs
  OBVIOUS
<1>2. /\ a \in Seq(Names) /\ b \in Seq(Names) /\ k = [ufs |-> u, sub |-> a] /\ j = [ufs |-> u, sub |-> b]
      /\ u \in links \cup {<<>>}
  BY <1>1 DEF F!Keys
<1>3. \A y : Goes(k, j, y) = [ufs |-> u, sub |-> Onto(a, b, y.sub)]
  BY <1>1 DEF Goes
<1>4. Goes(k, j, k) = j
  BY <1>1, <1>2, <1>3, OntoSelf
<1>5. ASSUME NEW y \in F!Inside(k)
      PROVE  /\ Goes(k, j, y) \in F!Keys /\ Goes(k, j, y).ufs = j.ufs /\ F!IsPrefix(j.sub, Goes(k, j, y).sub)
             /\ y # k =>
                   /\ y.sub # <<>> /\ Goes(k, j, y).sub # <<>> /\ F!Parent(y) \in F!Inside(k)
                   /\ F!Parent(Goes(k, j, y)) = Goes(k, j, F!Parent(y)) /\ store[F!Parent(y)]
  <2>1. PICK s : s = y.sub
    OBVIOUS
  <2>2. y \in DOMAIN store /\ y \in F!Keys /\ y = [ufs |-> u, sub |-> s] /\ s \in Seq(Names) /\ F!IsPrefix(a, s)
    BY <1>1, <2>1, InsideFacts
  <2>3. PICK m : m = Onto(a, b, s)
    OBVIOUS
  <2>4. m \in Seq(Names) /\ F!IsPrefix(b, m)
    BY <1>2, <2>2, <2>3, OntoLength, OntoBelow
  <2>5. PICK g : g = Goes(k, j, y)
    OBVIOUS
  <2>6. g = [ufs |-> u, sub |-> m]
    BY <1>3, <2>1, <2>3, <2>5
  <2>7. g \in F!Keys /\ g.ufs = j.ufs /\ F!IsPrefix(j.sub, g.sub)
    BY <1>1, <1>2, <2>4, <2>6 DEF F!Keys
  <2>8. ASSUME y # k
        PROVE  /\ y.sub # <<>> /\ g.sub # <<>> /\ F!Parent(y) \in F!Inside(k)
               /\ F!Parent(g) = Goes(k, j, F!Parent(y)) /\ store[F!Parent(y)]
    <3>1. a # s
      BY <1>2, <2>2, <2>8
    <3>2. PICK d : d = F!DirName(s)
      OBVIOUS
    <3>3. s # <<>> /\ d \in Seq(Names) /\ F!IsPrefix(a, d) /\ F!DirName(m) = Onto(a, b, d) /\ m # <<>>
      BY <1>2, <2>2, <2>3, <3>1, <3>2, OntoParent
    <3>4. PICK q : q = F!Parent(y)
      OBVIOUS
    <3>5. q = [ufs |-> u, sub |-> d]
      BY <2>2, <3>2, <3>4 DEF F!Parent
    <3>6. q \in DOMAIN store /\ store[q]
      BY <2>1, <2>2, <3>3, <3>4, StoreFacts
    <3>7. q \in F!Inside(k)
      BY <1>1, <3>3, <3>5, <3>6, InsideFacts
    <3>8. F!Parent(g) = [ufs |-> u, sub |-> Onto(a, b, d)]
      BY <2>6, <3>3 DEF F!Parent
    <3>9. Goes(k, j, q) = [ufs |-> u, sub |-> Onto(a, b, d)]
      BY <1>3, <3>5
    <3> QED
      BY <2>1, <2>6, <3>3, <3>4, <3>6, <3>7, <3>8, <3>9
  <2> QED
    BY <2>5, <2>7, <2>8
<1>6. ASSUME NEW y \in F!Inside(k), NEW z \in F!Inside(k), Goes(k, j, y) = Goes(k, j, z) PROVE y = z
  <2>1. PICK s, t : s = y.sub /\ t = z.sub
    OBVIOUS
  <2>2. /\ y = [ufs |-> u, sub |-> s] /\ s \in Seq(Names) /\ F!IsPrefix(a, s)
        /\ z = [ufs |-> u, sub |-> t] /\ t \in Seq(Names) /\ F!IsPrefix(a, t)
    BY <1>1, <2>1, InsideFacts
  <2>3. Onto(a, b, s) = Onto(a, b, t)
    BY <1>3, <1>6, <2>1
  <2>4. s = t
    BY <1>2, <2>2, <2>3, OntoDiffers
  <2> QED
    BY <2>2, <2>4
<1> QED
  BY <1>4, <1>5, <1>6

\* os.Rename leaves trees, and what is not below the old key stays.
LEMMA StoreRenames ==
  ASSUME F!StoresAreTrees, NEW k \in F!Keys, NEW j \in F!Keys, F!MayRename(k, j),
         store' = F!Renamed(k, j), links' = links
  PROVE  /\ F!StoresAreTrees' /\ j \in DOMAIN store' /\ store'[j] = store[k]
         /\ k \in DOMAIN store /\ k.sub # <<>> /\ j.sub # <<>> /\ F!Parent(j) \in DOMAIN store /\ store[F!Parent(j)]
         /\ j \in DOMAIN store => ~store[j] /\ ~store[k]
         /\ k # j /\ j \notin F!Inside(k)
         /\ \A x \in DOMAIN store \ F!Inside(k) : x \in DOMAIN store' /\ (x # j => store'[x] = store[x])
<1> DEFINE In == F!Inside(k)
           kept == DOMAIN store \ (In \cup {j})
<1>1. /\ k.ufs = j.ufs /\ k \in DOMAIN store /\ k # j /\ ~F!IsPrefix(k.sub, j.sub) /\ j.sub # <<>>
      /\ F!Parent(j) \in DOMAIN store /\ store[F!Parent(j)] = TRUE
      /\ j \in DOMAIN store => ~store[j] /\ ~store[k]
  <2>1. F!Parent(j) \in DOMAIN store /\ store[F!Parent(j)]
    BY DEF F!MayRename, F!DirAt, F!Exists
  <2>2. store[F!Parent(j)] \in BOOLEAN
    BY <2>1, StoreFacts
  <2> QED
    BY <2>1, <2>2 DEF F!MayRename, F!Exists
<1>2. k.sub \in Seq(Names) /\ j.sub \in Seq(Names) /\ k.sub # <<>>
  <2>1. k.sub \in Seq(Names) /\ j.sub \in Seq(Names)
    BY DEF F!Keys
  <2> QED
    BY <1>1, <2>1, Prefixes
<1>3. j \notin In /\ k \in In
  BY <1>1, InsideFacts
<1>4. /\ \A y \in In :
              /\ Goes(k, j, y) \in F!Keys /\ Goes(k, j, y).ufs = j.ufs /\ F!IsPrefix(j.sub, Goes(k, j, y).sub)
              /\ y # k =>
                   /\ y.sub # <<>> /\ Goes(k, j, y).sub # <<>> /\ F!Parent(y) \in In
                   /\ F!Parent(Goes(k, j, y)) = Goes(k, j, F!Parent(y)) /\ store[F!Parent(y)]
      /\ \A y, z \in In : Goes(k, j, y) = Goes(k, j, z) => y = z
      /\ Goes(k, j, k) = j
  BY <1>1, GoesFacts
<1>5. \A y \in In : y \in DOMAIN store /\ y \in F!Keys /\ y = [ufs |-> k.ufs, sub |-> y.sub] /\ F!IsPrefix(k.sub, y.sub)
  BY InsideFacts
<1> DEFINE img == {Goes(k, j, y) : y \in In}
<1>6. PICK st : st = store'
  OBVIOUS
<1>7. st = [x \in kept \cup img |-> IF x \in kept THEN store[x] ELSE store[CHOOSE y \in In : Goes(k, j, y) = x]]
  <2>1. \A y \in In : [y EXCEPT !.sub = j.sub \o SubSeq(@, Len(k.sub) + 1, Len(@))] = Goes(k, j, y)
    <3> SUFFICES ASSUME NEW y \in In
                 PROVE [y EXCEPT !.sub = j.sub \o SubSeq(@, Len(k.sub) + 1, Len(@))] = Goes(k, j, y)
      OBVIOUS
    <3>1. PICK m, u : m = y.sub /\ u = k.ufs
      OBVIOUS
    <3>2. y = [ufs |-> u, sub |-> m]
      BY <1>5, <3>1
    <3>3. PICK v : v = j.sub \o SubSeq(m, Len(k.sub) + 1, Len(m))
      OBVIOUS
    <3>4. [y EXCEPT !.sub = j.sub \o SubSeq(@, Len(k.sub) + 1, Len(@))] = [y EXCEPT !.sub = v]
      BY <3>1, <3>3
    <3>5. [y EXCEPT !.sub = v] = [ufs |-> u, sub |-> v]
      BY <3>2
    <3>6. Goes(k, j, y) = [ufs |-> u, sub |-> v]
      BY <3>1, <3>3 DEF Goes, Onto
    <3> QED
      BY <3>4, <3>5, <3>6
  <2>2. st = LET to(x) == [x EXCEPT !.sub = j.sub \o SubSeq(@, Len(k.sub) + 1, Len(@))]
             IN  [x \in kept \cup {to(y) : y \in In} |->
                    IF x \in kept THEN store[x] ELSE store[CHOOSE y \in In : to(y) = x]]
    BY <1>6 DEF F!Renamed
  <2>3. {[y EXCEPT !.sub = j.sub \o SubSeq(@, Len(k.sub) + 1, Len(@))] : y \in In} = img
    BY <2>1
  <2>4. \A x : (CHOOSE y \in In : [y EXCEPT !.sub = j.sub \o SubSeq(@, Len(k.sub) + 1, Len(@))] = x)
                 = (CHOOSE y \in In : Goes(k, j, y) = x)
    BY <2>1
  <2>5. st = [x \in kept \cup {[y EXCEPT !.sub = j.sub \o SubSeq(@, Len(k.sub) + 1, Len(@))] : y \in In} |->
                IF x \in kept THEN store[x]
                ELSE store[CHOOSE y \in In : [y EXCEPT !.sub = j.sub \o SubSeq(@, Len(k.sub) + 1, Len(@))] = x]]
    BY <2>2
  <2> DEFINE from(x) == CHOOSE y \in In : [y EXCEPT !.sub = j.sub \o SubSeq(@, Len(k.sub) + 1, Len(@))] = x
             back(x) == CHOOSE y \in In : Goes(k, j, y) = x
  <2>6. st = [x \in kept \cup img |-> IF x \in kept THEN store[x] ELSE store[from(x)]]
    <3> HIDE DEF kept, In, img
    <3> QED
      BY <2>3, <2>5
  <2>7. \A x : from(x) = back(x)
    BY <2>4
  <2>8. st = [x \in kept \cup img |-> IF x \in kept THEN store[x] ELSE store[back(x)]]
    <3> HIDE DEF kept, In, img, from, back
    <3> QED
      BY <2>6, <2>7
  <2> QED
    BY <2>8
<1>8. ASSUME NEW y \in In PROVE Goes(k, j, y) \notin kept
  <2> SUFFICES ASSUME Goes(k, j, y) \in kept PROVE FALSE
    OBVIOUS
  <2>1. PICK x : x = Goes(k, j, y)
    OBVIOUS
  <2>2. x \in DOMAIN store /\ x # j /\ x.ufs = j.ufs /\ F!IsPrefix(j.sub, x.sub)
    BY <1>4, <2>1
  <2>3. j \in DOMAIN store /\ store[j]
    BY <2>2, AboveIsDir
  <2> QED
    BY <1>1, <2>3
<1>9. ASSUME NEW y \in In PROVE Goes(k, j, y) \in DOMAIN st /\ st[Goes(k, j, y)] = store[y]
  <2>1. PICK x : x = Goes(k, j, y)
    OBVIOUS
  <2>2. (CHOOSE z \in In : Goes(k, j, z) = x) = y
    <3>1. (CHOOSE z \in In : Goes(k, j, z) = x) \in In /\ Goes(k, j, CHOOSE z \in In : Goes(k, j, z) = x) = x
      BY <2>1
    <3> QED
      BY <1>4, <2>1, <3>1
  <2>3. x \in img /\ x \notin kept
    BY <1>8, <2>1
  <2> HIDE DEF kept, img, In
  <2> QED
    BY <1>7, <2>1, <2>2, <2>3
<1>10. ASSUME NEW x \in kept PROVE x \in DOMAIN st /\ st[x] = store[x]
  <2> HIDE DEF kept, img, In
  <2> QED
    BY <1>7
<1>11. \A x \in DOMAIN st : x \in kept \/ \E y \in In : x = Goes(k, j, y)
  <2>1. DOMAIN st = kept \cup img
    <3> HIDE DEF kept, img, In
    <3> QED
      BY <1>7
  <2> QED
    BY <2>1
<1>12. j \in DOMAIN st /\ st[j] = store[k]
  BY <1>3, <1>4, <1>9
<1>13. ASSUME NEW x \in kept
       PROVE  /\ x \in F!Keys /\ st[x] \in BOOLEAN /\ (x.sub = <<>> => st[x])
              /\ x.sub # <<>> => F!Parent(x) \in DOMAIN st /\ st[F!Parent(x)]
  <2>1. x \in DOMAIN store /\ x \in F!Keys /\ store[x] \in BOOLEAN /\ (x.sub = <<>> => store[x]) /\ st[x] = store[x]
    BY <1>10, StoreFacts
  <2>2. ASSUME x.sub # <<>> PROVE F!Parent(x) \in DOMAIN st /\ st[F!Parent(x)]
    <3>1. PICK q : q = F!Parent(x)
      OBVIOUS
    <3>2. q \in DOMAIN store /\ store[q] /\ q \in F!Keys
      BY <2>1, <2>2, <3>1, StoreFacts
    <3>3. q.ufs = x.ufs /\ F!IsPrefix(q.sub, x.sub) /\ q.sub \in Seq(Names) /\ x.sub \in Seq(Names)
      BY <2>1, <2>2, <3>1, <3>2, ParentFields DEF F!Keys
    <3>4. q \notin In
      <4> SUFFICES ASSUME q \in In PROVE FALSE
        OBVIOUS
      <4>1. q.ufs = k.ufs /\ F!IsPrefix(k.sub, q.sub)
        BY InsideFacts
      <4>2. F!IsPrefix(k.sub, x.sub)
        BY <1>2, <3>3, <4>1, Prefixes
      <4>3. x \in In
        BY <2>1, <3>3, <4>1, <4>2, InsideFacts
      <4> QED
        BY <4>3
    <3>5. q # j
      BY <1>1, <3>2
    <3>6. q \in kept
      BY <3>2, <3>4, <3>5
    <3> QED
      BY <1>10, <3>1, <3>2, <3>6
  <2> QED
    BY <2>1, <2>2
<1>14. ASSUME NEW y \in In, NEW x, x = Goes(k, j, y)
       PROVE  /\ x \in F!Keys /\ st[x] \in BOOLEAN /\ x.sub # <<>>
              /\ F!Parent(x) \in DOMAIN st /\ st[F!Parent(x)]
  <2>1. x \in F!Keys /\ st[x] \in BOOLEAN
    <3>1. st[x] = store[y] /\ store[y] \in BOOLEAN
      BY <1>5, <1>9, <1>14, StoreFacts
    <3> QED
      BY <1>4, <1>14, <3>1
  <2>2. CASE y = k
    <3>1. x = j
      BY <1>4, <1>14, <2>2
    <3>2. PICK q : q = F!Parent(j)
      OBVIOUS
    <3>3. q \in DOMAIN store /\ store[q] /\ q.ufs = j.ufs /\ F!IsPrefix(q.sub, j.sub) /\ q # j /\ q \in F!Keys
      BY <1>1, <3>2, ParentFields
    <3>4. q \notin In
      <4> SUFFICES ASSUME q \in In PROVE FALSE
        OBVIOUS
      <4>1. F!IsPrefix(k.sub, q.sub) /\ q.sub \in Seq(Names)
        BY InsideFacts
      <4> QED
        BY <1>1, <1>2, <3>3, <4>1, Prefixes
    <3>5. q \in DOMAIN st /\ st[q] = store[q]
      BY <1>10, <3>3, <3>4
    <3> QED
      BY <1>1, <2>1, <3>1, <3>2, <3>3, <3>5
  <2>3. CASE y # k
    <3>1. x.sub # <<>> /\ F!Parent(y) \in In /\ F!Parent(x) = Goes(k, j, F!Parent(y)) /\ store[F!Parent(y)]
      BY <1>4, <1>14, <2>3
    <3>2. PICK q : q = F!Parent(y)
      OBVIOUS
    <3>3. Goes(k, j, q) \in DOMAIN st /\ st[Goes(k, j, q)] = store[q]
      BY <1>9, <3>1, <3>2
    <3> QED
      BY <2>1, <3>1, <3>2, <3>3
  <2> QED
    BY <2>2, <2>3
<1>15. [ufs |-> <<>>, sub |-> <<>>] \in DOMAIN st
  <2>1. PICK r : r = [ufs |-> <<>>, sub |-> <<>>]
    OBVIOUS
  <2>2. r \in DOMAIN store /\ r.sub = <<>>
    BY <2>1, StoreFacts
  <2>3. r # j
    BY <1>1, <2>2
  <2>4. r \notin In
    <3> SUFFICES ASSUME r \in In PROVE FALSE
      OBVIOUS
    <3>1. F!IsPrefix(k.sub, <<>>)
      BY <2>2, InsideFacts
    <3> QED
      BY <1>2, <3>1, Prefixes
  <2> QED
    BY <1>10, <2>1, <2>2, <2>3, <2>4
<1>16. F!StoresAreTrees'
  <2>1. \A x \in DOMAIN st :
              /\ x \in F!Keys /\ st[x] \in BOOLEAN
              /\ x.sub = <<>> => st[x]
              /\ x.sub # <<>> => F!Parent(x) \in DOMAIN st /\ st[F!Parent(x)]
    BY <1>11, <1>13, <1>14
  <2> QED
    BY <1>6, <1>15, <2>1, StoreFacts, StoreFromFacts
<1>17. \A x \in DOMAIN store \ F!Inside(k) : x \in DOMAIN st /\ (x # j => st[x] = store[x])
  BY <1>10, <1>12
<1> QED
  BY <1>1, <1>2, <1>3, <1>6, <1>12, <1>16, <1>17

-----------------------------------------------------------------------------
(* The table, the cache and the storages together *)

\* The table ns, the cache en and the removed directories dd go with what the
\* storages hold, st, as far as nothing went astray, mv.
LeadIn(st, mv, ns, en) ==
  \A p \in DOMAIN en :
    /\ p \in Seq(Names) /\ en[p] \in 1..Len(ns)
    /\ (\E d \in mv : F!IsPrefix(d, p)) \/ (F!InodeToPath(ns, en[p]) = p /\ F!GetUFS(p) \in DOMAIN st)
TidyIn(st, ns) ==
  /\ \A a, b \in F!Attached(ns) : F!InodeToPath(ns, a) = F!InodeToPath(ns, b) => a = b
  /\ \A c \in F!Attached(ns) : F!KeyOf(ns, c) \in DOMAIN st /\ ns[c].folder = st[F!KeyOf(ns, c)]
  /\ \A i \in 1..Len(ns) :
       /\ \A n \in Names : F!Child(ns, i, n) # 0 => ns[i].folder /\ i \in F!Attached(ns)
       /\ ns[i].folder => ns[i].dir
KernelIn(dd, ns) == caller = "kernel" => \A i \in 1..Len(ns) \ dd : ns[i].folder => i \in F!Attached(ns)
ClientIn(st, ns, en) ==
  caller = "client" =>
    /\ \A i \in 1..Len(ns) : ns[i].dir = ns[i].folder
    /\ \A p \in DOMAIN en :
         (ns[en[p]].folder => en[p] \in F!Attached(ns)) /\ ns[en[p]].folder = st[F!GetUFS(p)]
Sound(st, mv, dd, ns, en) ==
  /\ F!TableIsTree(ns) /\ LeadIn(st, mv, ns, en)
  /\ mv = {} => TidyIn(st, ns) /\ KernelIn(dd, ns) /\ ClientIn(st, ns, en)

\* A node that an operation may be about.
Reached(st, ns, i) ==
  /\ ns[i].folder => i \in F!Attached(ns)
  /\ F!KeyOf(ns, i) \in DOMAIN st /\ st[F!KeyOf(ns, i)] = ns[i].folder

\* Tidy of the model, of the state variables.
LEMMA TidyAsSaid ==
  ASSUME NEW ns, F!TableIsTree(ns)
  PROVE  TidyIn(store, ns) <=> F!TableIsTidy(ns)
<1>1. ASSUME NEW i \in 1..Len(ns) PROVE ns[i].child # F!NoChild <=> \E n \in Names : F!Child(ns, i, n) # 0
  <2>1. ns[i].child \in [Names -> Nat]
    BY TreeFacts
  <2>2. PICK ch : ch = ns[i].child
    OBVIOUS
  <2>3. ch # [n \in Names |-> 0] <=> \E n \in Names : ch[n] # 0
    BY <2>1, <2>2
  <2> QED
    BY <2>2, <2>3 DEF F!NoChild, F!Child
<1>2. (\A i \in 1..Len(ns) :
         /\ \A n \in Names : F!Child(ns, i, n) # 0 => ns[i].folder /\ i \in F!Attached(ns)
         /\ ns[i].folder => ns[i].dir)
      <=> (\A i \in 1..Len(ns) :
             /\ ns[i].child # F!NoChild => ns[i].folder /\ i \in F!Attached(ns)
             /\ ns[i].folder => ns[i].dir)
  BY <1>1
<1> QED
  BY <1>2 DEF TidyIn, F!TableIsTidy, F!Exists

\* The invariant of the model, of the state variables.
LEMMA SoundAsSaid ==
  (F!TableIsTree(nodes) /\ F!EntriesLead(nodes, entry) /\ F!Tidy(nodes, entry)) <=> Sound(store, moved, dead, nodes, entry)
<1>1. F!EntriesLead(nodes, entry) <=> LeadIn(store, moved, nodes, entry)
  BY DEF F!EntriesLead, LeadIn, F!Astray, F!Exists
<1>2. F!CallersAreTidy(nodes, entry) <=> KernelIn(dead, nodes) /\ ClientIn(store, nodes, entry)
  BY DEF F!CallersAreTidy, KernelIn, ClientIn
<1>3. F!TableIsTree(nodes) => (TidyIn(store, nodes) <=> F!TableIsTidy(nodes))
  BY TidyAsSaid
<1> QED
  BY <1>1, <1>2, <1>3 DEF F!Tidy, Sound

\* Two nodes the root leads to have different paths: so has a name in a folder.
LEMMA UniquePath ==
  ASSUME NEW st, NEW ns, F!TableIsTree(ns), TidyIn(st, ns), NEW i \in 1..Len(ns), NEW n \in Names, Reached(st, ns, i),
         NEW a \in F!Attached(ns), F!InodeToPath(ns, a) = F!PathIn(ns, i, n)
  PROVE  a = F!Child(ns, i, n) /\ a # 0
<1>1. /\ F!InodeToPath(ns, i) \in Seq(Names) /\ F!PathIn(ns, i, n) # <<>>
      /\ F!PathIn(ns, i, n) = Append(F!InodeToPath(ns, i), n)
  BY ChildPath
<1>2. a # 1
  <2> SUFFICES ASSUME a = 1 PROVE FALSE
    OBVIOUS
  <2>1. Climbs(ns) /\ 1 \in 1..Len(ns) /\ ns[1].parent = 0
    BY TreeFacts
  <2>2. F!InodeToPath(ns, 1) = <<>>
    BY <2>1, PathUnfolds
  <2> QED
    BY <1>1, <2>2
<1>3. PICK u, m : u = ns[a].parent /\ m = ns[a].name
  OBVIOUS
<1>4. /\ u \in 1..Len(ns) /\ m \in Names /\ F!Child(ns, u, m) = a /\ a \in 1..Len(ns) /\ a # 0
      /\ F!InodeToPath(ns, a) = F!PathIn(ns, u, m)
  BY <1>2, <1>3, AttachedFacts
<1>5. u \in F!Attached(ns) /\ ns[u].folder
  BY <1>4 DEF TidyIn
<1>6. F!InodeToPath(ns, u) \in Seq(Names) /\ F!PathIn(ns, u, m) = Append(F!InodeToPath(ns, u), m)
  BY <1>4, ChildPath
<1>7. F!InodeToPath(ns, u) = F!InodeToPath(ns, i) /\ m = n
  <2>1. PICK x, y : x = F!InodeToPath(ns, u) /\ y = F!InodeToPath(ns, i)
    OBVIOUS
  <2>2. x \in Seq(Names) /\ y \in Seq(Names) /\ Append(x, m) = Append(y, n)
    BY <1>1, <1>4, <1>6, <2>1
  <2>3. F!DirName(Append(x, m)) = x /\ F!Last(Append(x, m)) = m
    BY <1>4, <2>2, AppendFields
  <2>4. F!DirName(Append(y, n)) = y /\ F!Last(Append(y, n)) = n
    BY <2>2, AppendFields
  <2> QED
    BY <2>1, <2>2, <2>3, <2>4
<1>8. F!KeyOf(ns, u) = F!KeyOf(ns, i)
  BY <1>7 DEF F!KeyOf
<1>9. ns[i].folder
  <2>1. ns[u].folder = st[F!KeyOf(ns, u)]
    BY <1>5 DEF TidyIn
  <2> QED
    BY <1>5, <1>8, <2>1 DEF Reached
<1>10. i \in F!Attached(ns)
  BY <1>9 DEF Reached
<1>11. u = i
  BY <1>5, <1>7, <1>10 DEF TidyIn
<1> QED
  BY <1>4, <1>7, <1>11

\* More is in the storages.
LEMMA SoundGrows ==
  ASSUME NEW st, NEW s2, NEW mv, NEW dd, NEW ns, NEW en, Sound(st, mv, dd, ns, en),
         \A x \in DOMAIN st : x \in DOMAIN s2 /\ s2[x] = st[x]
  PROVE  Sound(s2, mv, dd, ns, en)
<1>1. LeadIn(s2, mv, ns, en)
  BY DEF Sound, LeadIn
<1>2. ASSUME mv = {} PROVE TidyIn(s2, ns)
  BY <1>2 DEF Sound, TidyIn
<1>3. ASSUME mv = {} PROVE ClientIn(s2, ns, en)
  <2>1. \A p \in DOMAIN en : F!GetUFS(p) \in DOMAIN st
    BY <1>3 DEF Sound, LeadIn
  <2>2. ClientIn(st, ns, en)
    BY <1>3 DEF Sound
  <2> QED
    BY <2>1, <2>2 DEF ClientIn
<1> QED
  BY <1>1, <1>2, <1>3 DEF Sound

\* A new node for something in a folder.
LEMMA NewChildSound ==
  ASSUME NEW st, NEW mv, NEW dd, NEW ns, NEW en, Sound(st, mv, dd, ns, en),
         NEW i \in 1..Len(ns), NEW n \in Names, NEW d \in BOOLEAN, NEW f \in BOOLEAN,
         NEW ms, ms = F!NewChild(ns, i, n, d, f),
         mv = {} =>
           /\ Reached(st, ns, i) /\ ns[i].folder
           /\ F!KeyIn(ns, i, n) \in DOMAIN st /\ f = st[F!KeyIn(ns, i, n)]
           /\ (f => d) /\ (caller = "client" => d = f)
           /\ F!Child(ns, i, n) # 0 => ~ns[F!Child(ns, i, n)].folder
  PROVE  Sound(st, mv, dd, ms, en)
<1>1. PICK l, c : l = Len(ns) + 1 /\ c = F!Child(ns, i, n)
  OBVIOUS
<1>2. F!TableIsTree(ns) /\ F!TableIsTree(ms)
  BY NewChildTree DEF Sound
<1>3. /\ Len(ms) = l /\ Len(ns) \in Nat /\ l \notin 1..Len(ns) /\ l \in 1..l
      /\ \A x \in 1..Len(ns) : x \in 1..l
      /\ \A x \in 1..l : x = l \/ x \in 1..Len(ns)
  <2>1. Len(ms) = Len(ns) + 1
    BY <1>2, NewChildFields
  <2>2. Len(ns) \in Nat
    BY <1>2, TreeFacts
  <2> QED
    BY <1>1, <2>1, <2>2
<1>4. /\ \A x \in 1..Len(ns) : ms[x].dir = ns[x].dir /\ ms[x].folder = ns[x].folder
      /\ \A x \in 1..Len(ns) : \A m \in Names :
           F!Child(ms, x, m) = IF x = i /\ m = n THEN l ELSE F!Child(ns, x, m)
      /\ ms[l].dir = d /\ ms[l].folder = f /\ ms[l].child = F!NoChild
  <2>1. /\ \A x \in 1..Len(ns) : Same(ns, ms, x) /\ ms[x].parent = ns[x].parent
        /\ \A x \in 1..Len(ns) : \A m \in Names :
             F!Child(ms, x, m) = IF x = i /\ m = n THEN Len(ns) + 1 ELSE F!Child(ns, x, m)
        /\ ms[Len(ns) + 1].dir = d /\ ms[Len(ns) + 1].folder = f /\ ms[Len(ns) + 1].child = F!NoChild
    BY <1>2, NewChildFields
  <2> QED
    BY <1>1, <2>1 DEF Same
<1>5. /\ \A x \in 1..Len(ns) : F!InodeToPath(ms, x) = F!InodeToPath(ns, x)
      /\ F!InodeToPath(ms, l) = F!PathIn(ns, i, n)
  BY <1>1, <1>2, NewChildTree
<1>6. F!Attached(ms) = (F!Attached(ns) \ {c}) \cup {l}
  BY <1>1, <1>2, NewChildAttached
<1>7. /\ \A x \in 1..Len(ns) : F!KeyOf(ms, x) = F!KeyOf(ns, x)
      /\ F!KeyOf(ms, l) = F!KeyIn(ns, i, n)
  BY <1>5 DEF F!KeyOf, F!KeyIn
<1>8. F!Attached(ns) \subseteq 1..Len(ns) /\ c # i
  <2>1. F!Attached(ns) \subseteq 1..Len(ns)
    BY <1>2, AttachedFacts
  <2>2. c # 0 => c \in 1..Len(ns) /\ ns[c].parent = i
    BY <1>1, <1>2, TreeFacts
  <2>3. \A x \in 1..Len(ns) : ns[x].parent \in Nat /\ ns[x].parent < x
    BY <1>2, TreeFacts
  <2>4. i \in Nat /\ i # 0
    BY <1>3
  <2> QED
    BY <2>1, <2>2, <2>3, <2>4
<1>9. LeadIn(st, mv, ms, en)
  <2>1. LeadIn(st, mv, ns, en)
    BY DEF Sound
  <2> QED
    BY <1>3, <1>5, <2>1 DEF LeadIn
<1>10. ASSUME mv = {} PROVE TidyIn(st, ms) /\ KernelIn(dd, ms) /\ ClientIn(st, ms, en)
  <2>1. TidyIn(st, ns) /\ KernelIn(dd, ns) /\ ClientIn(st, ns, en) /\ LeadIn(st, mv, ns, en)
    BY <1>10 DEF Sound
  <2>2. /\ Reached(st, ns, i) /\ ns[i].folder /\ F!KeyIn(ns, i, n) \in DOMAIN st /\ f = st[F!KeyIn(ns, i, n)]
        /\ (f => d) /\ (caller = "client" => d = f) /\ (c # 0 => ~ns[c].folder)
    BY <1>1, <1>10
  <2>3. i \in F!Attached(ns) /\ i \in F!Attached(ms)
    BY <1>6, <1>8, <2>2 DEF Reached
  <2>4. ASSUME NEW a \in F!Attached(ms), NEW b \in F!Attached(ms), F!InodeToPath(ms, a) = F!InodeToPath(ms, b)
        PROVE  a = b
    <3>1. ASSUME NEW x \in F!Attached(ns), x # c PROVE F!InodeToPath(ns, x) # F!PathIn(ns, i, n)
      BY <1>1, <1>2, <2>1, <2>2, <3>1, UniquePath
    <3>2. CASE a = l /\ b = l
      BY <3>2
    <3>3. CASE a = l /\ b # l
      BY <1>5, <1>6, <1>8, <2>4, <3>1, <3>3
    <3>4. CASE a # l /\ b = l
      BY <1>5, <1>6, <1>8, <2>4, <3>1, <3>4
    <3>5. CASE a # l /\ b # l
      <4>1. a \in F!Attached(ns) /\ b \in F!Attached(ns) /\ F!InodeToPath(ns, a) = F!InodeToPath(ns, b)
        BY <1>5, <1>6, <1>8, <2>4, <3>5
      <4> QED
        BY <2>1, <4>1 DEF TidyIn
    <3> QED
      BY <3>2, <3>3, <3>4, <3>5
  <2>5. ASSUME NEW a \in F!Attached(ms) PROVE F!KeyOf(ms, a) \in DOMAIN st /\ ms[a].folder = st[F!KeyOf(ms, a)]
    <3>1. CASE a = l
      BY <1>4, <1>7, <2>2, <3>1
    <3>2. CASE a # l
      <4>1. a \in F!Attached(ns) /\ a \in 1..Len(ns)
        BY <1>6, <1>8, <3>2
      <4>2. F!KeyOf(ns, a) \in DOMAIN st /\ ns[a].folder = st[F!KeyOf(ns, a)]
        BY <2>1, <4>1 DEF TidyIn
      <4> QED
        BY <1>4, <1>7, <4>1, <4>2
    <3> QED
      BY <3>1, <3>2
  <2>6. ASSUME NEW x \in 1..Len(ms), NEW m \in Names, F!Child(ms, x, m) # 0
        PROVE  ms[x].folder /\ x \in F!Attached(ms)
    <3>1. CASE x = l
      <4>1. F!Child(ms, l, m) = 0
        BY <1>4 DEF F!Child, F!NoChild
      <4> QED
        BY <2>6, <3>1, <4>1
    <3>2. CASE x # l
      <4>1. x \in 1..Len(ns)
        BY <1>3, <3>2
      <4>2. CASE x = i
        BY <1>4, <2>2, <2>3, <4>1, <4>2
      <4>3. CASE x # i
        <5>1. F!Child(ns, x, m) # 0
          BY <1>4, <2>6, <4>1, <4>3
        <5>2. ns[x].folder /\ x \in F!Attached(ns)
          BY <2>1, <4>1, <5>1 DEF TidyIn
        <5>3. x # c
          BY <1>3, <2>2, <4>1, <5>2
        <5> QED
          BY <1>4, <1>6, <4>1, <5>2, <5>3
      <4> QED
        BY <4>2, <4>3
    <3> QED
      BY <3>1, <3>2
  <2>7. ASSUME NEW x \in 1..Len(ms), ms[x].folder PROVE ms[x].dir
    <3>1. CASE x = l
      BY <1>4, <2>2, <2>7, <3>1
    <3>2. CASE x # l
      <4>1. x \in 1..Len(ns) /\ ns[x].folder
        BY <1>3, <1>4, <2>7, <3>2
      <4> QED
        BY <1>4, <2>1, <4>1 DEF TidyIn
    <3> QED
      BY <3>1, <3>2
  <2>8. TidyIn(st, ms)
    BY <2>4, <2>5, <2>6, <2>7 DEF TidyIn
  <2>9. ASSUME NEW x \in 1..Len(ns), ns[x].folder, x \in F!Attached(ns) PROVE x \in F!Attached(ms)
    BY <1>3, <1>6, <2>2, <2>9
  <2>10. KernelIn(dd, ms)
    <3> SUFFICES ASSUME caller = "kernel", NEW x \in 1..Len(ms) \ dd, ms[x].folder PROVE x \in F!Attached(ms)
      BY DEF KernelIn
    <3>1. CASE x = l
      BY <1>6, <3>1
    <3>2. CASE x # l
      <4>1. x \in 1..Len(ns) /\ ns[x].folder
        BY <1>3, <1>4, <3>2
      <4>2. x \in F!Attached(ns)
        BY <2>1, <4>1 DEF KernelIn
      <4> QED
        BY <2>9, <4>1, <4>2
    <3> QED
      BY <3>1, <3>2
  <2>11. ClientIn(st, ms, en)
    <3> SUFFICES ASSUME caller = "client"
                 PROVE  /\ \A x \in 1..Len(ms) : ms[x].dir = ms[x].folder
                        /\ \A p \in DOMAIN en :
                             (ms[en[p]].folder => en[p] \in F!Attached(ms)) /\ ms[en[p]].folder = st[F!GetUFS(p)]
      BY DEF ClientIn
    <3>1. /\ \A x \in 1..Len(ns) : ns[x].dir = ns[x].folder
          /\ \A p \in DOMAIN en :
               (ns[en[p]].folder => en[p] \in F!Attached(ns)) /\ ns[en[p]].folder = st[F!GetUFS(p)]
      BY <2>1 DEF ClientIn
    <3>2. \A p \in DOMAIN en : en[p] \in 1..Len(ns)
      BY <2>1 DEF LeadIn
    <3>3. \A x \in 1..Len(ms) : ms[x].dir = ms[x].folder
      BY <1>3, <1>4, <2>2, <3>1
    <3>4. ASSUME NEW p \in DOMAIN en
          PROVE  (ms[en[p]].folder => en[p] \in F!Attached(ms)) /\ ms[en[p]].folder = st[F!GetUFS(p)]
      <4>1. en[p] \in 1..Len(ns) /\ ms[en[p]].folder = ns[en[p]].folder
        BY <1>4, <3>2
      <4> QED
        BY <2>9, <3>1, <4>1
    <3> QED
      BY <3>3, <3>4
  <2> QED
    BY <2>8, <2>10, <2>11
<1> QED
  BY <1>2, <1>9, <1>10 DEF Sound

\* A child goes, if there is one.
LEMMA RmChildAny ==
  ASSUME NEW ns, F!TableIsTree(ns), NEW i \in 1..Len(ns), NEW n \in Names, NEW ms, ms = F!RmChild(ns, i, n)
  PROVE  /\ F!TableIsTree(ms) /\ Len(ms) = Len(ns)
         /\ \A x \in 1..Len(ns) : ms[x].dir = ns[x].dir /\ ms[x].folder = ns[x].folder
         /\ \A x \in 1..Len(ns) : \A m \in Names :
              F!Child(ms, x, m) = IF x = i /\ m = n THEN 0 ELSE F!Child(ns, x, m)
         /\ \A x \in 1..Len(ns) :
              F!IsPrefix(F!PathIn(ns, i, n), F!InodeToPath(ns, x)) \/ F!InodeToPath(ms, x) = F!InodeToPath(ns, x)
         /\ F!Attached(ms) = F!Attached(ns) \ {F!Child(ns, i, n)}
<1>1. PICK c : c = F!Child(ns, i, n)
  OBVIOUS
<1>2. CASE c = 0
  <2>1. ms = ns
    BY <1>1, <1>2 DEF F!RmChild
  <2>2. 0 \notin F!Attached(ns)
    BY TreeFacts, AttachedFacts
  <2> QED
    BY <1>1, <1>2, <2>1, <2>2
<1>3. CASE c # 0
  <2>1. F!TableIsTree(ms)
    BY <1>1, <1>3, RmChildTree
  <2>2. \A x \in 1..Len(ns) :
          F!IsPrefix(F!PathIn(ns, i, n), F!InodeToPath(ns, x)) \/ F!InodeToPath(ms, x) = F!InodeToPath(ns, x)
    BY <1>1, <1>3, RmChildTree
  <2>3. F!Attached(ms) = F!Attached(ns) \ {c}
    BY <1>1, <1>3, RmChildAttached
  <2>4. /\ Len(ms) = Len(ns)
        /\ \A x \in 1..Len(ns) : Same(ns, ms, x) /\ ms[x].parent = IF x = c THEN 0 ELSE ns[x].parent
        /\ \A x \in 1..Len(ns) : \A m \in Names :
             F!Child(ms, x, m) = IF x = i /\ m = n THEN 0 ELSE F!Child(ns, x, m)
    BY <1>1, <1>3, RmChildFields
  <2> QED
    BY <1>1, <2>1, <2>2, <2>3, <2>4 DEF Same
<1> QED
  BY <1>2, <1>3

\* A path goes away, and what was below it went astray.
LEMMA AwaySound ==
  ASSUME F!StoresAreTrees, NEW mv, NEW dd, NEW ns, NEW en, Sound(store, mv, dd, ns, en),
         NEW i \in 1..Len(ns), NEW n \in Names, NEW p, p = F!PathIn(ns, i, n), NEW k, k = F!GetUFS(p),
         NEW ms, ms = ns \/ ms = F!RmChild(ns, i, n),
         NEW s2, \A x \in DOMAIN store \ F!Inside(k) : x \in DOMAIN s2,
         NEW e2, \A q \in DOMAIN e2 : q \in DOMAIN en /\ e2[q] = en[q], NEW d2
  PROVE  Sound(s2, mv \cup {p}, d2, ms, e2)
<1>1. F!TableIsTree(ns)
  BY DEF Sound
<1>2. /\ F!TableIsTree(ms) /\ Len(ms) = Len(ns)
      /\ \A x \in 1..Len(ns) : F!IsPrefix(p, F!InodeToPath(ns, x)) \/ F!InodeToPath(ms, x) = F!InodeToPath(ns, x)
  BY <1>1, RmChildAny
<1>3. p \in Seq(Names)
  BY <1>1, ChildPath
<1>4. LinksApart
  BY StoreFacts
<1>5. ASSUME NEW q \in DOMAIN e2
      PROVE  /\ q \in Seq(Names) /\ e2[q] \in 1..Len(ms)
             /\ (\E d \in mv \cup {p} : F!IsPrefix(d, q)) \/ (F!InodeToPath(ms, e2[q]) = q /\ F!GetUFS(q) \in DOMAIN s2)
  <2>1. PICK x : x = e2[q]
    OBVIOUS
  <2>2. q \in DOMAIN en /\ en[q] = x
    BY <2>1
  <2>3. /\ q \in Seq(Names) /\ x \in 1..Len(ns)
        /\ (\E d \in mv : F!IsPrefix(d, q)) \/ (F!InodeToPath(ns, x) = q /\ F!GetUFS(q) \in DOMAIN store)
    BY <2>2 DEF Sound, LeadIn
  <2>4. ASSUME ~F!IsPrefix(p, q), F!InodeToPath(ns, x) = q, F!GetUFS(q) \in DOMAIN store
        PROVE  F!InodeToPath(ms, x) = q /\ F!GetUFS(q) \in DOMAIN s2
    <3>1. F!GetUFS(q) \notin F!Inside(k)
      <4> SUFFICES ASSUME F!GetUFS(q) \in F!Inside(k) PROVE FALSE
        OBVIOUS
      <4>1. F!GetUFS(p).ufs = F!GetUFS(q).ufs /\ F!IsPrefix(F!GetUFS(p).sub, F!GetUFS(q).sub)
        BY DEF F!Inside
      <4> QED
        BY <1>3, <1>4, <2>3, <2>4, <4>1, KeyAbove
    <3> QED
      BY <1>2, <2>3, <2>4, <3>1
  <2>5. p \in mv \cup {p} /\ \A d \in mv : d \in mv \cup {p}
    OBVIOUS
  <2> QED
    BY <1>2, <2>1, <2>3, <2>4, <2>5
<1>6. LeadIn(s2, mv \cup {p}, ms, e2)
  BY <1>5 DEF LeadIn
<1>7. mv \cup {p} # {}
  OBVIOUS
<1> QED
  BY <1>2, <1>6, <1>7 DEF Sound

\* Nothing is below a path with nothing inside it and no link below it.
LEMMA NothingBelow ==
  ASSUME F!StoresAreTrees, NEW p \in Seq(Names), NEW k, k = F!GetUFS(p),
         \A x \in DOMAIN store : x.ufs = k.ufs /\ F!IsPrefix(k.sub, x.sub) => x = k,
         \A l \in links : F!IsPrefix(p, l) => p = l,
         NEW q \in Seq(Names), F!GetUFS(q) \in DOMAIN store, q # p
  PROVE  ~F!IsPrefix(p, q) /\ F!GetUFS(q) # k
<1>1. LinksApart
  BY StoreFacts
<1>2. F!GetUFS(q) # k
  BY <1>1, KeysDiffer
<1>3. ASSUME F!IsPrefix(p, q) PROVE FALSE
  <2>1. F!GetUFS(p).ufs = F!GetUFS(q).ufs /\ F!IsPrefix(F!GetUFS(p).sub, F!GetUFS(q).sub)
    BY <1>1, <1>3, KeyBelow
  <2> QED
    BY <1>2, <2>1
<1> QED
  BY <1>2, <1>3

\* A path goes away that nothing is below.
LEMMA RmChildSound ==
  ASSUME F!StoresAreTrees, NEW mv, NEW dd, NEW ns, NEW en, Sound(store, mv, dd, ns, en),
         NEW i \in 1..Len(ns), NEW n \in Names, NEW p, p = F!PathIn(ns, i, n), NEW k, k = F!GetUFS(p),
         NEW ms, ms = F!RmChild(ns, i, n),
         \A x \in DOMAIN store : x.ufs = k.ufs /\ F!IsPrefix(k.sub, x.sub) => x = k,
         \A l \in links : F!IsPrefix(p, l) => p = l,
         NEW s2, \A x \in DOMAIN store \ {k} : x \in DOMAIN s2 /\ s2[x] = store[x],
         NEW e2, p \notin DOMAIN e2, \A q \in DOMAIN e2 : q \in DOMAIN en /\ e2[q] = en[q],
         NEW d2, caller = "kernel" => dd \subseteq d2 /\ (store[k] => F!Child(ns, i, n) \in d2),
         mv = {} => Reached(store, ns, i)
  PROVE  Sound(s2, mv, d2, ms, e2)
<1>1. PICK c : c = F!Child(ns, i, n)
  OBVIOUS
<1>2. F!TableIsTree(ns) /\ LeadIn(store, mv, ns, en)
  BY DEF Sound
<1>3. /\ F!TableIsTree(ms) /\ Len(ms) = Len(ns)
      /\ \A x \in 1..Len(ns) : ms[x].dir = ns[x].dir /\ ms[x].folder = ns[x].folder
      /\ \A x \in 1..Len(ns) : \A m \in Names :
           F!Child(ms, x, m) = IF x = i /\ m = n THEN 0 ELSE F!Child(ns, x, m)
      /\ \A x \in 1..Len(ns) : F!IsPrefix(p, F!InodeToPath(ns, x)) \/ F!InodeToPath(ms, x) = F!InodeToPath(ns, x)
      /\ F!Attached(ms) = F!Attached(ns) \ {c}
  <2>1. /\ F!TableIsTree(ms) /\ Len(ms) = Len(ns)
        /\ \A x \in 1..Len(ns) : ms[x].dir = ns[x].dir /\ ms[x].folder = ns[x].folder
    BY <1>2, RmChildAny
  <2>4. \A x \in 1..Len(ns) : \A m \in Names :
             F!Child(ms, x, m) = IF x = i /\ m = n THEN 0 ELSE F!Child(ns, x, m)
    BY <1>2, RmChildAny
  <2>2. \A x \in 1..Len(ns) :
          F!IsPrefix(F!PathIn(ns, i, n), F!InodeToPath(ns, x)) \/ F!InodeToPath(ms, x) = F!InodeToPath(ns, x)
    BY <1>2, RmChildAny
  <2>3. F!Attached(ms) = F!Attached(ns) \ {F!Child(ns, i, n)}
    BY <1>2, RmChildAny
  <2> QED
    BY <1>1, <2>1, <2>2, <2>3, <2>4
<1>4. p \in Seq(Names) /\ p # <<>>
  BY <1>2, ChildPath
<1>5. \A q \in Seq(Names) : F!GetUFS(q) \in DOMAIN store /\ q # p => ~F!IsPrefix(p, q) /\ F!GetUFS(q) # k
  BY <1>4, NothingBelow
<1>6. ASSUME NEW q \in DOMAIN e2
      PROVE  /\ q \in Seq(Names) /\ e2[q] \in 1..Len(ms)
             /\ (\E d \in mv : F!IsPrefix(d, q)) \/ (F!InodeToPath(ms, e2[q]) = q /\ F!GetUFS(q) \in DOMAIN s2)
  <2>1. PICK x : x = e2[q]
    OBVIOUS
  <2>2. q \in DOMAIN en /\ en[q] = x /\ q # p
    BY <2>1
  <2>3. /\ q \in Seq(Names) /\ x \in 1..Len(ns)
        /\ (\E d \in mv : F!IsPrefix(d, q)) \/ (F!InodeToPath(ns, x) = q /\ F!GetUFS(q) \in DOMAIN store)
    BY <1>2, <2>2 DEF LeadIn
  <2>4. ASSUME F!InodeToPath(ns, x) = q, F!GetUFS(q) \in DOMAIN store
        PROVE  F!InodeToPath(ms, x) = q /\ F!GetUFS(q) \in DOMAIN s2
    <3>1. ~F!IsPrefix(p, q) /\ F!GetUFS(q) # k
      BY <1>5, <2>2, <2>3, <2>4
    <3> QED
      BY <1>3, <2>3, <2>4, <3>1
  <2> QED
    BY <1>3, <2>1, <2>3, <2>4
<1>7. LeadIn(s2, mv, ms, e2)
  BY <1>6 DEF LeadIn
<1>8. ASSUME mv = {} PROVE TidyIn(s2, ms) /\ KernelIn(d2, ms) /\ ClientIn(s2, ms, e2)
  <2>1. TidyIn(store, ns) /\ KernelIn(dd, ns) /\ ClientIn(store, ns, en) /\ Reached(store, ns, i)
    BY <1>8 DEF Sound
  <2>2. F!Attached(ns) \subseteq 1..Len(ns)
    BY <1>2, AttachedFacts
  <2>3. ASSUME NEW a \in F!Attached(ns), a # c
        PROVE  /\ a \in F!Attached(ms) /\ a \in 1..Len(ns) /\ F!InodeToPath(ms, a) = F!InodeToPath(ns, a)
               /\ F!KeyOf(ms, a) = F!KeyOf(ns, a) /\ F!KeyOf(ns, a) \in DOMAIN store /\ F!KeyOf(ns, a) # k
               /\ ms[a].folder = store[F!KeyOf(ns, a)]
    <3>1. PICK q : q = F!InodeToPath(ns, a)
      OBVIOUS
    <3>2. q # p
      BY <1>1, <1>2, <2>1, <2>3, <3>1, UniquePath
    <3>3. a \in 1..Len(ns) /\ F!GetUFS(q) \in DOMAIN store /\ ns[a].folder = store[F!GetUFS(q)] /\ F!KeyOf(ns, a) = F!GetUFS(q)
      BY <2>1, <2>2, <2>3, <3>1 DEF TidyIn, F!KeyOf
    <3>4. q \in Seq(Names)
      <4>1. Climbs(ns)
        BY <1>2, TreeFacts
      <4> QED
        BY <3>1, <3>3, <4>1, PathTypes
    <3>5. ~F!IsPrefix(p, q) /\ F!GetUFS(q) # k
      BY <1>5, <3>2, <3>3, <3>4
    <3>6. F!InodeToPath(ms, a) = q
      BY <1>3, <3>1, <3>3, <3>5
    <3>7. F!KeyOf(ms, a) = F!GetUFS(q)
      BY <3>6 DEF F!KeyOf
    <3> QED
      BY <1>3, <2>3, <3>1, <3>3, <3>5, <3>6, <3>7
  <2>4. c # 0 => c \in 1..Len(ns) /\ c \in F!Attached(ns) /\ F!InodeToPath(ns, c) = p /\ ns[c].folder = store[k]
    <3>1. c # 0 => c \in F!Attached(ns) /\ F!InodeToPath(ns, c) = p
      BY <1>1, <1>2, AttachedFacts, ChildPath
    <3> QED
      BY <2>1, <2>2, <3>1 DEF TidyIn, F!KeyOf
  <2>5. ASSUME c # 0, NEW m \in Names PROVE F!Child(ns, c, m) = 0
    <3> SUFFICES ASSUME F!Child(ns, c, m) # 0 PROVE FALSE
      OBVIOUS
    <3>1. PICK a : a = F!Child(ns, c, m)
      OBVIOUS
    <3>7. a # 0 /\ c \in 1..Len(ns) /\ F!InodeToPath(ns, c) = p
      BY <2>4, <2>5, <3>1
    <3>8. F!InodeToPath(ns, a) = F!PathIn(ns, c, m) /\ F!PathIn(ns, c, m) = Append(p, m)
      BY <1>2, <3>1, <3>7, ChildPath
    <3>9. a \in F!Attached(ns)
      BY <1>2, <3>1, <3>7, AttachedFacts
    <3>2. a \in F!Attached(ns) /\ F!InodeToPath(ns, a) = Append(p, m) /\ c \in 1..Len(ns)
      BY <3>7, <3>8, <3>9
    <3>3. a # c
      <4>1. a \in 1..Len(ns) /\ ns[a].parent = c
        BY <1>2, <3>1, <3>7, TreeFacts
      <4>2. ns[a].parent < a /\ ns[a].parent \in Nat
        BY <1>2, <4>1, TreeFacts
      <4> QED
        BY <4>1, <4>2
    <3>4. F!IsPrefix(p, Append(p, m)) /\ Append(p, m) \in Seq(Names) /\ Append(p, m) # p
      BY <1>4, AppendFields
    <3>5. F!KeyOf(ns, a) \in DOMAIN store
      BY <2>3, <3>2, <3>3
    <3>6. F!GetUFS(Append(p, m)) \in DOMAIN store
      BY <3>2, <3>5 DEF F!KeyOf
    <3> QED
      BY <1>5, <3>4, <3>6
  <2>6. \A a, b \in F!Attached(ms) : F!InodeToPath(ms, a) = F!InodeToPath(ms, b) => a = b
    <3> SUFFICES ASSUME NEW a \in F!Attached(ms), NEW b \in F!Attached(ms), F!InodeToPath(ms, a) = F!InodeToPath(ms, b)
                 PROVE  a = b
      OBVIOUS
    <3>1. a \in F!Attached(ns) /\ b \in F!Attached(ns) /\ F!InodeToPath(ns, a) = F!InodeToPath(ns, b)
      BY <1>3, <2>3
    <3> QED
      BY <2>1, <3>1 DEF TidyIn
  <2>7. \A a \in F!Attached(ms) : F!KeyOf(ms, a) \in DOMAIN s2 /\ ms[a].folder = s2[F!KeyOf(ms, a)]
    BY <1>3, <2>3
  <2>8. ASSUME NEW x \in 1..Len(ms)
        PROVE  /\ \A m \in Names : F!Child(ms, x, m) # 0 => ms[x].folder /\ x \in F!Attached(ms)
               /\ ms[x].folder => ms[x].dir
    <3>1. x \in 1..Len(ns) /\ ms[x].folder = ns[x].folder /\ ms[x].dir = ns[x].dir
      BY <1>3
    <3>2. ms[x].folder => ms[x].dir
      BY <2>1, <3>1 DEF TidyIn
    <3>3. ASSUME NEW m \in Names, F!Child(ms, x, m) # 0 PROVE ms[x].folder /\ x \in F!Attached(ms)
      <4>1. F!Child(ns, x, m) # 0
        BY <1>3, <3>1, <3>3
      <4>2. ns[x].folder /\ x \in F!Attached(ns)
        BY <2>1, <3>1, <4>1 DEF TidyIn
      <4>3. x # c
        BY <2>4, <2>5, <3>1, <4>1
      <4> QED
        BY <1>3, <3>1, <4>2, <4>3
    <3> QED
      BY <3>2, <3>3
  <2>9. TidyIn(s2, ms)
    BY <2>6, <2>7, <2>8 DEF TidyIn
  <2>10. KernelIn(d2, ms)
    <3> SUFFICES ASSUME caller = "kernel", NEW x \in 1..Len(ms) \ d2, ms[x].folder PROVE x \in F!Attached(ms)
      BY DEF KernelIn
    <3>1. x \in 1..Len(ns) \ dd /\ ns[x].folder
      BY <1>3
    <3>2. x \in F!Attached(ns)
      BY <2>1, <3>1 DEF KernelIn
    <3>3. x # c
      BY <1>1, <2>4, <3>1
    <3> QED
      BY <1>3, <3>2, <3>3
  <2>11. ClientIn(s2, ms, e2)
    <3> SUFFICES ASSUME caller = "client"
                 PROVE  /\ \A x \in 1..Len(ms) : ms[x].dir = ms[x].folder
                        /\ \A q \in DOMAIN e2 :
                             (ms[e2[q]].folder => e2[q] \in F!Attached(ms)) /\ ms[e2[q]].folder = s2[F!GetUFS(q)]
      BY DEF ClientIn
    <3>1. /\ \A x \in 1..Len(ns) : ns[x].dir = ns[x].folder
          /\ \A q \in DOMAIN en :
               (ns[en[q]].folder => en[q] \in F!Attached(ns)) /\ ns[en[q]].folder = store[F!GetUFS(q)]
      BY <2>1 DEF ClientIn
    <3>2. \A x \in 1..Len(ms) : ms[x].dir = ms[x].folder
      BY <1>3, <3>1
    <3>3. ASSUME NEW q \in DOMAIN e2
          PROVE  (ms[e2[q]].folder => e2[q] \in F!Attached(ms)) /\ ms[e2[q]].folder = s2[F!GetUFS(q)]
      <4>1. PICK x : x = e2[q]
        OBVIOUS
      <4>2. q \in DOMAIN en /\ en[q] = x /\ q # p
        BY <4>1
      <4>3. q \in Seq(Names) /\ x \in 1..Len(ns) /\ F!InodeToPath(ns, x) = q /\ F!GetUFS(q) \in DOMAIN store
        BY <1>2, <1>8, <4>2 DEF LeadIn
      <4>4. F!GetUFS(q) # k
        BY <1>5, <4>2, <4>3
      <4>5. x # c
        BY <2>4, <4>2, <4>3
      <4>6. (ns[x].folder => x \in F!Attached(ns)) /\ ns[x].folder = store[F!GetUFS(q)]
        BY <3>1, <4>2
      <4>7. ms[x].folder = ns[x].folder /\ s2[F!GetUFS(q)] = store[F!GetUFS(q)]
        BY <1>3, <4>3, <4>4
      <4> QED
        BY <1>3, <4>1, <4>5, <4>6, <4>7
    <3> QED
      BY <3>2, <3>3
  <2> QED
    BY <2>9, <2>10, <2>11
<1> QED
  BY <1>3, <1>7, <1>8 DEF Sound

\* Meta.Lookup keeps the table sound and answers the node of the name.
LEMMA LookupNodesSound ==
  ASSUME F!StoresAreTrees, NEW mv, NEW dd, NEW ns, NEW en, Sound(store, mv, dd, ns, en),
         NEW i \in 1..Len(ns), NEW n \in Names, ~F!LookupFails(ns, i, n),
         mv = {} => Reached(store, ns, i) /\ ns[i].folder,
         NEW ms, ms = F!LookupNodes(ns, i, n), NEW c, c = F!LookupNode(ns, i, n)
  PROVE  /\ Sound(store, mv, dd, ms, en) /\ c \in 1..Len(ms) /\ c \in F!Attached(ms)
         /\ F!InodeToPath(ms, c) = F!PathIn(ns, i, n) /\ F!GetUFS(F!PathIn(ns, i, n)) \in DOMAIN store
<1>1. PICK k : k = F!KeyIn(ns, i, n)
  OBVIOUS
<1>2. k \in DOMAIN store /\ store[k] \in BOOLEAN /\ k = F!GetUFS(F!PathIn(ns, i, n))
  <2>1. k \in DOMAIN store
    BY <1>1 DEF F!LookupFails, F!Exists
  <2> QED
    BY <1>1, <2>1, StoreFacts DEF F!KeyIn
<1>3. F!TableIsTree(ns)
  BY DEF Sound
<1>4. CASE F!Child(ns, i, n) # 0
  <2>1. ms = ns /\ c = F!Child(ns, i, n)
    BY <1>4 DEF F!LookupNodes, F!LookupNode
  <2>2. c \in F!Attached(ns) /\ F!Attached(ns) \subseteq 1..Len(ns)
    BY <1>3, <1>4, <2>1, AttachedFacts
  <2>3. F!InodeToPath(ns, c) = F!PathIn(ns, i, n)
    BY <1>3, <1>4, <2>1, ChildPath
  <2> QED
    BY <1>2, <2>1, <2>2, <2>3
<1>5. CASE F!Child(ns, i, n) = 0
  <2>1. PICK d : d = store[k]
    OBVIOUS
  <2>2. ms = F!NewChild(ns, i, n, d, d) /\ d \in BOOLEAN
    BY <1>1, <1>2, <1>5, <2>1 DEF F!LookupNodes
  <2>3. c = F!Child(ms, i, n)
    BY DEF F!LookupNode
  <2>4. mv = {} =>
          /\ Reached(store, ns, i) /\ ns[i].folder
          /\ F!KeyIn(ns, i, n) \in DOMAIN store /\ d = store[F!KeyIn(ns, i, n)]
          /\ (d => d) /\ (caller = "client" => d = d)
          /\ F!Child(ns, i, n) # 0 => ~ns[F!Child(ns, i, n)].folder
    BY <1>1, <1>2, <1>5, <2>1
  <2>5. Sound(store, mv, dd, ms, en)
    BY <2>2, <2>4, NewChildSound
  <2>6. PICK l : l = Len(ns) + 1
    OBVIOUS
  <2>7. Len(ms) = l /\ F!Child(ms, i, n) = l
    <3>1. /\ Len(ms) = Len(ns) + 1
          /\ \A x \in 1..Len(ns) : \A m \in Names :
               F!Child(ms, x, m) = IF x = i /\ m = n THEN Len(ns) + 1 ELSE F!Child(ns, x, m)
      BY <1>3, <2>2, NewChildFields
    <3> QED
      BY <2>6, <3>1
  <2>8. F!InodeToPath(ms, l) = F!PathIn(ns, i, n) /\ F!TableIsTree(ms)
    BY <1>3, <2>2, <2>6, NewChildTree
  <2>9. i \in 1..Len(ms) /\ l # 0 /\ Len(ns) \in Nat
    BY <1>3, <2>6, <2>7, TreeFacts
  <2>10. l \in F!Attached(ms) /\ F!Attached(ms) \subseteq 1..Len(ms)
    BY <2>7, <2>8, <2>9, AttachedFacts
  <2> QED
    BY <1>2, <2>3, <2>5, <2>7, <2>8, <2>10
<1> QED
  BY <1>4, <1>5

-----------------------------------------------------------------------------
(* Looking up a path *)

\* The cache learns a path.
LEMMA EntryAdded ==
  ASSUME NEW st, NEW mv, NEW dd, NEW ns, NEW en, Sound(st, mv, dd, ns, en),
         NEW p \in Seq(Names), NEW x \in F!Attached(ns),
         (\E d \in mv : F!IsPrefix(d, p)) \/ (F!InodeToPath(ns, x) = p /\ F!GetUFS(p) \in DOMAIN st),
         NEW e2, e2 = F!Put(en, p, x)
  PROVE  /\ Sound(st, mv, dd, ns, e2) /\ p \in DOMAIN e2 /\ e2[p] = x
         /\ \A q \in DOMAIN en : q \in DOMAIN e2 /\ (q # p => e2[q] = en[q])
<1>1. DOMAIN e2 = DOMAIN en \cup {p} /\ \A q \in DOMAIN e2 : e2[q] = IF q = p THEN x ELSE en[q]
  BY DEF F!Put
<1>2. F!TableIsTree(ns)
  BY DEF Sound
<1>3. x \in 1..Len(ns)
  BY <1>2, AttachedFacts
<1>4. LeadIn(st, mv, ns, e2)
  BY <1>1, <1>3 DEF Sound, LeadIn
<1>5. ASSUME mv = {} PROVE ClientIn(st, ns, e2)
  <2>1. F!InodeToPath(ns, x) = p /\ F!GetUFS(p) \in DOMAIN st
    BY <1>5
  <2>2. ns[x].folder = st[F!GetUFS(p)]
    <3>1. ns[x].folder = st[F!KeyOf(ns, x)]
      BY <1>5 DEF Sound, TidyIn
    <3> QED
      BY <2>1, <3>1 DEF F!KeyOf
  <2>3. ClientIn(st, ns, en)
    BY <1>5 DEF Sound
  <2> QED
    BY <1>1, <2>2, <2>3 DEF ClientIn
<1> QED
  BY <1>1, <1>4, <1>5 DEF Sound

\* The cache forgets paths.
LEMMA EntriesFewer ==
  ASSUME NEW st, NEW mv, NEW dd, NEW ns, NEW en, Sound(st, mv, dd, ns, en),
         NEW e2, \A q \in DOMAIN e2 : q \in DOMAIN en /\ e2[q] = en[q]
  PROVE  Sound(st, mv, dd, ns, e2)
BY DEF Sound, LeadIn, ClientIn

\* What the cache remembers can be operated on.
LEMMA EntryReached ==
  ASSUME NEW st, NEW mv, NEW dd, NEW ns, NEW en, Sound(st, mv, dd, ns, en), caller = "client", mv = {},
         NEW p \in DOMAIN en
  PROVE  Reached(st, ns, en[p]) /\ ns[en[p]].dir = ns[en[p]].folder
<1>1. PICK x : x = en[p]
  OBVIOUS
<1>2. x \in 1..Len(ns) /\ F!InodeToPath(ns, x) = p /\ F!GetUFS(p) \in DOMAIN st
  BY <1>1 DEF Sound, LeadIn
<1>3. (ns[x].folder => x \in F!Attached(ns)) /\ ns[x].folder = st[F!GetUFS(p)] /\ ns[x].dir = ns[x].folder
  BY <1>1, <1>2 DEF Sound, ClientIn
<1>4. F!KeyOf(ns, x) = F!GetUFS(p)
  BY <1>2 DEF F!KeyOf
<1> QED
  BY <1>1, <1>2, <1>3, <1>4 DEF Reached

\* The result of a lookup.
WorldIs(w) == w = [ok |-> w.ok, ino |-> w.ino, nodes |-> w.nodes, entry |-> w.entry, fresh |-> w.fresh]

\* What a lookup of p from the world w0 may lead to.
WorldOk(w0, w, p) ==
  /\ WorldIs(w) /\ Sound(store, moved, dead, w.nodes, w.entry) /\ w.ino \in 1..Len(w.nodes)
  /\ \A q \in DOMAIN w0.entry : q \in DOMAIN w.entry /\ w.entry[q] = w0.entry[q]
  /\ w.ok => p \in DOMAIN w.entry /\ w.entry[p] = w.ino

\* A lookup that ends where it is.
LEMMA FoundOk ==
  ASSUME NEW w, WorldIs(w), Sound(store, moved, dead, w.nodes, w.entry), NEW p \in DOMAIN w.entry, NEW v, v = F!Found(w, p)
  PROVE  WorldOk(w, v, p)
<1>1. PICK b, fr :
        /\ b = (w.entry[p] \in w.fresh \/ F!Exists(F!KeyOf(w.nodes, w.entry[p])))
        /\ fr = IF F!Exists(F!KeyOf(w.nodes, w.entry[p])) THEN w.fresh \cup {w.entry[p]} ELSE w.fresh
  OBVIOUS
<1>2. v = [w EXCEPT !.ino = w.entry[p], !.ok = b, !.fresh = fr]
  BY <1>1 DEF F!Found
<1>3. PICK ns, en, i : ns = w.nodes /\ en = w.entry /\ i = w.entry[p]
  OBVIOUS
<1>4. v = [ok |-> b, ino |-> i, nodes |-> ns, entry |-> en, fresh |-> fr]
  BY <1>2, <1>3 DEF WorldIs
<1>5. Sound(store, moved, dead, ns, en) /\ i \in 1..Len(ns)
  <2>1. Sound(store, moved, dead, ns, en) /\ p \in DOMAIN en /\ en[p] = i
    BY <1>3
  <2> QED
    BY <2>1 DEF Sound, LeadIn
<1> QED
  BY <1>3, <1>4, <1>5 DEF WorldOk, WorldIs

\* The root of a lookup.
LEMMA RootFields ==
  ASSUME NEW w, WorldIs(w), NEW e2, NEW fr, NEW one, NEW v, v = [w EXCEPT !.ino = one, !.entry = e2, !.fresh = fr]
  PROVE  WorldIs(v) /\ v.nodes = w.nodes /\ v.entry = e2 /\ v.ino = one
  BY DEF WorldIs

\* The root is found in the cache or put there.
LEMMA RootEntry ==
  ASSUME F!StoresAreTrees, NEW ns, NEW en, Sound(store, moved, dead, ns, en)
  PROVE  \E e, one : /\ e = <<>> /\ one = 1 /\ one \in F!Attached(ns) /\ one \in 1..Len(ns) /\ e \in Seq(Names)
                     /\ F!InodeToPath(ns, one) = e /\ F!GetUFS(e) \in DOMAIN store
<1>1. PICK e, one : e = <<>> /\ one = 1
  OBVIOUS
<1>5. F!TableIsTree(ns)
  BY DEF Sound
<1>6. one \in F!Attached(ns) /\ one \in 1..Len(ns) /\ e \in Seq(Names)
  BY <1>1, <1>5, AttachedFacts
<1>7. F!InodeToPath(ns, one) = e
  <2>1. Climbs(ns) /\ 1 \in 1..Len(ns) /\ ns[1].parent = 0
    BY <1>5, TreeFacts
  <2> QED
    BY <1>1, <2>1, PathUnfolds
<1>8. F!GetUFS(e) \in DOMAIN store
  <2>1. LinksApart /\ [ufs |-> <<>>, sub |-> <<>>] \in DOMAIN store
    BY StoreFacts
  <2>2. Bare(e)
    <3> SUFFICES ASSUME NEW l \in links, F!IsPrefix(l, e) PROVE FALSE
      BY DEF Bare
    <3>1. l \in Seq(Names) /\ l # <<>>
      BY <2>1 DEF LinksApart
    <3>2. F!IsPrefix(l, <<>>) => l = <<>>
      BY <3>1, Prefixes
    <3> QED
      BY <1>1, <3>1, <3>2
  <2>3. F!GetUFS(e) = [ufs |-> <<>>, sub |-> e]
    BY <1>6, <2>2, BareKey
  <2> QED
    BY <1>1, <2>1, <2>3
<1> QED
  BY <1>1, <1>6, <1>7, <1>8

\* The root in the cache.
LEMMA RootPut ==
  ASSUME NEW w, WorldIs(w), Sound(store, moved, dead, w.nodes, w.entry),
         NEW e \in Seq(Names), e \notin DOMAIN w.entry, NEW one \in 1..Len(w.nodes), one \in F!Attached(w.nodes),
         F!InodeToPath(w.nodes, one) = e, F!GetUFS(e) \in DOMAIN store,
         NEW v, NEW e2, e2 = F!Put(w.entry, e, one), WorldIs(v), v.nodes = w.nodes, v.entry = e2, v.ino = one
  PROVE  WorldOk(w, v, e)
<1>1. WorldIs(v) /\ v.nodes = w.nodes /\ v.entry = e2 /\ v.ino = one
  OBVIOUS
<1>2. PICK ns, en : ns = w.nodes /\ en = w.entry
  OBVIOUS
<1>3. Sound(store, moved, dead, ns, en) /\ one \in F!Attached(ns)
      /\ F!InodeToPath(ns, one) = e /\ F!GetUFS(e) \in DOMAIN store /\ e2 = F!Put(en, e, one)
  BY <1>2
<1>4. /\ Sound(store, moved, dead, ns, e2) /\ e \in DOMAIN e2 /\ e2[e] = one
      /\ \A q \in DOMAIN en : q \in DOMAIN e2 /\ (q # e => e2[q] = en[q])
  BY <1>3, EntryAdded
<1>5. \A q \in DOMAIN w.entry : q \in DOMAIN e2 /\ e2[q] = w.entry[q]
  BY <1>2, <1>4
<1>6. Sound(store, moved, dead, v.nodes, v.entry) /\ v.ino \in 1..Len(v.nodes)
  BY <1>1, <1>2, <1>4
<1>7. \A q \in DOMAIN w.entry : q \in DOMAIN v.entry /\ v.entry[q] = w.entry[q]
  BY <1>1, <1>5
<1>8. e \in DOMAIN v.entry /\ v.entry[e] = v.ino
  BY <1>1, <1>4
<1> QED
  BY <1>1, <1>6, <1>7, <1>8 DEF WorldOk

\* A lookup of the root.
LEMMA RootOk ==
  ASSUME F!StoresAreTrees, NEW w, WorldIs(w), Sound(store, moved, dead, w.nodes, w.entry),
         <<>> \notin DOMAIN w.entry
  PROVE  WorldOk(w, [w EXCEPT !.ino = 1, !.entry = F!Put(@, <<>>, 1), !.fresh = @ \cup {1}], <<>>)
<1>1. PICK e, one : /\ e = <<>> /\ one = 1 /\ one \in F!Attached(w.nodes) /\ one \in 1..Len(w.nodes) /\ e \in Seq(Names)
                    /\ F!InodeToPath(w.nodes, one) = e /\ F!GetUFS(e) \in DOMAIN store
  BY RootEntry
<1>2. \A e2, fr, v : e2 = F!Put(w.entry, e, one) /\ v = [w EXCEPT !.ino = one, !.entry = e2, !.fresh = fr] => WorldOk(w, v, e)
  <2> SUFFICES ASSUME NEW e2, NEW fr, NEW v, e2 = F!Put(w.entry, e, one), v = [w EXCEPT !.ino = one, !.entry = e2, !.fresh = fr]
               PROVE  WorldOk(w, v, e)
    OBVIOUS
  <2>1. e \notin DOMAIN w.entry
    BY <1>1
  <2>2. WorldIs(v) /\ v.nodes = w.nodes /\ v.entry = e2 /\ v.ino = one
    BY DEF WorldIs
  <2> QED
    BY <1>1, <2>1, <2>2, RootPut
<1>3. WorldOk(w, [w EXCEPT !.ino = one, !.entry = F!Put(w.entry, e, one), !.fresh = w.fresh \cup {one}], e)
  BY <1>2, Zenon
<1> QED
  BY <1>1, <1>3

\* One name of a lookup, in the directory found so far.
LEMMA LookupInOk ==
  ASSUME F!StoresAreTrees, moved \subseteq Seq(Names), caller = "client",
         NEW p \in Seq(Names), p # <<>>, NEW w, NEW v, WorldOk(w, v, F!DirName(p)), p \notin DOMAIN w.entry,
         NEW u, u = F!LookupIn(v, p)
  PROVE  WorldOk(w, u, p)
<1>1. PICK ns, en, i, n, d, b, fr :
        ns = v.nodes /\ en = v.entry /\ i = v.ino /\ n = F!Last(p) /\ d = F!DirName(p) /\ b = v.ok /\ fr = v.fresh
  OBVIOUS
<1>2. v = [ok |-> b, ino |-> i, nodes |-> ns, entry |-> en, fresh |-> fr]
  BY <1>1 DEF WorldOk, WorldIs
<1>3. /\ Sound(store, moved, dead, ns, en) /\ i \in 1..Len(ns)
      /\ \A q \in DOMAIN w.entry : q \in DOMAIN en /\ en[q] = w.entry[q]
      /\ b => d \in DOMAIN en /\ en[d] = i
  BY <1>1 DEF WorldOk
<1>4. d \in Seq(Names) /\ n \in Names /\ p = Append(d, n)
  BY <1>1, PathParts
<1>5. CASE ~b \/ F!LookupFails(ns, i, n)
  <2>1. u = [v EXCEPT !.ok = FALSE]
    BY <1>1, <1>5 DEF F!LookupIn
  <2>2. u = [ok |-> FALSE, ino |-> i, nodes |-> ns, entry |-> en, fresh |-> fr]
    BY <1>2, <2>1
  <2> QED
    BY <1>3, <2>2 DEF WorldOk, WorldIs
<1>6. CASE b /\ ~F!LookupFails(ns, i, n)
  <2>1. PICK ms, c : ms = F!LookupNodes(ns, i, n) /\ c = F!LookupNode(ns, i, n)
    OBVIOUS
  <2>2. PICK e2, f2 : e2 = F!Put(en, p, c) /\ f2 = fr \cup {c}
    OBVIOUS
  <2>3. u = [ok |-> TRUE, ino |-> c, nodes |-> ms, entry |-> e2, fresh |-> f2]
    BY <1>1, <1>6, <2>1, <2>2 DEF F!LookupIn
  <2>4. moved = {} => Reached(store, ns, i) /\ ns[i].folder
    <3> SUFFICES ASSUME moved = {} PROVE Reached(store, ns, i) /\ ns[i].folder
      OBVIOUS
    <3>1. Reached(store, ns, en[d]) /\ ns[en[d]].dir = ns[en[d]].folder
      BY <1>3, <1>6, EntryReached
    <3>2. ns[i].dir
      BY <1>6 DEF F!LookupFails
    <3> QED
      BY <1>3, <1>6, <3>1, <3>2
  <2>5. /\ Sound(store, moved, dead, ms, en) /\ c \in 1..Len(ms) /\ c \in F!Attached(ms)
        /\ F!InodeToPath(ms, c) = F!PathIn(ns, i, n) /\ F!GetUFS(F!PathIn(ns, i, n)) \in DOMAIN store
    BY <1>3, <1>4, <1>6, <2>1, <2>4, LookupNodesSound
  <2>6. (\E x \in moved : F!IsPrefix(x, p)) \/ (F!InodeToPath(ms, c) = p /\ F!GetUFS(p) \in DOMAIN store)
    <3>1. d \in DOMAIN en /\ en[d] = i
      BY <1>3, <1>6
    <3>2. (\E x \in moved : F!IsPrefix(x, d)) \/ F!InodeToPath(ns, i) = d
      BY <1>3, <3>1 DEF Sound, LeadIn
    <3>3. CASE \E x \in moved : F!IsPrefix(x, d)
      <4>1. PICK x \in moved : F!IsPrefix(x, d)
        BY <3>3
      <4>2. x \in Seq(Names) /\ F!IsPrefix(d, p)
        BY <1>4, AppendFields
      <4>3. F!IsPrefix(x, p)
        BY <1>4, <4>1, <4>2, Prefixes
      <4> QED
        BY <4>3
    <3>4. CASE F!InodeToPath(ns, i) = d
      <4>1. F!PathIn(ns, i, n) = p
        BY <1>4, <3>4 DEF F!PathIn
      <4> QED
        BY <2>5, <4>1
    <3> QED
      BY <3>2, <3>3, <3>4
  <2>7. /\ Sound(store, moved, dead, ms, e2) /\ p \in DOMAIN e2 /\ e2[p] = c
        /\ \A q \in DOMAIN en : q \in DOMAIN e2 /\ (q # p => e2[q] = en[q])
    BY <2>2, <2>5, <2>6, EntryAdded
  <2>8. \A q \in DOMAIN w.entry : q \in DOMAIN e2 /\ e2[q] = w.entry[q]
    BY <1>3, <2>7
  <2> QED
    BY <2>3, <2>5, <2>7, <2>8 DEF WorldOk, WorldIs
<1> QED
  BY <1>5, <1>6

\* One step of a lookup of p: what it found for the first n names of the path.
LookStep(w, p, g, n) ==
  IF SubSeq(p, 1, n) \in DOMAIN w.entry THEN F!Found(w, SubSeq(p, 1, n))
  ELSE IF n = 0 THEN [w EXCEPT !.ino = 1, !.entry = F!Put(@, <<>>, 1), !.fresh = @ \cup {1}]
  ELSE F!LookupIn(g[n - 1], SubSeq(p, 1, n))

\* There is a function that looks up the first n names of a path, for every n.
LEMMA LookExists ==
  ASSUME NEW w, NEW p \in Seq(Names)
  PROVE  \E g : g = [n \in 0..Len(p) |-> LookStep(w, p, g, n)]
<1> DEFINE Upto(m) == \E g : g = [n \in 0..m |-> LookStep(w, p, g, n)]
           Bad == {m \in 0..Len(p) : ~Upto(m)}
<1>1. Len(p) \in Nat
  OBVIOUS
<1>2. ASSUME Bad # {} PROVE FALSE
  <2>1. Bad \in SUBSET Nat
    BY <1>1
  <2>2. PICK m \in Bad : \A y \in Bad : m <= y
    BY <1>2, <2>1, LeastOfSet
  <2>3. m # 0
    <3> DEFINE h == [n \in 0..0 |-> LookStep(w, p, p, 0)]
    <3>1. h[0] = LookStep(w, p, p, 0)
      OBVIOUS
    <3>2. LookStep(w, p, p, 0) = LookStep(w, p, h, 0)
      BY DEF LookStep
    <3>3. h = [n \in 0..0 |-> LookStep(w, p, h, n)]
      <4> HIDE DEF h
      <4>1. h = [n \in 0..0 |-> LookStep(w, p, h, 0)]
        BY <3>2 DEF h
      <4>2. \A n \in 0..0 : n = 0
        OBVIOUS
      <4>3. \A n \in 0..0 : LookStep(w, p, h, n) = LookStep(w, p, h, 0)
        BY <4>2
      <4> QED
        BY <4>1, <4>3, Zenon
    <3>4. Upto(0)
      BY <3>3
    <3> QED
      BY <2>2, <3>4
  <2>4. m - 1 \in 0..Len(p) /\ ~(m <= m - 1) /\ m \in 0..Len(p)
    BY <1>1, <2>2, <2>3
  <2>5. Upto(m - 1)
    BY <2>2, <2>4
  <2>6. PICK g : g = [n \in 0..m - 1 |-> LookStep(w, p, g, n)]
    BY <2>5
  <2> DEFINE h == [n \in 0..m |-> IF n = m THEN LookStep(w, p, g, m) ELSE g[n]]
  <2>7. \A n \in 0..m : LookStep(w, p, h, n) = LookStep(w, p, g, n)
    <3> SUFFICES ASSUME NEW n \in 0..m PROVE LookStep(w, p, h, n) = LookStep(w, p, g, n)
      OBVIOUS
    <3>1. n # 0 => n - 1 \in 0..m /\ n - 1 # m
      BY <2>4, <1>1
    <3>2. n # 0 => h[n - 1] = g[n - 1]
      BY <3>1
    <3> HIDE DEF h
    <3> QED
      BY <3>2 DEF LookStep
  <2>8. \A n \in 0..m - 1 : n \in 0..m /\ n # m /\ g[n] = LookStep(w, p, g, n)
    <3>1. \A n \in 0..m - 1 : n \in 0..m /\ n # m
      BY <2>4, <1>1
    <3>2. \A n \in 0..m - 1 : g[n] = LookStep(w, p, g, n)
      BY <2>6
    <3> QED
      BY <3>1, <3>2
  <2>9. \A n \in 0..m : h[n] = LookStep(w, p, h, n)
    <3>1. \A n \in 0..m : n = m \/ n \in 0..m - 1
      BY <2>4, <1>1
    <3>2. \A n \in 0..m : h[n] = IF n = m THEN LookStep(w, p, g, m) ELSE g[n]
      OBVIOUS
    <3> HIDE DEF h
    <3> QED
      BY <3>1, <3>2, <2>7, <2>8
  <2>10. h = [n \in 0..m |-> LookStep(w, p, h, n)]
    <3> HIDE DEF h
    <3>1. h = [n \in 0..m |-> h[n]]
      BY DEF h
    <3> QED
      BY <2>9, <3>1
  <2>11. Upto(m)
    BY <2>10
  <2> QED
    BY <2>2, <2>11
<1>3. Upto(Len(p))
  BY <1>1, <1>2
<1> QED
  BY <1>1, <1>3

\* The first names of a path.
LEMMA Starts ==
  ASSUME NEW p \in Seq(Names)
  PROVE  /\ SubSeq(p, 1, Len(p)) = p /\ SubSeq(p, 1, 0) = <<>> /\ Len(p) \in Nat
         /\ \A n \in 1..Len(p) :
              /\ SubSeq(p, 1, n) \in Seq(Names) /\ SubSeq(p, 1, n) # <<>>
              /\ F!DirName(SubSeq(p, 1, n)) = SubSeq(p, 1, n - 1)
<1>1. Len(p) \in Nat
  OBVIOUS
<1>2. \A n \in 0..Len(p) : SubSeq(p, 1, n) \in Seq(Names) /\ Len(SubSeq(p, 1, n)) = n
                           /\ \A i \in 1..n : SubSeq(p, 1, n)[i] = p[i]
  OBVIOUS
<1>3. SubSeq(p, 1, Len(p)) = p
  BY <1>1, <1>2, SeqEqual
<1>4. SubSeq(p, 1, 0) = <<>>
  OBVIOUS
<1>5. ASSUME NEW n \in 1..Len(p) PROVE F!DirName(SubSeq(p, 1, n)) = SubSeq(p, 1, n - 1)
  <2>1. PICK q, r, m : q = SubSeq(p, 1, n) /\ m = n - 1 /\ r = SubSeq(p, 1, m)
    OBVIOUS
  <2>2. n \in 0..Len(p) /\ m \in 0..Len(p) /\ n \in Nat /\ m \in Nat /\ \A i \in 1..m : i \in 1..n
    BY <1>1, <2>1
  <2>3. /\ q \in Seq(Names) /\ Len(q) = n /\ \A i \in 1..n : q[i] = p[i]
        /\ r \in Seq(Names) /\ Len(r) = m /\ \A i \in 1..m : r[i] = p[i]
    BY <1>2, <2>1, <2>2
  <2>4. PICK d : d = SubSeq(q, 1, m)
    OBVIOUS
  <2>5. d \in Seq(Names) /\ Len(d) = m /\ \A i \in 1..m : d[i] = q[i]
    BY <2>1, <2>2, <2>3, <2>4
  <2>6. d = r
    BY <2>2, <2>3, <2>5, SeqEqual
  <2>7. F!DirName(q) = d
    BY <2>1, <2>3, <2>4 DEF F!DirName
  <2> QED
    BY <2>1, <2>6, <2>7
<1>6. \A n \in 1..Len(p) : SubSeq(p, 1, n) \in Seq(Names) /\ SubSeq(p, 1, n) # <<>>
  <2> SUFFICES ASSUME NEW n \in 1..Len(p) PROVE SubSeq(p, 1, n) \in Seq(Names) /\ SubSeq(p, 1, n) # <<>>
    OBVIOUS
  <2>1. n \in 0..Len(p) /\ n # 0
    BY <1>1
  <2>2. SubSeq(p, 1, n) \in Seq(Names) /\ Len(SubSeq(p, 1, n)) = n
    BY <1>2, <2>1
  <2> QED
    BY <2>1, <2>2
<1> QED
  BY <1>1, <1>3, <1>4, <1>5, <1>6

\* A lookup of a path is a lookup of its directory, and of its last name in that.
LEMMA LookupUnfolds ==
  ASSUME NEW w, NEW p \in Seq(Names)
  PROVE  \E g : /\ F!Lookup(w, p) = g[Len(p)]
                /\ \A n \in 0..Len(p) : g[n] = LookStep(w, p, g, n)
<1> DEFINE found == CHOOSE g : g = [n \in 0..Len(p) |-> LookStep(w, p, g, n)]
<1>1. found = [n \in 0..Len(p) |-> LookStep(w, p, found, n)]
  BY LookExists
<1>2. F!Lookup(w, p) = found[Len(p)]
  BY DEF F!Lookup, LookStep
<1> HIDE DEF found
<1>3. \A n \in 0..Len(p) : found[n] = LookStep(w, p, found, n)
  BY <1>1
<1> QED
  BY <1>2, <1>3

\* A lookup keeps the table sound, and what it finds is what was asked for.
LEMMA LookupOk ==
  ASSUME F!StoresAreTrees, moved \subseteq Seq(Names), caller = "client",
         NEW w, WorldIs(w), Sound(store, moved, dead, w.nodes, w.entry), NEW p \in Seq(Names)
  PROVE  WorldOk(w, F!Lookup(w, p), p)
<1>1. PICK g : F!Lookup(w, p) = g[Len(p)] /\ \A n \in 0..Len(p) : g[n] = LookStep(w, p, g, n)
  BY LookupUnfolds
<1>2. /\ SubSeq(p, 1, Len(p)) = p /\ SubSeq(p, 1, 0) = <<>> /\ Len(p) \in Nat
      /\ \A n \in 1..Len(p) :
           /\ SubSeq(p, 1, n) \in Seq(Names) /\ SubSeq(p, 1, n) # <<>>
           /\ F!DirName(SubSeq(p, 1, n)) = SubSeq(p, 1, n - 1)
  BY Starts
<1> DEFINE Ok(n) == WorldOk(w, g[n], SubSeq(p, 1, n))
           Bad == {n \in 0..Len(p) : ~Ok(n)}
<1>3. ASSUME NEW n \in 0..Len(p), SubSeq(p, 1, n) \in DOMAIN w.entry PROVE Ok(n)
  <2>1. g[n] = F!Found(w, SubSeq(p, 1, n))
    BY <1>1, <1>3 DEF LookStep
  <2> QED
    BY <1>3, <2>1, FoundOk
<1>4. Ok(0)
  <2>1. CASE SubSeq(p, 1, 0) \in DOMAIN w.entry
    BY <1>2, <1>3, <2>1
  <2>2. CASE SubSeq(p, 1, 0) \notin DOMAIN w.entry
    <3>1. 0 \in 0..Len(p)
      BY <1>2
    <3>2. g[0] = LookStep(w, p, g, 0)
      BY <1>1, <3>1
    <3>3. LookStep(w, p, g, 0) = [w EXCEPT !.ino = 1, !.entry = F!Put(@, <<>>, 1), !.fresh = @ \cup {1}]
      BY <2>2, Zenon DEF LookStep
    <3>4. WorldOk(w, [w EXCEPT !.ino = 1, !.entry = F!Put(@, <<>>, 1), !.fresh = @ \cup {1}], <<>>)
      BY <1>2, <2>2, RootOk
    <3> QED
      BY <1>2, <3>2, <3>3, <3>4
  <2> QED
    BY <2>1, <2>2
<1>5. ASSUME NEW n \in 1..Len(p), Ok(n - 1) PROVE Ok(n)
  <2>1. CASE SubSeq(p, 1, n) \in DOMAIN w.entry
    BY <1>2, <1>3, <2>1
  <2>2. CASE SubSeq(p, 1, n) \notin DOMAIN w.entry
    <3>1. n \in 0..Len(p) /\ n # 0
      BY <1>2
    <3>2. g[n] = LookStep(w, p, g, n)
      BY <1>1, <3>1
    <3>3. LookStep(w, p, g, n) = F!LookupIn(g[n - 1], SubSeq(p, 1, n))
      BY <2>2, <3>1 DEF LookStep
    <3>4. PICK q, v : q = SubSeq(p, 1, n) /\ v = g[n - 1]
      OBVIOUS
    <3>5. q \in Seq(Names) /\ q # <<>> /\ WorldOk(w, v, F!DirName(q)) /\ q \notin DOMAIN w.entry
      BY <1>2, <1>5, <2>2, <3>4
    <3>6. WorldOk(w, F!LookupIn(v, q), q)
      BY <3>5, LookupInOk
    <3> QED
      BY <3>2, <3>3, <3>4, <3>6
  <2> QED
    BY <2>1, <2>2
<1> HIDE DEF Ok
<1>6. ASSUME Bad # {} PROVE FALSE
  <2>1. Bad \in SUBSET Nat
    BY <1>2
  <2>2. PICK m \in Bad : \A y \in Bad : m <= y
    BY <1>6, <2>1, LeastOfSet
  <2>3. m # 0
    BY <1>4, <2>2
  <2>4. m \in 1..Len(p) /\ m - 1 \in 0..Len(p) /\ ~(m <= m - 1)
    BY <1>2, <2>2, <2>3
  <2>5. Ok(m - 1)
    BY <2>2, <2>4
  <2> QED
    BY <1>5, <2>2, <2>4, <2>5
<1>7. Ok(Len(p))
  BY <1>2, <1>6
<1> QED
  BY <1>1, <1>2, <1>7 DEF Ok

-----------------------------------------------------------------------------
(* The operations *)

\* Sound of the next state.
LEMMA SoundNext ==
  ASSUME caller' = caller, links' = links, Sound(store', moved', dead', nodes', entry')
  PROVE  Sound(store, moved, dead, nodes, entry)'
<1>1. \A p : F!GetUFS(p)' = F!GetUFS(p)
  BY DEF F!GetUFS
<1> QED
  BY <1>1 DEF Sound, LeadIn, TidyIn, KernelIn, ClientIn, F!KeyOf

\* Trees of the next state.
LEMMA TreesNext ==
  ASSUME Sound(store, moved, dead, nodes, entry)'
  PROVE  F!TableIsTree(nodes)' /\ F!EntriesLead(nodes, entry)' /\ F!Tidy(nodes, entry)'
<1>1. ((F!TableIsTree(nodes) /\ F!EntriesLead(nodes, entry) /\ F!Tidy(nodes, entry)) <=> Sound(store, moved, dead, nodes, entry))'
  BY SoundAsSaid, PTL
<1> QED
  BY <1>1

\* An operation on the name n in the directory i of the table ns.
Aims(ns, en, i, n) ==
  /\ Sound(store, moved, dead, ns, en) /\ i \in 1..Len(ns) /\ n \in Names
  /\ moved = {} => Reached(store, ns, i)
  /\ caller = "kernel" => DOMAIN en = {}

\* What the name is to the storage.
LEMMA AimKeys ==
  ASSUME F!StoresAreTrees, NEW ns, NEW en, NEW i, NEW n, Aims(ns, en, i, n), NEW k, k = F!KeyIn(ns, i, n)
  PROVE  /\ k \in F!Keys /\ F!PathIn(ns, i, n) \in Seq(Names) /\ k = F!GetUFS(F!PathIn(ns, i, n))
         /\ k # [ufs |-> <<>>, sub |-> <<>>]
         /\ k.sub # <<>> => F!Parent(k) = F!KeyOf(ns, i)
<1>1. F!TableIsTree(ns) /\ i \in 1..Len(ns) /\ n \in Names /\ LinksApart
  BY StoreFacts DEF Aims, Sound
<1>2. PICK d, p : d = F!InodeToPath(ns, i) /\ p = F!PathIn(ns, i, n)
  OBVIOUS
<1>3. d \in Seq(Names) /\ p \in Seq(Names) /\ p # <<>> /\ p = Append(d, n)
  BY <1>1, <1>2, ChildPath
<1>4. k = F!GetUFS(p)
  BY <1>2 DEF F!KeyIn
<1>5. k = [ufs |-> k.ufs, sub |-> k.sub] /\ k \in F!Keys /\ k.ufs \in links \cup {<<>>}
  BY <1>1, <1>3, <1>4, KeyParts
<1>6. k.sub = <<>> <=> p \in links \cup {<<>>}
  BY <1>1, <1>3, <1>4, KeyOfLink
<1>7. k.sub # <<>> => F!Parent(k) = F!KeyOf(ns, i)
  <2> SUFFICES ASSUME k.sub # <<>> PROVE F!Parent(k) = F!KeyOf(ns, i)
    OBVIOUS
  <2>1. Append(d, n) \notin links
    BY <1>3, <1>6
  <2>2. F!Parent(F!GetUFS(Append(d, n))) = F!GetUFS(d)
    BY <1>1, <1>3, <2>1, KeyOfChild
  <2> QED
    BY <1>2, <1>3, <1>4, <2>2 DEF F!KeyOf
<1>8. k # [ufs |-> <<>>, sub |-> <<>>]
  <2> SUFFICES ASSUME k = [ufs |-> <<>>, sub |-> <<>>] PROVE FALSE
    OBVIOUS
  <2>1. PICK e : e = <<>>
    OBVIOUS
  <2>2. k = [ufs |-> e, sub |-> e]
    BY <2>1
  <2>3. k.ufs = e /\ k.sub = e
    BY <2>2
  <2>4. Len(p) = Len(k.ufs) + Len(k.sub)
    BY <1>1, <1>3, <1>4, KeyParts
  <2>5. Len(p) = 0
    BY <2>1, <2>3, <2>4
  <2> QED
    BY <1>3, <2>5
<1> QED
  BY <1>2, <1>3, <1>4, <1>5, <1>7, <1>8

\* The node the table has for the name is as the storage says.
LEMMA ChildIs ==
  ASSUME NEW ns, NEW en, NEW i, NEW n, Aims(ns, en, i, n), moved = {}, F!Child(ns, i, n) # 0
  PROVE  /\ F!KeyIn(ns, i, n) \in DOMAIN store /\ ns[F!Child(ns, i, n)].folder = store[F!KeyIn(ns, i, n)]
         /\ F!Child(ns, i, n) \in F!Attached(ns) /\ F!InodeToPath(ns, F!Child(ns, i, n)) = F!PathIn(ns, i, n)
<1>1. F!TableIsTree(ns) /\ i \in 1..Len(ns) /\ n \in Names /\ TidyIn(store, ns)
  BY DEF Aims, Sound
<1>2. PICK c : c = F!Child(ns, i, n)
  OBVIOUS
<1>3. c \in F!Attached(ns)
  BY <1>1, <1>2, AttachedFacts
<1>4. F!InodeToPath(ns, c) = F!PathIn(ns, i, n)
  BY <1>1, <1>2, ChildPath
<1>5. F!KeyOf(ns, c) = F!KeyIn(ns, i, n)
  BY <1>4 DEF F!KeyOf, F!KeyIn
<1>6. F!KeyOf(ns, c) \in DOMAIN store /\ ns[c].folder = store[F!KeyOf(ns, c)]
  BY <1>1, <1>3 DEF TidyIn
<1> QED
  BY <1>2, <1>3, <1>4, <1>5, <1>6

\* Making a name in a directory.
LEMMA MakeSound ==
  ASSUME F!StoresAreTrees, NEW ns, NEW en, NEW i, NEW n, Aims(ns, en, i, n), NEW k, k = F!KeyIn(ns, i, n),
         F!MayMake(k), NEW f \in BOOLEAN, NEW d \in BOOLEAN, f => d, caller = "client" => d = f,
         links' = links, store' = F!With(k, f)
  PROVE  F!StoresAreTrees' /\ Sound(store', moved, dead, F!NewChild(ns, i, n, d, f), en)
<1>1. /\ k \in F!Keys /\ k = F!GetUFS(F!PathIn(ns, i, n))
      /\ k.sub # <<>> => F!Parent(k) = F!KeyOf(ns, i)
  BY AimKeys
<1>2. /\ F!StoresAreTrees' /\ DOMAIN store' = DOMAIN store \cup {k} /\ k \notin DOMAIN store
      /\ store'[k] = f /\ \A x \in DOMAIN store : store'[x] = store[x]
  BY <1>1, StoreGrows
<1>3. PICK s2 : s2 = store'
  OBVIOUS
<1>4. k \in DOMAIN s2 /\ s2[k] = f /\ \A x \in DOMAIN store : x \in DOMAIN s2 /\ s2[x] = store[x]
  BY <1>2, <1>3
<1>5. i \in 1..Len(ns) /\ n \in Names /\ Sound(store, moved, dead, ns, en)
  BY DEF Aims
<1>6. Sound(s2, moved, dead, ns, en)
  BY <1>4, <1>5, SoundGrows
<1>7. ASSUME moved = {}
      PROVE  /\ Reached(s2, ns, i) /\ ns[i].folder
             /\ F!KeyIn(ns, i, n) \in DOMAIN s2 /\ f = s2[F!KeyIn(ns, i, n)]
             /\ (f => d) /\ (caller = "client" => d = f)
             /\ F!Child(ns, i, n) # 0 => ~ns[F!Child(ns, i, n)].folder
  <2>1. Reached(store, ns, i)
    BY <1>7 DEF Aims
  <2>2. Reached(s2, ns, i)
    BY <1>4, <2>1 DEF Reached
  <2>3. k.sub # <<>> /\ store[F!Parent(k)]
    BY DEF F!MayMake, F!DirAt
  <2>4. ns[i].folder
    BY <1>1, <2>1, <2>3 DEF Reached
  <2>5. F!Child(ns, i, n) = 0
    BY <1>2, <1>7, ChildIs
  <2> QED
    BY <1>4, <2>2, <2>4, <2>5
<1>8. Sound(s2, moved, dead, F!NewChild(ns, i, n, d, f), en)
  BY <1>5, <1>6, <1>7, NewChildSound
<1> QED
  BY <1>2, <1>3, <1>8

\* Opening the file that is there makes a second node for it.
LEMMA AgainSound ==
  ASSUME F!StoresAreTrees, NEW ns, NEW en, NEW i, NEW n, Aims(ns, en, i, n), NEW k, k = F!KeyIn(ns, i, n),
         k \in DOMAIN store, ~store[k]
  PROVE  Sound(store, moved, dead, F!NewChild(ns, i, n, FALSE, FALSE), en)
<1>1. k.sub # <<>> => F!Parent(k) = F!KeyOf(ns, i)
  BY AimKeys
<1>2. i \in 1..Len(ns) /\ n \in Names /\ Sound(store, moved, dead, ns, en)
  BY DEF Aims
<1>3. k.sub # <<>> /\ store[F!Parent(k)] /\ store[k] = FALSE
  BY StoreFacts
<1>4. ASSUME moved = {}
      PROVE  /\ Reached(store, ns, i) /\ ns[i].folder
             /\ F!KeyIn(ns, i, n) \in DOMAIN store /\ FALSE = store[F!KeyIn(ns, i, n)]
             /\ (FALSE => FALSE) /\ (caller = "client" => FALSE = FALSE)
             /\ F!Child(ns, i, n) # 0 => ~ns[F!Child(ns, i, n)].folder
  <2>1. Reached(store, ns, i)
    BY <1>4 DEF Aims
  <2>2. ns[i].folder
    BY <1>1, <1>3, <2>1 DEF Reached
  <2>3. F!Child(ns, i, n) # 0 => ns[F!Child(ns, i, n)].folder = store[k]
    BY <1>4, ChildIs
  <2> QED
    BY <1>3, <2>1, <2>2, <2>3
<1>5. PICK d \in BOOLEAN : d = FALSE
  OBVIOUS
<1>6. moved = {} =>
           /\ Reached(store, ns, i) /\ ns[i].folder
           /\ F!KeyIn(ns, i, n) \in DOMAIN store /\ d = store[F!KeyIn(ns, i, n)]
           /\ (d => d) /\ (caller = "client" => d = d)
           /\ F!Child(ns, i, n) # 0 => ~ns[F!Child(ns, i, n)].folder
  BY <1>4, <1>5
<1>7. Sound(store, moved, dead, F!NewChild(ns, i, n, d, d), en)
  BY <1>2, <1>6, NewChildSound
<1> QED
  BY <1>5, <1>7

\* Taking a name away: plain files, and directories with nothing in them.
LEMMA DeleteSound ==
  ASSUME F!StoresAreTrees, caller \in {"kernel", "client"},
         NEW ns, NEW en, NEW i, NEW n, Aims(ns, en, i, n), NEW k, k = F!KeyIn(ns, i, n),
         k \in F!PlainFiles \cup F!EmptyDirs, NEW named, NEW e2, \A q \in DOMAIN e2 : q \in DOMAIN en /\ e2[q] = en[q],
         caller = "client" => named \notin DOMAIN e2,
         NEW d2, dead \subseteq d2, store[k] => F!Child(ns, i, n) \in d2,
         links' = links, store' = F!Without({k})
  PROVE  F!StoresAreTrees' /\ Sound(store', moved \cup F!Strays(named, F!PathIn(ns, i, n)), d2, F!RmChild(ns, i, n), e2)
<1>1. PICK p : p = F!PathIn(ns, i, n)
  OBVIOUS
<1>2. k \in F!Keys /\ p \in Seq(Names) /\ k = F!GetUFS(p) /\ k # [ufs |-> <<>>, sub |-> <<>>]
  BY <1>1, AimKeys
<1>3. k \in DOMAIN store
  BY DEF F!PlainFiles, F!EmptyDirs
<1>4. ASSUME NEW x \in DOMAIN store, x.ufs = k.ufs, F!IsPrefix(k.sub, x.sub) PROVE x = k
  <2>1. CASE k \in F!PlainFiles
    <3>1. store[k] = FALSE
      BY <2>1, StoreFacts DEF F!PlainFiles
    <3> QED
      BY <1>2, <1>4, <3>1, AboveIsDir
  <2>2. CASE k \in F!EmptyDirs
    BY <1>4, <2>2 DEF F!EmptyDirs, F!Inside
  <2> QED
    BY <2>1, <2>2
<1>5. /\ F!StoresAreTrees' /\ DOMAIN store' = DOMAIN store \ {k}
      /\ \A x \in DOMAIN store' : store'[x] = store[x]
  BY <1>2, <1>3, <1>4, StoreShrinks
<1>6. PICK s2 : s2 = store'
  OBVIOUS
<1>7. \A x \in DOMAIN store \ {k} : x \in DOMAIN s2 /\ s2[x] = store[x]
  BY <1>5, <1>6
<1>8. i \in 1..Len(ns) /\ n \in Names /\ Sound(store, moved, dead, ns, en) /\ (moved = {} => Reached(store, ns, i))
  BY DEF Aims
<1>9. PICK ms : ms = F!RmChild(ns, i, n)
  OBVIOUS
<1>10. CASE F!Strays(named, p) = {p}
  <2>1. k \in F!Inside(k)
    BY <1>2, <1>3, Prefixes DEF F!Inside, F!Keys
  <2>2. \A x \in DOMAIN store \ F!Inside(k) : x \in DOMAIN s2
    BY <1>7, <2>1
  <2>3. Sound(s2, moved \cup {p}, d2, ms, e2)
    BY <1>1, <1>2, <1>8, <1>9, <2>2, AwaySound
  <2> QED
    BY <1>1, <1>5, <1>6, <1>9, <1>10, <2>3
<1>11. CASE F!Strays(named, p) # {p}
  <2>1. /\ F!Strays(named, p) = {} /\ ~(caller = "client" /\ named # p)
        /\ \A l \in links : F!IsPrefix(p, l) => p = l
    BY <1>11 DEF F!Strays
  <2>2. p \notin DOMAIN e2
    <3>1. CASE caller = "client"
      BY <2>1, <3>1
    <3>2. CASE caller = "kernel"
      BY <3>2 DEF Aims
    <3> QED
      BY <3>1, <3>2
  <2>3. Sound(s2, moved, d2, ms, e2)
    BY <1>1, <1>2, <1>4, <1>7, <1>8, <1>9, <2>1, <2>2, RmChildSound
  <2>4. moved \cup F!Strays(named, p) = moved
    BY <2>1
  <2> QED
    BY <1>1, <1>5, <1>6, <1>9, <2>3, <2>4
<1> QED
  BY <1>10, <1>11

\* A renaming after which the old path is given up.
LEMMA RenameAway ==
  ASSUME F!StoresAreTrees, NEW ns, NEW en, NEW i, NEW n, Aims(ns, en, i, n), NEW a, NEW m, Aims(ns, en, a, m),
         F!MayRename(F!KeyIn(ns, i, n), F!KeyIn(ns, a, m)),
         NEW e2, \A q \in DOMAIN e2 : q \in DOMAIN en /\ e2[q] = en[q],
         NEW ms, ms = ns \/ \E f \in BOOLEAN : ms = F!NewChild(F!RmChild(ns, i, n), a, m, f, f),
         links' = links, store' = F!Renamed(F!KeyIn(ns, i, n), F!KeyIn(ns, a, m))
  PROVE  F!StoresAreTrees' /\ Sound(store', moved \cup {F!PathIn(ns, i, n)}, dead, ms, e2)
<1>1. PICK p, k, j : p = F!PathIn(ns, i, n) /\ k = F!KeyIn(ns, i, n) /\ j = F!KeyIn(ns, a, m)
  OBVIOUS
<1>2. k \in F!Keys /\ j \in F!Keys /\ p \in Seq(Names) /\ k = F!GetUFS(p)
  BY <1>1, AimKeys
<1>3. F!StoresAreTrees' /\ \A x \in DOMAIN store \ F!Inside(k) : x \in DOMAIN store'
  BY <1>1, <1>2, StoreRenames
<1>4. PICK s2 : s2 = store'
  OBVIOUS
<1>5. \A x \in DOMAIN store \ F!Inside(k) : x \in DOMAIN s2
  BY <1>3, <1>4
<1>6. /\ i \in 1..Len(ns) /\ n \in Names /\ Sound(store, moved, dead, ns, en)
      /\ a \in 1..Len(ns) /\ m \in Names
  BY DEF Aims
<1>7. CASE ms = ns
  <2>1. Sound(s2, moved \cup {p}, dead, ms, e2)
    BY <1>1, <1>2, <1>5, <1>6, <1>7, AwaySound
  <2> QED
    BY <1>1, <1>3, <1>4, <2>1
<1>8. ASSUME NEW f \in BOOLEAN, ms = F!NewChild(F!RmChild(ns, i, n), a, m, f, f)
      PROVE  Sound(s2, moved \cup {p}, dead, ms, e2)
  <2>1. PICK rs : rs = F!RmChild(ns, i, n)
    OBVIOUS
  <2>2. Sound(s2, moved \cup {p}, dead, rs, e2)
    BY <1>1, <1>2, <1>5, <1>6, <2>1, AwaySound
  <2>3. Len(rs) = Len(ns)
    BY <1>6, <2>1, RmChildAny DEF Sound
  <2>4. PICK mv : mv = moved \cup {p}
    OBVIOUS
  <2>5. mv # {} /\ a \in 1..Len(rs) /\ ms = F!NewChild(rs, a, m, f, f) /\ Sound(s2, mv, dead, rs, e2)
    BY <1>6, <1>8, <2>1, <2>2, <2>3, <2>4
  <2>6. Sound(s2, mv, dead, ms, e2)
    BY <1>6, <2>5, NewChildSound
  <2> QED
    BY <2>4, <2>6
<1> QED
  BY <1>1, <1>3, <1>4, <1>7, <1>8

\* A file renamed in a table that stays as it should be.
LEMMA RenameFile ==
  ASSUME F!StoresAreTrees, caller \in {"kernel", "client"},
         NEW ns, NEW en, NEW i, NEW n, Aims(ns, en, i, n), NEW a, NEW m, Aims(ns, en, a, m),
         F!MayRename(F!KeyIn(ns, i, n), F!KeyIn(ns, a, m)), ~store[F!KeyIn(ns, i, n)],
         NEW named, F!Strays(named, F!PathIn(ns, i, n)) = {},
         NEW e2, \A q \in DOMAIN e2 : q \in DOMAIN en /\ e2[q] = en[q], caller = "client" => named \notin DOMAIN e2,
         links' = links, store' = F!Renamed(F!KeyIn(ns, i, n), F!KeyIn(ns, a, m))
  PROVE  Sound(store', moved, dead, F!NewChild(F!RmChild(ns, i, n), a, m, FALSE, FALSE), e2)
<1>1. PICK p, k, j, rs : /\ p = F!PathIn(ns, i, n) /\ k = F!KeyIn(ns, i, n) /\ j = F!KeyIn(ns, a, m)
                         /\ rs = F!RmChild(ns, i, n)
  OBVIOUS
<1>2. /\ k \in F!Keys /\ j \in F!Keys /\ p \in Seq(Names) /\ k = F!GetUFS(p)
      /\ j.sub # <<>> => F!Parent(j) = F!KeyOf(ns, a)
  BY <1>1, AimKeys
<1>3. /\ j \in DOMAIN store' /\ store'[j] = store[k]
      /\ k \in DOMAIN store /\ j.sub # <<>> /\ F!Parent(j) \in DOMAIN store /\ store[F!Parent(j)]
      /\ j \in DOMAIN store => ~store[j] /\ ~store[k]
      /\ \A x \in DOMAIN store \ F!Inside(k) : x \in DOMAIN store' /\ (x # j => store'[x] = store[x])
  BY <1>1, <1>2, StoreRenames
<1>4. PICK s2 : s2 = store'
  OBVIOUS
<1>5. store[k] = FALSE /\ (j \in DOMAIN store => store[j] = FALSE)
  BY <1>1, <1>3, StoreFacts
<1>6. \A x \in DOMAIN store : x.ufs = k.ufs /\ F!IsPrefix(k.sub, x.sub) => x = k
  BY <1>2, <1>5, AboveIsDir
<1>7. \A x \in DOMAIN store \ {k} : x \in DOMAIN s2 /\ s2[x] = store[x]
  <2>1. \A x \in DOMAIN store \ {k} : x \notin F!Inside(k)
    BY <1>6 DEF F!Inside
  <2>2. \A x \in DOMAIN store \ {k} : x \in DOMAIN s2 /\ (x # j => s2[x] = store[x])
    BY <1>3, <1>4, <2>1
  <2>3. j \in DOMAIN store => s2[j] = store[j]
    BY <1>3, <1>4, <1>5
  <2> QED
    BY <2>2, <2>3
<1>8. /\ i \in 1..Len(ns) /\ n \in Names /\ Sound(store, moved, dead, ns, en)
      /\ a \in 1..Len(ns) /\ m \in Names /\ F!TableIsTree(ns)
      /\ moved = {} => Reached(store, ns, i) /\ Reached(store, ns, a)
  BY DEF Aims, Sound
<1>9. \A l \in links : F!IsPrefix(p, l) => p = l
  BY <1>1 DEF F!Strays
<1>10. p \notin DOMAIN e2
  <2>1. CASE caller = "client"
    BY <1>1, <2>1 DEF F!Strays
  <2>2. CASE caller = "kernel"
    BY <2>2 DEF Aims
  <2> QED
    BY <2>1, <2>2
<1>11. Sound(s2, moved, dead, rs, e2)
  <2>1. PICK d2 : d2 = dead /\ (caller = "kernel" => dead \subseteq d2 /\ (store[k] => F!Child(ns, i, n) \in d2))
    BY <1>5
  <2>2. /\ p = F!PathIn(ns, i, n) /\ k = F!GetUFS(p) /\ rs = F!RmChild(ns, i, n)
        /\ moved = {} => Reached(store, ns, i)
    BY <1>1, <1>2, <1>8
  <2> QED
    <3>1. Sound(s2, moved, d2, rs, e2)
      BY <1>6, <1>7, <1>8, <1>9, <1>10, <2>1, <2>2, RmChildSound
    <3> QED
      BY <2>1, <3>1
<1>12. /\ Len(rs) = Len(ns)
       /\ \A x \in 1..Len(ns) : rs[x].folder = ns[x].folder
       /\ \A x \in 1..Len(ns) : \A y \in Names : F!Child(rs, x, y) = IF x = i /\ y = n THEN 0 ELSE F!Child(ns, x, y)
       /\ \A x \in 1..Len(ns) : F!IsPrefix(p, F!InodeToPath(ns, x)) \/ F!InodeToPath(rs, x) = F!InodeToPath(ns, x)
       /\ F!Attached(rs) = F!Attached(ns) \ {F!Child(ns, i, n)}
  <2>1. F!TableIsTree(ns) /\ i \in 1..Len(ns) /\ n \in Names /\ rs = F!RmChild(ns, i, n)
    BY <1>1, <1>8
  <2>2. Len(rs) = Len(ns) /\ \A x \in 1..Len(ns) : rs[x].folder = ns[x].folder
    BY <2>1, RmChildAny
  <2>3. \A x \in 1..Len(ns) : \A y \in Names : F!Child(rs, x, y) = IF x = i /\ y = n THEN 0 ELSE F!Child(ns, x, y)
    BY <2>1, RmChildAny
  <2>4. \A x \in 1..Len(ns) :
          F!IsPrefix(F!PathIn(ns, i, n), F!InodeToPath(ns, x)) \/ F!InodeToPath(rs, x) = F!InodeToPath(ns, x)
    BY <2>1, RmChildAny
  <2>5. F!Attached(rs) = F!Attached(ns) \ {F!Child(ns, i, n)}
    BY <2>1, RmChildAny
  <2> QED
    BY <1>1, <2>2, <2>3, <2>4, <2>5
<1>13. ASSUME moved = {}
       PROVE  /\ Reached(s2, rs, a) /\ rs[a].folder
              /\ F!KeyIn(rs, a, m) \in DOMAIN s2 /\ FALSE = s2[F!KeyIn(rs, a, m)]
              /\ F!Child(rs, a, m) # 0 => ~rs[F!Child(rs, a, m)].folder
  <2>1. F!KeyOf(ns, a) = F!Parent(j) /\ ns[a].folder /\ a \in F!Attached(ns) /\ F!KeyOf(ns, a) # k
    BY <1>2, <1>3, <1>5, <1>8, <1>13 DEF Reached
  <2>2. PICK q : q = F!InodeToPath(ns, a)
    OBVIOUS
  <2>3. q \in Seq(Names) /\ F!GetUFS(q) = F!KeyOf(ns, a)
    BY <1>8, <2>2, ChildPath DEF F!KeyOf
  <2>4. q # p /\ F!GetUFS(q) \in DOMAIN store
    BY <1>2, <1>3, <2>1, <2>3
  <2>5. ~F!IsPrefix(p, q)
    BY <1>2, <1>6, <1>9, <2>3, <2>4, NothingBelow
  <2>6. F!InodeToPath(rs, a) = F!InodeToPath(ns, a)
    BY <1>8, <1>12, <2>2, <2>5
  <2>7. F!KeyOf(rs, a) = F!KeyOf(ns, a) /\ F!KeyIn(rs, a, m) = j
    BY <1>1, <2>6 DEF F!KeyOf, F!KeyIn, F!PathIn
  <2>8. a # F!Child(ns, i, n)
    <3> SUFFICES ASSUME a = F!Child(ns, i, n) PROVE FALSE
      OBVIOUS
    <3>1. a # 0
      BY <1>8
    <3>2. F!InodeToPath(ns, a) = p
      BY <1>1, <1>8, <3>1, ChildPath
    <3> QED
      BY <2>2, <2>4, <3>2
  <2>9. rs[a].folder /\ a \in F!Attached(rs)
    BY <1>8, <1>12, <2>1, <2>8
  <2>10. F!Parent(j) \in DOMAIN s2 /\ s2[F!Parent(j)] = store[F!Parent(j)]
    BY <1>3, <1>7, <2>1
  <2>11. Reached(s2, rs, a)
    <3>1. s2[F!KeyOf(rs, a)] = ns[a].folder
      BY <1>8, <1>13, <2>1, <2>7, <2>10 DEF Reached
    <3> QED
      BY <1>8, <1>12, <2>1, <2>7, <2>9, <2>10, <3>1 DEF Reached
  <2>12. F!Child(rs, a, m) # 0 => ~rs[F!Child(rs, a, m)].folder
    <3> SUFFICES ASSUME F!Child(rs, a, m) # 0 PROVE ~rs[F!Child(rs, a, m)].folder
      OBVIOUS
    <3>1. F!Child(rs, a, m) = F!Child(ns, a, m) /\ F!Child(ns, a, m) # 0
      BY <1>8, <1>12
    <3>2. j \in DOMAIN store /\ ns[F!Child(ns, a, m)].folder = store[j] /\ F!Child(ns, a, m) \in F!Attached(ns)
      BY <1>1, <1>13, <3>1, ChildIs
    <3>3. F!Child(ns, a, m) \in 1..Len(ns)
      BY <1>8, <3>2, AttachedFacts
    <3> QED
      BY <1>5, <1>12, <3>1, <3>2, <3>3
  <2> QED
    BY <1>3, <1>4, <1>5, <2>7, <2>9, <2>11, <2>12
<1>14. PICK d \in BOOLEAN : d = FALSE
  OBVIOUS
<1>15. moved = {} =>
           /\ Reached(s2, rs, a) /\ rs[a].folder
           /\ F!KeyIn(rs, a, m) \in DOMAIN s2 /\ d = s2[F!KeyIn(rs, a, m)]
           /\ (d => d) /\ (caller = "client" => d = d)
           /\ F!Child(rs, a, m) # 0 => ~rs[F!Child(rs, a, m)].folder
  BY <1>13, <1>14
<1>16. Sound(s2, moved, dead, F!NewChild(rs, a, m, d, d), e2)
  BY <1>8, <1>11, <1>12, <1>15, NewChildSound
<1> QED
  BY <1>1, <1>4, <1>14, <1>16

\* The result of a lookup.
LEMMA WorldFields ==
  /\ WorldIs(F!World) /\ F!World.nodes = nodes /\ F!World.entry = entry /\ F!World.ino = 1
  /\ \A i : [F!World EXCEPT !.ino = i].nodes = nodes /\ [F!World EXCEPT !.ino = i].entry = entry
            /\ [F!World EXCEPT !.ino = i].ino = i
BY DEF F!World, WorldIs

\* A directory that was found is one to operate in.
LEMMA NodeAims ==
  ASSUME caller = "kernel", entry = <<>>, Sound(store, moved, dead, nodes, entry),
         NEW i \in 1..Len(nodes) \ dead, nodes[i].folder, NEW n \in Names
  PROVE  Aims(nodes, entry, i, n)
<1>1. ASSUME moved = {} PROVE Reached(store, nodes, i)
  BY <1>1 DEF Sound, TidyIn, KernelIn, Reached
<1> QED
  BY <1>1 DEF Aims

\* The kernel's operations.
LEMMA FuseAims ==
  ASSUME entry = <<>>, Sound(store, moved, dead, nodes, entry), NEW t \in F!FuseTargets
  PROVE  /\ caller = "kernel" /\ t.at.nodes = nodes /\ t.at.entry = entry
         /\ Aims(t.at.nodes, t.at.entry, t.at.ino, t.name)
<1>1. PICK i \in {x \in 1..Len(nodes) \ dead : caller = "kernel" /\ nodes[x].folder}, n \in Names :
        t = [at |-> [F!World EXCEPT !.ino = i], name |-> n, path |-> <<>>]
  BY DEF F!FuseTargets
<1>2. PICK w, e : w = [F!World EXCEPT !.ino = i] /\ e = <<>>
  OBVIOUS
<1>3. w.nodes = nodes /\ w.entry = entry /\ w.ino = i
  BY <1>2, WorldFields
<1>4. t.at = w /\ t.name = n
  BY <1>1, <1>2
<1>5. caller = "kernel" /\ Aims(nodes, entry, i, n)
  BY NodeAims
<1> QED
  BY <1>3, <1>4, <1>5

\* What a successful lookup of the directory leads to.
LEMMA LookupAims ==
  ASSUME caller = "client", NEW w0, NEW w, NEW d, WorldOk(w0, w, d), w.ok, NEW n \in Names
  PROVE  Aims(w.nodes, w.entry, w.ino, n)
<1>1. PICK ns, en, i : ns = w.nodes /\ en = w.entry /\ i = w.ino
  OBVIOUS
<1>2. Sound(store, moved, dead, ns, en) /\ i \in 1..Len(ns) /\ d \in DOMAIN en /\ en[d] = i
  BY <1>1 DEF WorldOk
<1>3. ASSUME moved = {} PROVE Reached(store, ns, i)
  BY <1>2, <1>3, EntryReached
<1> QED
  BY <1>1, <1>2, <1>3 DEF Aims

\* Paths are sequences of names.
LEMMA ClientPathsAreSeqs == F!Paths \subseteq Seq(Names)
<1>1. ASSUME NEW d \in 0..MaxDepth, NEW f \in [1..d -> Names] PROVE f \in Seq(Names)
  <2>1. d \in Nat
    BY DepthAssumption
  <2> QED
    BY <2>1
<1> QED
  BY <1>1 DEF F!Paths

\* A program's operations.
LEMMA ClientAims ==
  ASSUME F!StoresAreTrees, moved \subseteq Seq(Names), Sound(store, moved, dead, nodes, entry), NEW t \in F!ClientTargets
  PROVE  /\ caller = "client" /\ Aims(t.at.nodes, t.at.entry, t.at.ino, t.name)
<1>1. caller = "client" /\ t.at.ok
  BY DEF F!ClientTargets
<1>2. PICK p \in F!Paths \ {<<>>} :
        t = [at |-> F!Lookup(F!World, F!DirName(p)), name |-> F!Last(p), path |-> p]
  BY DEF F!ClientTargets
<1>3. p \in Seq(Names) /\ p # <<>>
  BY <1>2, ClientPathsAreSeqs
<1>4. F!DirName(p) \in Seq(Names) /\ F!Last(p) \in Names
  BY <1>3, PathParts
<1>5. PICK w0, w, n, d : w0 = F!World /\ w = F!Lookup(F!World, F!DirName(p)) /\ n = F!Last(p) /\ d = F!DirName(p)
  OBVIOUS
<1>6. t.at = w /\ t.name = n
  BY <1>2, <1>5
<1>7. WorldIs(w0) /\ Sound(store, moved, dead, w0.nodes, w0.entry)
  BY <1>5, WorldFields
<1>8. WorldOk(w0, w, d)
  BY <1>1, <1>4, <1>5, <1>7, LookupOk
<1>9. Aims(w.nodes, w.entry, w.ino, n)
  BY <1>1, <1>4, <1>5, <1>6, <1>8, LookupAims
<1> QED
  BY <1>1, <1>6, <1>9

\* The invariant of the storages, the table and the cache, before a step.
Before ==
  /\ F!StoresAreTrees /\ Sound(store, moved, dead, nodes, entry)
  /\ caller \in {"kernel", "client"} /\ (caller = "kernel" => entry = <<>>) /\ moved \subseteq Seq(Names)

\* And after it.
After ==
  /\ caller' = caller /\ links' = links
  /\ F!StoresAreTrees' /\ Sound(store', moved', dead', nodes', entry')
  /\ (caller = "kernel" => entry' = <<>>) /\ moved' \subseteq Seq(Names)

\* Whoever calls.
LEMMA TargetAims ==
  ASSUME Before, NEW ts, ts = F!FuseTargets \/ ts = F!ClientTargets, NEW t \in ts
  PROVE  /\ Aims(t.at.nodes, t.at.entry, t.at.ino, t.name)
         /\ caller = "kernel" => ts = F!FuseTargets /\ t.at.entry = entry
         /\ caller = "client" => ts = F!ClientTargets
<1>1. CASE ts = F!FuseTargets
  <2>1. t \in F!FuseTargets
    BY <1>1
  <2>2. PICK i \in {x \in 1..Len(nodes) \ dead : caller = "kernel" /\ nodes[x].folder}, n \in Names :
          t = [at |-> [F!World EXCEPT !.ino = i], name |-> n, path |-> <<>>]
    BY <2>1 DEF F!FuseTargets
  <2>3. entry = <<>>
    BY <2>2 DEF Before
  <2>4. /\ caller = "kernel" /\ t.at.nodes = nodes /\ t.at.entry = entry
        /\ Aims(t.at.nodes, t.at.entry, t.at.ino, t.name)
    BY <2>1, <2>3, FuseAims DEF Before
  <2> QED
    BY <1>1, <2>4
<1>2. CASE ts = F!ClientTargets
  <2>1. t \in F!ClientTargets
    BY <1>2
  <2>2. caller = "client" /\ Aims(t.at.nodes, t.at.entry, t.at.ino, t.name)
    BY <2>1, ClientAims DEF Before
  <2> QED
    BY <1>2, <2>2
<1> QED
  BY <1>1, <1>2

\* Mkdir() and Mknod().
LEMMA MakeStep ==
  ASSUME Before, NEW ts, ts = F!FuseTargets \/ ts = F!ClientTargets, NEW f \in BOOLEAN,
         ts # {} /\ caller = "client" => f, F!Make(ts, f)
  PROVE  After
<1>1. PICK t \in ts :
        /\ F!MayMake(F!KeyIn(t.at.nodes, t.at.ino, t.name))
        /\ store' = F!With(F!KeyIn(t.at.nodes, t.at.ino, t.name), f)
        /\ nodes' = F!NewChild(t.at.nodes, t.at.ino, t.name, TRUE, f)
        /\ entry' = t.at.entry /\ caller' = caller /\ links' = links /\ dead' = dead /\ moved' = moved
  BY DEF F!Make
<1>2. PICK ns, en, i, n, k : /\ ns = t.at.nodes /\ en = t.at.entry /\ i = t.at.ino /\ n = t.name
                             /\ k = F!KeyIn(ns, i, n)
  OBVIOUS
<1>3. Aims(ns, en, i, n) /\ (caller = "kernel" => en = entry) /\ (caller = "client" => f)
  BY <1>2, TargetAims
<1>4. PICK d \in BOOLEAN : d = TRUE
  OBVIOUS
<1>5. F!StoresAreTrees' /\ Sound(store', moved, dead, F!NewChild(ns, i, n, d, f), en)
  <2>1. F!StoresAreTrees /\ F!MayMake(k) /\ links' = links /\ store' = F!With(k, f)
    BY <1>1, <1>2 DEF Before
  <2>2. (f => d) /\ (caller = "client" => d = f)
    BY <1>3, <1>4
  <2> QED
    BY <1>2, <1>3, <2>1, <2>2, MakeSound
<1>6. nodes' = F!NewChild(ns, i, n, d, f) /\ entry' = en
  BY <1>1, <1>2, <1>4
<1> QED
  BY <1>1, <1>3, <1>5, <1>6 DEF Before, After

\* Create().
LEMMA CreateStep ==
  ASSUME Before, NEW ts, ts = F!FuseTargets \/ ts = F!ClientTargets, F!Create(ts)
  PROVE  After
<1>1. PICK t \in ts :
        LET k == F!KeyIn(t.at.nodes, t.at.ino, t.name)
        IN  /\ \/ F!Exists(k) /\ ~store[k] /\ store' = store
               \/ F!MayMake(k) /\ store' = F!With(k, FALSE)
            /\ nodes' = F!NewChild(t.at.nodes, t.at.ino, t.name, FALSE, FALSE)
            /\ entry' = t.at.entry /\ caller' = caller /\ links' = links /\ dead' = dead /\ moved' = moved
  BY DEF F!Create
<1>2. PICK ns, en, i, n, k : /\ ns = t.at.nodes /\ en = t.at.entry /\ i = t.at.ino /\ n = t.name
                             /\ k = F!KeyIn(ns, i, n)
  OBVIOUS
<1>3. Aims(ns, en, i, n) /\ (caller = "kernel" => en = entry)
  BY <1>2, TargetAims
<1>4. /\ \/ F!Exists(k) /\ ~store[k] /\ store' = store
         \/ F!MayMake(k) /\ store' = F!With(k, FALSE)
      /\ nodes' = F!NewChild(ns, i, n, FALSE, FALSE)
      /\ entry' = en /\ caller' = caller /\ links' = links /\ dead' = dead /\ moved' = moved
  BY <1>1, <1>2
<1>5. F!StoresAreTrees /\ links' = links
  BY <1>4 DEF Before
<1>6. F!StoresAreTrees' /\ Sound(store', moved, dead, F!NewChild(ns, i, n, FALSE, FALSE), en)
  <2>1. CASE F!Exists(k) /\ ~store[k] /\ store' = store
    <3>1. Sound(store, moved, dead, F!NewChild(ns, i, n, FALSE, FALSE), en)
      BY <1>2, <1>3, <1>5, <2>1, AgainSound DEF F!Exists
    <3>2. F!StoresAreTrees'
      BY <1>5, <2>1 DEF F!StoresAreTrees, F!Keys, F!Exists, F!DirAt
    <3> QED
      BY <2>1, <3>1, <3>2
  <2>2. CASE F!MayMake(k) /\ store' = F!With(k, FALSE)
    <3>1. PICK f \in BOOLEAN : f = FALSE
      OBVIOUS
    <3>2. (f => f) /\ (caller = "client" => f = f) /\ store' = F!With(k, f) /\ F!MayMake(k)
      BY <2>2, <3>1
    <3>3. F!StoresAreTrees' /\ Sound(store', moved, dead, F!NewChild(ns, i, n, f, f), en)
      BY <1>2, <1>3, <1>5, <3>2, MakeSound
    <3> QED
      BY <3>1, <3>3
  <2> QED
    BY <1>4, <2>1, <2>2
<1> QED
  BY <1>3, <1>4, <1>6 DEF Before, After

\* What forgetting a path and what is below leaves of the cache.
LEMMA ForgetFields ==
  ASSUME NEW en, NEW p
  PROVE  /\ p \notin DOMAIN F!Forget(en, p)
         /\ \A q \in DOMAIN F!Forget(en, p) : q \in DOMAIN en /\ F!Forget(en, p)[q] = en[q]
BY DEF F!Forget, F!Restrict

\* Unlink() and Rmdir().
LEMMA DeleteStep ==
  ASSUME Before, NEW ts, ts = F!FuseTargets \/ ts = F!ClientTargets, NEW ks, ks \in {F!PlainFiles, F!EmptyDirs}, F!Delete(ts, ks)
  PROVE  After
<1>1. PICK t \in ts :
        LET k == F!KeyIn(t.at.nodes, t.at.ino, t.name)
        IN  /\ k \in ks
            /\ store' = F!Without({k})
            /\ nodes' = F!RmChild(t.at.nodes, t.at.ino, t.name)
            /\ entry' = IF caller = "client" THEN F!Forget(t.at.entry, t.path) ELSE t.at.entry
            /\ dead' = IF store[k] THEN dead \cup {F!Child(t.at.nodes, t.at.ino, t.name)} ELSE dead
            /\ moved' = moved \cup F!Strays(t.path, F!PathIn(t.at.nodes, t.at.ino, t.name))
            /\ caller' = caller /\ links' = links
  BY DEF F!Delete
<1>2. PICK ns, en, i, n, k, q : /\ ns = t.at.nodes /\ en = t.at.entry /\ i = t.at.ino /\ n = t.name
                                /\ k = F!KeyIn(ns, i, n) /\ q = t.path
  OBVIOUS
<1>3. Aims(ns, en, i, n) /\ (caller = "kernel" => en = entry)
  BY <1>2, TargetAims
<1>4. /\ k \in ks /\ store' = F!Without({k}) /\ nodes' = F!RmChild(ns, i, n)
      /\ entry' = IF caller = "client" THEN F!Forget(en, q) ELSE en
      /\ dead' = IF store[k] THEN dead \cup {F!Child(ns, i, n)} ELSE dead
      /\ moved' = moved \cup F!Strays(q, F!PathIn(ns, i, n))
      /\ caller' = caller /\ links' = links
  BY <1>1, <1>2
<1>5. PICK e2, d2 : e2 = entry' /\ d2 = dead'
  OBVIOUS
<1>6. /\ \A x \in DOMAIN e2 : x \in DOMAIN en /\ e2[x] = en[x]
      /\ caller = "client" => q \notin DOMAIN e2
  <2>1. CASE caller = "client"
    <3>1. e2 = F!Forget(en, q)
      BY <1>4, <1>5, <2>1
    <3> QED
      BY <3>1, ForgetFields
  <2>2. CASE caller # "client"
    BY <1>4, <1>5, <2>2
  <2> QED
    BY <2>1, <2>2
<1>7. dead \subseteq d2 /\ (store[k] => F!Child(ns, i, n) \in d2)
  BY <1>4, <1>5
<1>8. k \in F!PlainFiles \cup F!EmptyDirs /\ F!StoresAreTrees /\ caller \in {"kernel", "client"}
  BY <1>4 DEF Before
<1>9. F!StoresAreTrees' /\ Sound(store', moved \cup F!Strays(q, F!PathIn(ns, i, n)), d2, F!RmChild(ns, i, n), e2)
  <2>1. k = F!KeyIn(ns, i, n) /\ k \in F!PlainFiles \cup F!EmptyDirs
    BY <1>2, <1>8
  <2>2. Aims(ns, en, i, n) /\ links' = links /\ store' = F!Without({k})
    BY <1>3, <1>4
  <2> QED
    BY <1>6, <1>7, <1>8, <2>1, <2>2, DeleteSound
<1>10. F!PathIn(ns, i, n) \in Seq(Names)
  BY <1>3, <1>8, AimKeys
<1>11. moved' \subseteq Seq(Names)
  BY <1>4, <1>10 DEF Before, F!Strays
<1>12. caller = "kernel" => entry' = <<>>
  BY <1>3, <1>4 DEF Before
<1>13. Sound(store', moved', dead', nodes', entry')
  BY <1>4, <1>5, <1>9
<1> QED
  BY <1>4, <1>9, <1>11, <1>12, <1>13 DEF After

\* A renaming, after its lookups.
LEMMA RenameStep ==
  ASSUME Before, NEW w, NEW i, NEW n, NEW a, NEW m, Aims(w.nodes, w.entry, i, n), Aims(w.nodes, w.entry, a, m),
         NEW named, NEW e2, caller = "kernel" => e2 = <<>> /\ w.entry = <<>>,
         caller = "client" => e2 = F!Forget(w.entry, named),
         F!RenameIn(w, i, n, a, m, named, e2)
  PROVE  After
<1>1. PICK ns, en, k, j, p : /\ ns = w.nodes /\ en = w.entry /\ k = F!KeyIn(ns, i, n) /\ j = F!KeyIn(ns, a, m)
                             /\ p = F!PathIn(ns, i, n)
  OBVIOUS
<1>2. /\ F!MayRename(k, j) /\ store' = F!Renamed(k, j)
      /\ \/ /\ nodes' = F!NewChild(F!RmChild(ns, i, n), a, m, store[k], store[k])
            /\ moved' = moved \cup (IF store[k] THEN {p} ELSE F!Strays(named, p))
            /\ entry' = e2
         \/ /\ moved' = moved \cup {p} /\ nodes' = ns /\ entry' = en
      /\ caller' = caller /\ links' = links /\ dead' = dead
  BY <1>1 DEF F!RenameIn
<1>3. Aims(ns, en, i, n) /\ Aims(ns, en, a, m)
  BY <1>1
<1>4. F!StoresAreTrees /\ caller \in {"kernel", "client"}
  BY DEF Before
<1>5. /\ \A x \in DOMAIN e2 : x \in DOMAIN en /\ e2[x] = en[x]
      /\ caller = "client" => named \notin DOMAIN e2
  <2>1. CASE caller = "client"
    BY <1>1, <2>1, ForgetFields
  <2>2. CASE caller = "kernel"
    BY <1>1, <2>2
  <2> QED
    BY <1>4, <2>1, <2>2
<1>6. k \in DOMAIN store /\ store[k] \in BOOLEAN /\ p \in Seq(Names)
  <2>1. p \in Seq(Names)
    BY <1>1, <1>3, <1>4, AimKeys
  <2>2. k \in DOMAIN store
    BY <1>2 DEF F!MayRename, F!Exists
  <2> QED
    BY <1>4, <2>1, <2>2, StoreFacts
<1>7. CASE /\ nodes' = F!NewChild(F!RmChild(ns, i, n), a, m, store[k], store[k])
           /\ moved' = moved \cup (IF store[k] THEN {p} ELSE F!Strays(named, p))
           /\ entry' = e2
  <2>1. PICK f \in BOOLEAN : f = store[k]
    BY <1>6
  <2>2. PICK ms : ms = F!NewChild(F!RmChild(ns, i, n), a, m, f, f)
    OBVIOUS
  <2>3. F!StoresAreTrees' /\ Sound(store', moved \cup {p}, dead, ms, e2)
    <3>1. ms = ns \/ \E g \in BOOLEAN : ms = F!NewChild(F!RmChild(ns, i, n), a, m, g, g)
      BY <2>2
    <3> QED
      <4>1. /\ F!MayRename(F!KeyIn(ns, i, n), F!KeyIn(ns, a, m)) /\ links' = links
            /\ store' = F!Renamed(F!KeyIn(ns, i, n), F!KeyIn(ns, a, m))
        BY <1>1, <1>2
      <4>2. F!StoresAreTrees' /\ Sound(store', moved \cup {F!PathIn(ns, i, n)}, dead, ms, e2)
        BY <1>3, <1>4, <1>5, <3>1, <4>1, RenameAway
      <4> QED
        BY <1>1, <4>2
  <2>4. nodes' = ms
    BY <1>7, <2>1, <2>2
  <2>5. CASE moved' = moved \cup {p}
    <3>1. Sound(store', moved', dead', nodes', entry')
      BY <1>2, <1>7, <2>3, <2>4, <2>5
    <3>2. moved' \subseteq Seq(Names)
      BY <1>6, <2>5 DEF Before
    <3> QED
      BY <1>2, <1>7, <2>3, <3>1, <3>2 DEF After
  <2>6. CASE moved' # moved \cup {p}
    <3>1. ~store[k] /\ F!Strays(named, p) = {} /\ moved' = moved /\ f = FALSE
      BY <1>6, <1>7, <2>1, <2>6 DEF F!Strays
    <3>2. Sound(store', moved, dead, F!NewChild(F!RmChild(ns, i, n), a, m, FALSE, FALSE), e2)
      BY <1>1, <1>2, <1>3, <1>4, <1>5, <3>1, RenameFile
    <3>3. Sound(store', moved', dead', nodes', entry')
      BY <1>2, <1>7, <2>2, <2>4, <3>1, <3>2
    <3> QED
      BY <1>2, <1>7, <2>3, <3>1, <3>3 DEF Before, After
  <2> QED
    BY <2>5, <2>6
<1>8. CASE moved' = moved \cup {p} /\ nodes' = ns /\ entry' = en
  <2>1. \A x \in DOMAIN en : x \in DOMAIN en /\ en[x] = en[x]
    OBVIOUS
  <2>2. F!StoresAreTrees' /\ Sound(store', moved \cup {p}, dead, ns, en)
    BY <1>1, <1>2, <1>3, <1>4, <2>1, RenameAway
  <2>3. Sound(store', moved', dead', nodes', entry')
    BY <1>2, <1>8, <2>2
  <2>4. caller = "kernel" => en = <<>>
    BY <1>1
  <2>5. moved' \subseteq Seq(Names)
    BY <1>6, <1>8 DEF Before
  <2> QED
    BY <1>2, <1>8, <2>2, <2>3, <2>4, <2>5 DEF After
<1> QED
  BY <1>2, <1>7, <1>8

\* Rename() of the kernel.
LEMMA FuseRenameStep ==
  ASSUME Before, F!FuseRename PROVE After
<1>1. PICK s \in F!FuseTargets, t \in F!FuseTargets :
        F!RenameIn(F!World, s.at.ino, s.name, t.at.ino, t.name, <<>>, entry)
  BY DEF F!FuseRename
<1>2. PICK w : w = F!World
  OBVIOUS
<1>3. w.nodes = nodes /\ w.entry = entry
  BY <1>2, WorldFields
<1>4. caller = "kernel" /\ s.at.nodes = nodes /\ s.at.entry = entry /\ Aims(s.at.nodes, s.at.entry, s.at.ino, s.name)
  <2>1. F!FuseTargets = F!FuseTargets /\ (caller = "kernel" => entry = <<>>)
    BY DEF Before
  <2>2. caller = "kernel"
    BY DEF F!FuseTargets
  <2> QED
    BY <2>1, <2>2, FuseAims DEF Before
<1>5. t.at.nodes = nodes /\ t.at.entry = entry /\ Aims(t.at.nodes, t.at.entry, t.at.ino, t.name)
  BY <1>4, FuseAims DEF Before
<1>6. PICK i, n, a, m : i = s.at.ino /\ n = s.name /\ a = t.at.ino /\ m = t.name
  OBVIOUS
<1>7. Aims(w.nodes, w.entry, i, n) /\ Aims(w.nodes, w.entry, a, m)
  BY <1>3, <1>4, <1>5, <1>6
<1>8. PICK named, e2 : named = <<>> /\ e2 = entry
  OBVIOUS
<1>9. F!RenameIn(w, i, n, a, m, named, e2)
  BY <1>1, <1>2, <1>6, <1>8
<1>10. /\ caller = "kernel" => e2 = <<>> /\ w.entry = <<>>
       /\ caller = "client" => e2 = F!Forget(w.entry, named)
  BY <1>3, <1>4, <1>8 DEF Before
<1> QED
  BY <1>7, <1>9, <1>10, RenameStep

\* What the first of two lookups found is as good after the second.
LEMMA StillAims ==
  ASSUME caller = "client", NEW w0, NEW v, NEW w, NEW d, NEW e, WorldOk(w0, v, d), v.ok, WorldOk(v, w, e), NEW n \in Names
  PROVE  Aims(w.nodes, w.entry, v.ino, n)
<1>1. PICK ns, en, i : ns = w.nodes /\ en = w.entry /\ i = v.ino
  OBVIOUS
<1>2. d \in DOMAIN v.entry /\ v.entry[d] = i
  BY <1>1 DEF WorldOk
<1>3. Sound(store, moved, dead, ns, en) /\ d \in DOMAIN en /\ en[d] = i
  BY <1>1, <1>2 DEF WorldOk
<1>4. i \in 1..Len(ns)
  BY <1>3 DEF Sound, LeadIn
<1>5. ASSUME moved = {} PROVE Reached(store, ns, i)
  BY <1>3, <1>5, EntryReached
<1> QED
  BY <1>1, <1>3, <1>4, <1>5 DEF Aims

\* Rename() of a program, with its two lookups.
LEMMA ClientRenameStep ==
  ASSUME Before, F!ClientRename PROVE After
<1>1. caller = "client"
  BY DEF F!ClientRename
<1>2. PICK old \in F!Paths \ {<<>>}, new \in F!Paths \ {<<>>} :
        LET v == F!Lookup(F!World, F!DirName(old))
            w == F!Lookup(v, F!DirName(new))
        IN  /\ v.ok /\ w.ok
            /\ F!RenameIn(w, v.ino, F!Last(old), w.ino, F!Last(new), old, F!Forget(w.entry, old))
  BY DEF F!ClientRename
<1>3. PICK w0, v, w, d, e : /\ w0 = F!World /\ d = F!DirName(old) /\ e = F!DirName(new)
                            /\ v = F!Lookup(w0, d) /\ w = F!Lookup(v, e)
  OBVIOUS
<1>4. PICK n, m : n = F!Last(old) /\ m = F!Last(new)
  OBVIOUS
<1>5. v.ok /\ w.ok /\ F!RenameIn(w, v.ino, n, w.ino, m, old, F!Forget(w.entry, old))
  BY <1>2, <1>3, <1>4
<1>6. d \in Seq(Names) /\ e \in Seq(Names) /\ n \in Names /\ m \in Names
  BY <1>3, <1>4, ClientPathsAreSeqs, PathParts
<1>7. F!StoresAreTrees /\ moved \subseteq Seq(Names)
  BY DEF Before
<1>8. WorldIs(w0) /\ Sound(store, moved, dead, w0.nodes, w0.entry)
  BY <1>3, WorldFields DEF Before
<1>9. WorldOk(w0, v, d)
  BY <1>1, <1>3, <1>6, <1>7, <1>8, LookupOk
<1>10. WorldIs(v) /\ Sound(store, moved, dead, v.nodes, v.entry)
  BY <1>9 DEF WorldOk
<1>11. WorldOk(v, w, e)
  BY <1>1, <1>3, <1>6, <1>7, <1>10, LookupOk
<1>12. Aims(w.nodes, w.entry, w.ino, m)
  BY <1>1, <1>5, <1>6, <1>11, LookupAims
<1>13. Aims(w.nodes, w.entry, v.ino, n)
  BY <1>1, <1>5, <1>6, <1>9, <1>11, StillAims
<1>14. PICK i, a, e2 : i = v.ino /\ a = w.ino /\ e2 = F!Forget(w.entry, old)
  OBVIOUS
<1>15. F!RenameIn(w, i, n, a, m, old, e2) /\ Aims(w.nodes, w.entry, i, n) /\ Aims(w.nodes, w.entry, a, m)
  BY <1>5, <1>12, <1>13, <1>14
<1>16. (caller = "kernel" => e2 = <<>> /\ w.entry = <<>>) /\ (caller = "client" => e2 = F!Forget(w.entry, old))
  BY <1>1, <1>14
<1> QED
  BY <1>15, <1>16, RenameStep

\* Steps that leave the storages alone.
LEMMA StoreSame ==
  ASSUME F!StoresAreTrees, store' = store, links' = links PROVE F!StoresAreTrees'
BY DEF F!StoresAreTrees, F!Keys, F!Exists, F!DirAt

\* Nothing changes but the handles.
LEMMA SameStep ==
  ASSUME Before, caller' = caller, links' = links, store' = store, moved' = moved, dead' = dead,
         Sound(store, moved, dead, nodes', entry'), caller = "kernel" => entry' = entry
  PROVE  After
<1>1. F!StoresAreTrees'
  BY StoreSame DEF Before
<1>2. Sound(store', moved', dead', nodes', entry')
  OBVIOUS
<1> QED
  BY <1>1, <1>2 DEF Before, After

\* A lookup alone.
LEMMA WorldStep ==
  ASSUME Before, caller = "client", NEW p \in F!Paths, NEW w, w = F!Lookup(F!World, p),
         caller' = caller, links' = links, store' = store, moved' = moved, dead' = dead,
         nodes' = w.nodes, entry' = w.entry
  PROVE  After
<1>1. PICK w0 : w0 = F!World
  OBVIOUS
<1>2. F!StoresAreTrees /\ moved \subseteq Seq(Names) /\ p \in Seq(Names)
  BY ClientPathsAreSeqs DEF Before
<1>3. WorldIs(w0) /\ Sound(store, moved, dead, w0.nodes, w0.entry)
  BY <1>1, WorldFields DEF Before
<1>4. WorldOk(w0, w, p)
  BY <1>1, <1>2, <1>3, LookupOk
<1>5. Sound(store, moved, dead, nodes', entry')
  BY <1>4 DEF WorldOk
<1> QED
  BY <1>5, SameStep

\* Lookup() of the kernel.
LEMMA FuseLookupStep ==
  ASSUME Before, F!FuseLookup PROVE After
<1>1. PICK t \in F!FuseTargets :
        ~F!LookupFails(nodes, t.at.ino, t.name) /\ nodes' = F!LookupNodes(nodes, t.at.ino, t.name)
  BY DEF F!FuseLookup
<1>2. PICK i \in {x \in 1..Len(nodes) \ dead : caller = "kernel" /\ nodes[x].folder}, n \in Names :
        t = [at |-> [F!World EXCEPT !.ino = i], name |-> n, path |-> <<>>]
  BY DEF F!FuseTargets
<1>3. PICK w, e : w = [F!World EXCEPT !.ino = i] /\ e = <<>>
  OBVIOUS
<1>4. t.at.ino = i /\ t.name = n
  <2>1. w.ino = i
    BY <1>3, WorldFields
  <2> QED
    BY <1>2, <1>3, <2>1
<1>5. caller = "kernel" /\ nodes[i].folder /\ i \in 1..Len(nodes)
  OBVIOUS
<1>6. Aims(nodes, entry, i, n)
  BY <1>5, NodeAims DEF Before
<1>7. moved = {} => Reached(store, nodes, i) /\ nodes[i].folder
  BY <1>5, <1>6 DEF Aims
<1>8. PICK ms, c : ms = F!LookupNodes(nodes, i, n) /\ c = F!LookupNode(nodes, i, n)
  OBVIOUS
<1>9. ~F!LookupFails(nodes, i, n) /\ nodes' = ms
  BY <1>1, <1>4, <1>8
<1>10. Sound(store, moved, dead, ms, entry)
  BY <1>5, <1>7, <1>8, <1>9, LookupNodesSound DEF Before
<1> QED
  BY <1>9, <1>10, SameStep DEF F!FuseLookup

\* Stat().
LEMMA StatStep ==
  ASSUME Before, F!ClientStat PROVE After
<1>1. PICK p \in F!Paths : nodes' = F!Lookup(F!World, p).nodes /\ entry' = F!Lookup(F!World, p).entry
  BY DEF F!ClientStat, F!Keeps
<1>2. PICK w : w = F!Lookup(F!World, p)
  OBVIOUS
<1>3. nodes' = w.nodes /\ entry' = w.entry
  BY <1>1, <1>2
<1> QED
  BY <1>2, <1>3, WorldStep DEF F!ClientStat

\* Chmod().
LEMMA ChmodStep ==
  ASSUME Before, F!ClientChmod PROVE After
<1>1. PICK w \in {v \in {F!Lookup(F!World, p) : p \in F!Paths} : v.ok} : F!Keeps([w EXCEPT !.fresh = @ \cup {w.ino}])
  BY DEF F!ClientChmod
<1>2. PICK p \in F!Paths : w = F!Lookup(F!World, p)
  OBVIOUS
<1>3. WorldIs(w)
  <2>1. PICK w0 : w0 = F!World
    OBVIOUS
  <2>2. F!StoresAreTrees /\ moved \subseteq Seq(Names) /\ p \in Seq(Names) /\ caller = "client"
    BY ClientPathsAreSeqs DEF Before, F!ClientChmod
  <2>3. WorldIs(w0) /\ Sound(store, moved, dead, w0.nodes, w0.entry)
    BY <2>1, WorldFields DEF Before
  <2>4. WorldOk(w0, w, p)
    BY <1>2, <2>1, <2>2, <2>3, LookupOk
  <2> QED
    BY <2>4 DEF WorldOk
<1>4. PICK fr : fr = w.fresh \cup {w.ino}
  OBVIOUS
<1>5. F!Keeps([w EXCEPT !.fresh = fr])
  BY <1>1, <1>4
<1>6. [w EXCEPT !.fresh = fr].nodes = w.nodes /\ [w EXCEPT !.fresh = fr].entry = w.entry
  BY <1>3 DEF WorldIs
<1>7. nodes' = w.nodes /\ entry' = w.entry
  BY <1>5, <1>6 DEF F!Keeps
<1> QED
  BY <1>2, <1>7, WorldStep DEF F!ClientChmod

\* Open().
LEMMA OpenStep ==
  ASSUME Before, F!FuseOpen \/ F!ClientOpen PROVE After
<1>1. CASE F!FuseOpen
  <2>1. PICK i \in 1..Len(nodes) : F!Keeps([F!World EXCEPT !.ino = i])
    BY <1>1 DEF F!FuseOpen, F!Open
  <2>2. nodes' = nodes /\ entry' = entry
    BY <2>1, WorldFields DEF F!Keeps
  <2>3. Sound(store, moved, dead, nodes', entry')
    BY <2>2 DEF Before
  <2> QED
    BY <1>1, <2>2, <2>3, SameStep DEF F!FuseOpen, F!Open
<1>2. CASE F!ClientOpen
  <2>1. PICK w \in {v \in {F!Lookup(F!World, p) : p \in F!Paths} : v.ok} : F!Keeps(w)
    BY <1>2 DEF F!ClientOpen, F!Open
  <2>2. PICK p \in F!Paths : w = F!Lookup(F!World, p)
    OBVIOUS
  <2>3. nodes' = w.nodes /\ entry' = w.entry
    BY <2>1 DEF F!Keeps
  <2> QED
    BY <1>2, <2>2, <2>3, WorldStep DEF F!ClientOpen, F!Open
<1> QED
  BY <1>1, <1>2

\* The storages, the table and the cache stay.
LEMMA StillStep ==
  ASSUME Before, F!FuseRelease \/ F!ClientClose \/ F!AttrExpires \/ UNCHANGED F!vars PROVE After
<1>1. /\ caller' = caller /\ links' = links /\ store' = store /\ moved' = moved /\ dead' = dead
      /\ nodes' = nodes /\ entry' = entry
  BY DEF F!FuseRelease, F!ClientClose, F!AttrExpires, F!Release, F!vars
<1>2. Sound(store, moved, dead, nodes', entry')
  BY <1>1 DEF Before
<1> QED
  BY <1>1, <1>2, SameStep

\* Every step.
LEMMA TreesStep ==
  ASSUME Before, F!Next \/ UNCHANGED F!vars PROVE After
<1>1. CASE F!FuseMkdir \/ F!FuseMknod \/ F!ClientMkdir
  <2>1. ~(F!FuseTargets # {} /\ caller = "client")
    BY DEF F!FuseTargets
  <2>2. PICK yes \in BOOLEAN, no \in BOOLEAN : yes = TRUE /\ no = FALSE
    OBVIOUS
  <2>3. F!Make(F!FuseTargets, yes) \/ F!Make(F!FuseTargets, no) \/ F!Make(F!ClientTargets, yes)
    BY <1>1, <2>2 DEF F!FuseMkdir, F!FuseMknod, F!ClientMkdir
  <2>4. CASE F!Make(F!FuseTargets, yes)
    BY <2>1, <2>4, MakeStep
  <2>5. CASE F!Make(F!FuseTargets, no)
    BY <2>1, <2>5, MakeStep
  <2>6. CASE F!Make(F!ClientTargets, yes)
    <3>1. yes
      BY <2>2
    <3> QED
      BY <2>6, <3>1, MakeStep
  <2> QED
    BY <2>3, <2>4, <2>5, <2>6
<1>2. CASE F!FuseCreate \/ F!ClientCreate
  BY <1>2, CreateStep DEF F!FuseCreate, F!ClientCreate
<1>3. CASE F!FuseUnlink \/ F!FuseRmdir \/ F!ClientUnlink \/ F!ClientRmdir
  <2>1. \E ts, ks : (ts = F!FuseTargets \/ ts = F!ClientTargets) /\ ks \in {F!PlainFiles, F!EmptyDirs} /\ F!Delete(ts, ks)
    BY <1>3, Zenon DEF F!FuseUnlink, F!FuseRmdir, F!ClientUnlink, F!ClientRmdir
  <2> QED
    BY <2>1, DeleteStep
<1> QED
  BY <1>1, <1>2, <1>3, FuseLookupStep, FuseRenameStep, ClientRenameStep, StatStep, ChmodStep, OpenStep, StillStep DEF F!Next

-----------------------------------------------------------------------------
(* Handles *)

\* The numbers of handles, all below m.
Distinct(hs, m) ==
  /\ hs \in Seq(Nat)
  /\ \A x \in 1..Len(hs) : hs[x] < m /\ \A y \in 1..Len(hs) : hs[x] = hs[y] => x = y

\* The handles of a node.
Held(hs) == {hs[x] : x \in 1..Len(hs)}

\* What HandlesDiffer says of each handle.
LEMMA HandleFacts ==
  F!HandlesDiffer <=>
    /\ nextfh \in Nat /\ given \subseteq Nat \X Nat
    /\ \A i \in DOMAIN fhs : Distinct(fhs[i], nextfh)
    /\ \A g \in given : g[1] \in DOMAIN fhs /\ g[2] \in Held(fhs[g[1]])
<1>1. ASSUME \A i \in DOMAIN fhs : Distinct(fhs[i], nextfh)
      PROVE  \A i \in DOMAIN fhs : F!Range(fhs[i]) = Held(fhs[i])
  <2> SUFFICES ASSUME NEW i \in DOMAIN fhs PROVE F!Range(fhs[i]) = Held(fhs[i])
    OBVIOUS
  <2>1. DOMAIN fhs[i] = 1..Len(fhs[i])
    BY <1>1 DEF Distinct
  <2> QED
    BY <2>1 DEF F!Range, Held
<1>2. F!HandlesDiffer => \A i \in DOMAIN fhs : Distinct(fhs[i], nextfh)
  BY DEF F!HandlesDiffer, Distinct
<1> QED
  BY <1>1, <1>2 DEF F!HandlesDiffer, F!FindHandle, Distinct

\* Handles of the next state.
LEMMA HandlesNext ==
  F!HandlesDiffer' <=>
    /\ nextfh' \in Nat /\ given' \subseteq Nat \X Nat
    /\ \A i \in DOMAIN fhs' : Distinct(fhs'[i], nextfh')
    /\ \A g \in given' : g[1] \in DOMAIN fhs' /\ g[2] \in Held(fhs'[g[1]])
<1>1. (F!HandlesDiffer <=>
        /\ nextfh \in Nat /\ given \subseteq Nat \X Nat
        /\ \A i \in DOMAIN fhs : Distinct(fhs[i], nextfh)
        /\ \A g \in given : g[1] \in DOMAIN fhs /\ g[2] \in Held(fhs[g[1]]))'
  BY HandleFacts, PTL
<1> QED
  BY <1>1

\* A number no handle has had.
LEMMA AppendDistinct ==
  ASSUME NEW m \in Nat, NEW hs, Distinct(hs, m)
  PROVE  Distinct(Append(hs, m), m + 1) /\ Held(Append(hs, m)) = Held(hs) \cup {m}
<1>1. hs \in Seq(Nat) /\ Len(hs) \in Nat
  BY DEF Distinct
<1>2. PICK l, ms : l = Len(hs) + 1 /\ ms = Append(hs, m)
  OBVIOUS
<1>3. ms \in Seq(Nat) /\ Len(ms) = l /\ ms[l] = m /\ \A x \in 1..Len(hs) : ms[x] = hs[x]
  BY <1>1, <1>2, AppendProperties
<1>4. \A x \in 1..l : x = l \/ x \in 1..Len(hs)
  BY <1>1, <1>2
<1>5. l \in 1..l /\ \A x \in 1..Len(hs) : x \in 1..l /\ x # l
  BY <1>1, <1>2
<1>6. \A x \in 1..Len(hs) : hs[x] \in Nat /\ hs[x] < m /\ hs[x] # m /\ hs[x] < m + 1
  BY <1>1 DEF Distinct
<1>7. \A x, y \in 1..Len(hs) : hs[x] = hs[y] => x = y
  BY DEF Distinct
<1>8. Distinct(ms, m + 1)
  <2>1. m < m + 1
    OBVIOUS
  <2>2. \A x \in 1..l : ms[x] < m + 1
    BY <1>3, <1>4, <1>6, <2>1
  <2>3. \A x, y \in 1..l : ms[x] = ms[y] => x = y
    BY <1>3, <1>4, <1>6, <1>7
  <2> QED
    BY <1>3, <2>2, <2>3 DEF Distinct
<1>9. Held(ms) = Held(hs) \cup {m}
  <2>1. ASSUME NEW v \in Held(ms) PROVE v \in Held(hs) \cup {m}
    BY <1>3, <1>4 DEF Held
  <2>2. ASSUME NEW v \in Held(hs) \cup {m} PROVE v \in Held(ms)
    BY <1>3, <1>5 DEF Held
  <2> QED
    BY <2>1, <2>2
<1> QED
  BY <1>2, <1>8, <1>9

\* NewHandle().
LEMMA NewHandleStep ==
  ASSUME F!HandlesDiffer, NEW i \in Nat, F!NewHandle(i), nextfh' = nextfh + 1,
         given' = given \/ given' = given \cup {<<i, nextfh>>}
  PROVE  F!HandlesDiffer'
<1>1. /\ nextfh \in Nat /\ given \subseteq Nat \X Nat
      /\ \A x \in DOMAIN fhs : Distinct(fhs[x], nextfh)
      /\ \A g \in given : g[1] \in DOMAIN fhs /\ g[2] \in Held(fhs[g[1]])
  BY HandleFacts
<1>2. PICK hs : hs = IF i \in DOMAIN fhs THEN fhs[i] ELSE <<>>
  OBVIOUS
<1>3. Distinct(hs, nextfh)
  <2>1. Distinct(<<>>, nextfh)
    BY <1>1 DEF Distinct
  <2> QED
    BY <1>1, <1>2, <2>1
<1>4. PICK m, ms : m = nextfh /\ ms = Append(hs, nextfh)
  OBVIOUS
<1>5. Distinct(ms, m + 1) /\ Held(ms) = Held(hs) \cup {m} /\ m \in Nat
  BY <1>1, <1>3, <1>4, AppendDistinct
<1>6. fhs' = [x \in DOMAIN fhs \cup {i} |-> IF x = i THEN ms ELSE fhs[x]]
  BY <1>2, <1>4 DEF F!NewHandle, F!Put
<1>7. \A x \in DOMAIN fhs' : Distinct(fhs'[x], nextfh')
  <2> SUFFICES ASSUME NEW x \in DOMAIN fhs' PROVE Distinct(fhs'[x], m + 1)
    BY <1>4
  <2>1. CASE x = i
    BY <1>5, <1>6, <2>1
  <2>2. CASE x # i
    <3>1. x \in DOMAIN fhs /\ fhs'[x] = fhs[x] /\ Distinct(fhs[x], m)
      BY <1>1, <1>4, <1>6, <2>2
    <3>2. \A h \in Nat : h < m => h < m + 1
      BY <1>5
    <3>3. Distinct(fhs[x], m + 1)
      BY <3>1, <3>2 DEF Distinct
    <3> QED
      BY <3>1, <3>3
  <2> QED
    BY <2>1, <2>2
<1>8. ASSUME NEW g \in given' PROVE g[1] \in DOMAIN fhs' /\ g[2] \in Held(fhs'[g[1]])
  <2>1. CASE g \in given
    <3>1. g[1] \in DOMAIN fhs /\ g[2] \in Held(fhs[g[1]])
      BY <1>1, <2>1
    <3>2. g[1] = i => fhs[g[1]] = hs
      BY <1>2, <3>1
    <3> QED
      BY <1>5, <1>6, <3>1, <3>2
  <2>2. CASE g = <<i, nextfh>>
    <3>1. g[1] = i /\ g[2] = m
      BY <1>4, <2>2
    <3> QED
      BY <1>5, <1>6, <3>1
  <2> QED
    BY <2>1, <2>2
<1>9. nextfh' \in Nat /\ given' \subseteq Nat \X Nat
  BY <1>1
<1> QED
  BY <1>7, <1>8, <1>9, HandlesNext

\* One handle fewer.
LEMMA ReleaseDistinct ==
  ASSUME NEW m, NEW hs, Distinct(hs, m), NEW h \in Held(hs), NEW ms, ms = F!ReleaseHandle(hs, h)
  PROVE  Distinct(ms, m) /\ \A v \in Held(hs) : v # h => v \in Held(ms)
<1>1. PICK at : at = CHOOSE x \in 1..Len(hs) : hs[x] = h
  OBVIOUS
<1>2. at \in 1..Len(hs) /\ hs[at] = h
  BY <1>1 DEF Held
<1>3. PICK l : l = Len(hs)
  OBVIOUS
<1>4. ms = [x \in 1..l - 1 |-> IF x = at THEN hs[l] ELSE hs[x]]
  BY <1>1, <1>3 DEF F!ReleaseHandle
<1>5. hs \in Seq(Nat) /\ l \in Nat /\ l # 0 /\ at \in 1..l
  BY <1>2, <1>3 DEF Distinct
<1>6. /\ \A x \in 1..l : hs[x] \in Nat /\ hs[x] < m
      /\ \A x, y \in 1..l : hs[x] = hs[y] => x = y
  BY <1>3, <1>5 DEF Distinct
<1>7. /\ l \in 1..l /\ \A x \in 1..l - 1 : x \in 1..l /\ x # l
      /\ \A x \in 1..l : x = l \/ x \in 1..l - 1
  BY <1>5
<1>8. \A x \in 1..l - 1 : ms[x] = IF x = at THEN hs[l] ELSE hs[x]
  BY <1>4
<1>9. ms \in Seq(Nat) /\ Len(ms) = l - 1
  <2>1. l - 1 \in Nat
    BY <1>5
  <2>2. ms \in [1..l - 1 -> Nat]
    BY <1>4, <1>6, <1>7
  <2> QED
    BY <2>1, <2>2
<1>10. Distinct(ms, m)
  <2>1. \A x \in 1..l - 1 : ms[x] < m
    BY <1>6, <1>7, <1>8
  <2>2. \A x, y \in 1..l - 1 : ms[x] = ms[y] => x = y
    BY <1>6, <1>7, <1>8
  <2> QED
    BY <1>9, <2>1, <2>2 DEF Distinct
<1>11. ASSUME NEW v \in Held(hs), v # h PROVE v \in Held(ms)
  <2>1. PICK x \in 1..l : hs[x] = v
    BY <1>3 DEF Held
  <2>2. x # at
    BY <1>2, <1>11, <2>1
  <2>3. \E y \in 1..l - 1 : ms[y] = v
    <3>1. CASE x = l
      BY <1>5, <1>7, <1>8, <2>1, <2>2, <3>1
    <3>2. CASE x # l
      BY <1>7, <1>8, <2>1, <2>2, <3>2
    <3> QED
      BY <3>1, <3>2
  <2> QED
    BY <1>9, <2>3 DEF Held
<1> QED
  BY <1>10, <1>11

\* ReleaseHandle().
LEMMA ReleaseStep ==
  ASSUME F!HandlesDiffer, NEW g \in given, F!Release(g) PROVE F!HandlesDiffer'
<1>1. /\ nextfh \in Nat /\ given \subseteq Nat \X Nat
      /\ \A x \in DOMAIN fhs : Distinct(fhs[x], nextfh)
      /\ \A y \in given : y[1] \in DOMAIN fhs /\ y[2] \in Held(fhs[y[1]])
  BY HandleFacts
<1>2. PICK i, h : i = g[1] /\ h = g[2]
  OBVIOUS
<1>3. i \in DOMAIN fhs /\ h \in Held(fhs[i]) /\ F!FindHandle(i, h)
  BY <1>1, <1>2 DEF F!HandlesDiffer
<1>4. /\ fhs' = IF Len(fhs[i]) > 1 THEN [fhs EXCEPT ![i] = F!ReleaseHandle(fhs[i], h)]
                ELSE F!Restrict(fhs, DOMAIN fhs \ {i})
      /\ given' = given \ {g} /\ nextfh' = nextfh
  BY <1>2, <1>3 DEF F!Release
<1>5. PICK hs, ms : hs = fhs[i] /\ ms = F!ReleaseHandle(fhs[i], h)
  OBVIOUS
<1>6. Distinct(hs, nextfh) /\ h \in Held(hs)
  BY <1>1, <1>3, <1>5
<1>7. Distinct(ms, nextfh) /\ \A v \in Held(hs) : v # h => v \in Held(ms)
  BY <1>5, <1>6, ReleaseDistinct
<1>8. ASSUME NEW y \in given' PROVE y \in given /\ (y[1] = i => y[2] # h)
  <2>1. y \in given /\ y # g
    BY <1>4
  <2>2. y = <<y[1], y[2]>> /\ g = <<i, h>>
    BY <1>1, <1>2, <2>1
  <2> QED
    BY <2>1, <2>2
<1>9. CASE Len(hs) > 1
  <2>1. fhs' = [fhs EXCEPT ![i] = ms]
    BY <1>4, <1>5, <1>9
  <2>2. DOMAIN fhs' = DOMAIN fhs /\ fhs'[i] = ms /\ \A x \in DOMAIN fhs : x # i => fhs'[x] = fhs[x]
    BY <1>3, <2>1
  <2>3. \A x \in DOMAIN fhs' : Distinct(fhs'[x], nextfh')
    BY <1>1, <1>4, <1>7, <2>2
  <2>4. \A y \in given' : y[1] \in DOMAIN fhs' /\ y[2] \in Held(fhs'[y[1]])
    BY <1>1, <1>5, <1>7, <1>8, <2>2
  <2>5. nextfh' \in Nat /\ given' \subseteq Nat \X Nat
    BY <1>1, <1>4
  <2> QED
    BY <2>3, <2>4, <2>5, HandlesNext
<1>10. CASE ~(Len(hs) > 1)
  <2>1. fhs' = [x \in DOMAIN fhs \ {i} |-> fhs[x]]
    BY <1>4, <1>5, <1>10 DEF F!Restrict
  <2>2. \A v \in Held(hs) : v = h
    <3>1. hs \in Seq(Nat) /\ Len(hs) \in Nat
      BY <1>6 DEF Distinct
    <3>2. \A x, y \in 1..Len(hs) : x = y
      BY <1>10, <3>1
    <3> QED
      BY <1>6, <3>2 DEF Held
  <2>3. \A y \in given' : y[1] # i
    BY <1>1, <1>5, <1>8, <2>2
  <2>4. DOMAIN fhs' = DOMAIN fhs \ {i} /\ \A x \in DOMAIN fhs' : fhs'[x] = fhs[x]
    BY <2>1
  <2>5. \A x \in DOMAIN fhs' : Distinct(fhs'[x], nextfh')
    BY <1>1, <1>4, <2>4
  <2>6. \A y \in given' : y[1] \in DOMAIN fhs' /\ y[2] \in Held(fhs'[y[1]])
    <3> SUFFICES ASSUME NEW y \in given' PROVE y[1] \in DOMAIN fhs' /\ y[2] \in Held(fhs'[y[1]])
      OBVIOUS
    <3>1. y[1] \in DOMAIN fhs /\ y[2] \in Held(fhs[y[1]]) /\ y[1] # i
      BY <1>1, <1>8, <2>3
    <3> QED
      BY <2>4, <3>1
  <2>7. nextfh' \in Nat /\ given' \subseteq Nat \X Nat
    BY <1>1, <1>4
  <2> QED
    BY <2>5, <2>6, <2>7, HandlesNext
<1> QED
  BY <1>9, <1>10

\* Every step.
LEMMA HandlesStep ==
  ASSUME Before, F!HandlesDiffer, F!Next \/ UNCHANGED F!vars PROVE F!HandlesDiffer'
<1>1. CASE fhs' = fhs /\ given' = given /\ nextfh' = nextfh
  BY <1>1 DEF F!HandlesDiffer, F!FindHandle
<1>2. CASE F!FuseCreate \/ F!ClientCreate
  <2>1. PICK ts : (ts = F!FuseTargets \/ ts = F!ClientTargets) /\ F!Create(ts)
    BY <1>2, Zenon DEF F!FuseCreate, F!ClientCreate
  <2>2. PICK t \in ts : F!Gives(Len(t.at.nodes) + 1)
    BY <2>1 DEF F!Create
  <2>3. PICK ns : ns = t.at.nodes
    OBVIOUS
  <2>4. Aims(t.at.nodes, t.at.entry, t.at.ino, t.name)
    BY <2>1, TargetAims
  <2>5. F!TableIsTree(ns)
    BY <2>3, <2>4 DEF Aims, Sound
  <2>6. PICK i \in Nat : i = Len(ns) + 1
    BY <2>5, TreeFacts
  <2>7. F!Gives(i)
    BY <2>2, <2>3, <2>6
  <2> QED
    BY <2>7, NewHandleStep DEF F!Gives
<1>3. CASE F!FuseOpen \/ F!ClientOpen
  <2>1. PICK i \in Nat : /\ F!NewHandle(i) /\ nextfh' = nextfh + 1
                         /\ given' = given \/ given' = given \cup {<<i, nextfh>>}
    <3>1. CASE F!FuseOpen
      <4>1. PICK i \in 1..Len(nodes) : LET x == [F!World EXCEPT !.ino = i].ino IN
              /\ F!NewHandle(x) /\ nextfh' = nextfh + 1
              /\ given' = given \/ given' = given \cup {<<x, nextfh>>}
        BY <3>1 DEF F!FuseOpen, F!Open, F!Gives
      <4>2. [F!World EXCEPT !.ino = i].ino = i
        BY WorldFields
      <4>3. i \in Nat
        OBVIOUS
      <4> QED
        BY <4>1, <4>2, <4>3
    <3>2. CASE F!ClientOpen
      <4>1. PICK w \in {v \in {F!Lookup(F!World, p) : p \in F!Paths} : v.ok} :
              /\ F!NewHandle(w.ino) /\ nextfh' = nextfh + 1
              /\ given' = given \/ given' = given \cup {<<w.ino, nextfh>>}
        BY <3>2 DEF F!ClientOpen, F!Open, F!Gives
      <4>2. PICK p \in F!Paths : w = F!Lookup(F!World, p)
        OBVIOUS
      <4>3. PICK w0 : w0 = F!World
        OBVIOUS
      <4>4. F!StoresAreTrees /\ moved \subseteq Seq(Names) /\ p \in Seq(Names) /\ caller = "client"
        BY <3>2, ClientPathsAreSeqs DEF Before, F!ClientOpen
      <4>5. WorldIs(w0) /\ Sound(store, moved, dead, w0.nodes, w0.entry)
        BY <4>3, WorldFields DEF Before
      <4>6. WorldOk(w0, w, p)
        BY <4>2, <4>3, <4>4, <4>5, LookupOk
      <4>7. w.ino \in Nat
        BY <4>6 DEF WorldOk
      <4> QED
        BY <4>1, <4>7
    <3> QED
      BY <1>3, <3>1, <3>2
  <2> QED
    BY <2>1, NewHandleStep
<1>4. CASE F!FuseRelease \/ F!ClientClose
  BY <1>4, ReleaseStep DEF F!FuseRelease, F!ClientClose
<1>5. CASE F!FuseLookup \/ F!FuseRename \/ F!ClientStat \/ F!ClientChmod \/ F!ClientRename \/ F!AttrExpires \/ UNCHANGED F!vars
  <2>1. CASE F!FuseLookup \/ F!ClientStat
    BY <1>1, <2>1 DEF F!FuseLookup, F!ClientStat
  <2>2. CASE F!ClientChmod \/ F!AttrExpires \/ UNCHANGED F!vars
    BY <1>1, <2>2 DEF F!ClientChmod, F!AttrExpires, F!vars
  <2>3. CASE F!FuseRename
    BY <1>1, <2>3 DEF F!FuseRename, F!RenameIn
  <2>4. CASE F!ClientRename
    BY <1>1, <2>4 DEF F!ClientRename, F!RenameIn
  <2> QED
    BY <1>5, <2>1, <2>2, <2>3, <2>4
<1>6. CASE F!FuseMkdir \/ F!FuseMknod \/ F!ClientMkdir \/ F!FuseUnlink \/ F!FuseRmdir \/ F!ClientUnlink \/ F!ClientRmdir
  BY <1>1, <1>6 DEF F!FuseMkdir, F!FuseMknod, F!ClientMkdir, F!FuseUnlink, F!FuseRmdir, F!ClientUnlink, F!ClientRmdir, F!Make, F!Delete
<1> QED
  BY <1>2, <1>3, <1>4, <1>5, <1>6 DEF F!Next

-----------------------------------------------------------------------------
(* The invariant *)

\* The invariant in two parts.
LEMMA ClientInvIs ==
  F!ClientInv <=> Before /\ F!HandlesDiffer
BY SoundAsSaid DEF F!ClientInv, Before

\* It is inductive.
LEMMA ClientInvStep ==
  ASSUME F!ClientInv, F!Next \/ UNCHANGED F!vars PROVE F!ClientInv'
<1>1. Before /\ F!HandlesDiffer
  BY ClientInvIs
<1>2. After /\ F!HandlesDiffer'
  BY <1>1, TreesStep, HandlesStep
<1>3. Sound(store, moved, dead, nodes, entry)'
  BY <1>2, SoundNext DEF After
<1>4. F!TableIsTree(nodes)' /\ F!EntriesLead(nodes, entry)' /\ F!Tidy(nodes, entry)'
  BY <1>3, TreesNext
<1>5. /\ caller' \in {"kernel", "client"} /\ (caller' = "kernel" => entry' = <<>>)
      /\ moved' \subseteq Seq(Names) /\ F!StoresAreTrees'
  BY <1>1, <1>2 DEF Before, After
<1> QED
  BY <1>2, <1>4, <1>5 DEF F!ClientInv

\* A handle is found once.
LEMMA HandlesFound == ASSUME F!HandlesDiffer PROVE F!HandlesAreFound
<1>1. ASSUME NEW g \in given PROVE F!FindHandle(g[1], g[2])
  BY DEF F!HandlesDiffer
<1>2. ASSUME NEW g \in given PROVE F!Cardinality({x \in 1..Len(fhs[g[1]]) : fhs[g[1]][x] = g[2]}) = 1
  <2>1. PICK hs, h : hs = fhs[g[1]] /\ h = g[2]
    OBVIOUS
  <2>2. Distinct(hs, nextfh) /\ h \in Held(hs)
    BY <2>1, HandleFacts
  <2>3. PICK a \in 1..Len(hs) : hs[a] = h
    BY <2>2 DEF Held
  <2>4. {x \in 1..Len(hs) : hs[x] = h} = {a}
    BY <2>2, <2>3 DEF Distinct
  <2>5. F!Cardinality({a}) = 1
    <3>1. F!Cardinality({a}) = Cardinality({a})
      BY DEF F!Cardinality, Cardinality
    <3> QED
      BY <3>1, FS_Singleton
  <2> QED
    BY <2>1, <2>4, <2>5
<1> QED
  BY <1>1, <1>2, Zenon DEF F!HandlesAreFound

\* An entry resolves to its path.
LEMMA EntriesFound == ASSUME Before PROVE F!EntriesResolve
BY DEF Before, Sound, LeadIn, F!EntriesResolve

\* A directory can have children.
LEMMA MapsFound == ASSUME Before PROVE F!DirectoriesHaveMaps
<1> SUFFICES ASSUME moved = {}, NEW i \in 1..Len(nodes) \ dead, NEW n \in Names, F!Child(nodes, i, n) # 0,
                    F!DirAt(F!KeyOf(nodes, F!Child(nodes, i, n)))
             PROVE  nodes[F!Child(nodes, i, n)].dir
  BY DEF F!DirectoriesHaveMaps
<1>1. PICK c : c = F!Child(nodes, i, n)
  OBVIOUS
<1>2. F!TableIsTree(nodes) /\ TidyIn(store, nodes)
  BY DEF Before, Sound
<1>3. c \in F!Attached(nodes) /\ c \in 1..Len(nodes)
  BY <1>1, <1>2, AttachedFacts
<1>4. nodes[c].folder
  BY <1>1, <1>2, <1>3 DEF TidyIn, F!DirAt
<1> QED
  BY <1>1, <1>2, <1>3, <1>4 DEF TidyIn

\* A file or directory in the directory k, and the name it has there.
LEMMA NamesIn ==
  ASSUME F!StoresAreTrees, NEW k \in F!Keys, NEW n \in Names
  PROVE  n \in {F!Last(j.sub) : j \in {x \in DOMAIN store :
                  x.ufs = k.ufs /\ Len(x.sub) = Len(k.sub) + 1 /\ F!IsPrefix(k.sub, x.sub)}}
         <=> [ufs |-> k.ufs, sub |-> Append(k.sub, n)] \in DOMAIN store
<1>1. PICK u, b : u = k.ufs /\ b = k.sub
  OBVIOUS
<1>2. b \in Seq(Names) /\ Len(b) \in Nat
  BY <1>1 DEF F!Keys
<1>3. ASSUME NEW j \in DOMAIN store, j.ufs = u, Len(j.sub) = Len(b) + 1, F!IsPrefix(b, j.sub)
      PROVE  j = [ufs |-> u, sub |-> Append(b, F!Last(j.sub))]
  <2>1. j = [ufs |-> j.ufs, sub |-> j.sub] /\ j.sub \in Seq(Names)
    BY StoreFacts
  <2>2. PICK s : s = j.sub
    OBVIOUS
  <2>3. s \in Seq(Names) /\ Len(s) = Len(b) + 1 /\ s # <<>>
    BY <1>2, <1>3, <2>1, <2>2
  <2>4. PICK d, l : d = F!DirName(s) /\ l = F!Last(s)
    OBVIOUS
  <2>5. d \in Seq(Names) /\ l \in Names /\ s = Append(d, l)
    BY <2>3, <2>4, PathParts
  <2>6. Len(d) = Len(b) /\ F!IsPrefix(b, d)
    <3>1. Len(s) = Len(d) + 1 /\ Len(d) \in Nat
      BY <2>5, AppendFields
    <3>2. F!IsPrefix(b, Append(d, l)) /\ b # Append(d, l)
      BY <1>2, <1>3, <2>2, <2>3, <2>5
    <3>3. F!IsPrefix(b, d)
      BY <1>2, <2>5, <3>2, PrefixOfAppend
    <3> QED
      BY <1>2, <2>3, <3>1, <3>3
  <2>7. d = b
    BY <1>2, <2>5, <2>6, BeginsWith, SeqEqual
  <2> QED
    BY <1>3, <2>1, <2>2, <2>4, <2>5, <2>7
<1>4. PICK q : q = Append(b, n)
  OBVIOUS
<1>5. q \in Seq(Names) /\ Len(q) = Len(b) + 1 /\ F!Last(q) = n /\ F!IsPrefix(b, q)
  BY <1>2, <1>4, AppendFields
<1>6. PICK y : y = [ufs |-> u, sub |-> q]
  OBVIOUS
<1>7. y.ufs = u /\ y.sub = q
  BY <1>6
<1>8. ASSUME y \in DOMAIN store
      PROVE  \E j \in DOMAIN store : j.ufs = u /\ Len(j.sub) = Len(b) + 1 /\ F!IsPrefix(b, j.sub) /\ n = F!Last(j.sub)
  BY <1>5, <1>7, <1>8
<1>9. ASSUME NEW j \in DOMAIN store, j.ufs = u, Len(j.sub) = Len(b) + 1, F!IsPrefix(b, j.sub), n = F!Last(j.sub)
      PROVE  y \in DOMAIN store
  BY <1>3, <1>4, <1>6, <1>9
<1> QED
  BY <1>1, <1>4, <1>6, <1>8, <1>9

\* A directory lists what a lookup finds.
LEMMA ListingFound == ASSUME F!StoresAreTrees PROVE F!ListingMatchesLookup
<1> SUFFICES ASSUME NEW p \in F!Paths, F!DirAt(F!GetUFS(p)), NEW n \in Names
             PROVE  (n \in F!Listed(p)) <=> F!Exists(F!GetUFS(Append(p, n))) \/ Append(p, n) \in links
  BY DEF F!ListingMatchesLookup
<1>1. p \in Seq(Names) /\ LinksApart
  BY ClientPathsAreSeqs, StoreFacts
<1>2. PICK k, q : k = F!GetUFS(p) /\ q = Append(p, n)
  OBVIOUS
<1>3. /\ q \in Seq(Names) /\ F!Last(q) = n /\ F!DirName(q) = p /\ F!IsPrefix(p, q) /\ ~F!IsPrefix(q, p)
  BY <1>1, <1>2, AppendFields
<1>4. k \in F!Keys
  BY <1>1, <1>2, KeyParts
<1> DEFINE Here == {F!Last(j.sub) : j \in {x \in DOMAIN store :
                     x.ufs = k.ufs /\ Len(x.sub) = Len(k.sub) + 1 /\ F!IsPrefix(k.sub, x.sub)}}
           There == IF k.ufs # <<>> THEN {} ELSE {F!Last(l) : l \in {x \in links : F!DirName(x) = p}}
<1>5. F!Listed(p) = Here \cup There
  BY <1>2 DEF F!Listed
<1>6. n \in Here <=> [ufs |-> k.ufs, sub |-> Append(k.sub, n)] \in DOMAIN store
  BY <1>4, NamesIn
<1> HIDE DEF Here
<1>7. CASE q \in links
  <2>1. Bare(p)
    <3> SUFFICES ASSUME NEW l \in links, F!IsPrefix(l, p) PROVE FALSE
      BY DEF Bare
    <3>1. l \in Seq(Names)
      BY <1>1 DEF LinksApart
    <3>2. F!IsPrefix(l, q)
      BY <1>1, <1>3, <3>1, Prefixes
    <3>3. l = q
      BY <1>1, <1>7, <3>2 DEF LinksApart
    <3> QED
      BY <1>3, <3>3
  <2>2. PICK e : e = <<>>
    OBVIOUS
  <2>3. k = [ufs |-> e, sub |-> p]
    BY <1>1, <1>2, <2>1, <2>2, BareKey
  <2>4. k.ufs = e
    BY <2>3
  <2>5. There = {F!Last(l) : l \in {x \in links : F!DirName(x) = p}}
    BY <2>2, <2>4
  <2>6. n \in There
    BY <1>3, <1>7, <2>5
  <2> QED
    BY <1>2, <1>5, <1>7, <2>6
<1>8. CASE q \notin links
  <2>1. F!GetUFS(q) = [ufs |-> k.ufs, sub |-> Append(k.sub, n)]
    BY <1>1, <1>2, <1>8, KeyOfChild
  <2>2. n \notin There
    <3> SUFFICES ASSUME NEW l \in links, F!DirName(l) = p, F!Last(l) = n PROVE FALSE
      OBVIOUS
    <3>1. l \in Seq(Names) /\ l # <<>>
      BY <1>1 DEF LinksApart
    <3>2. l = Append(F!DirName(l), F!Last(l))
      BY <3>1, PathParts
    <3>3. l = q
      BY <1>2, <3>2
    <3> QED
      BY <1>8, <3>3
  <2> HIDE DEF There
  <2> QED
    BY <1>2, <1>5, <1>6, <1>8, <2>1, <2>2 DEF F!Exists
<1> QED
  BY <1>7, <1>8

\* The invariant implies what a caller sees.
LEMMA ClientInvEnough == ASSUME F!ClientInv PROVE F!TreeIsSound /\ F!HandlesAreFound
<1>1. Before /\ F!HandlesDiffer /\ F!StoresAreTrees
  BY ClientInvIs DEF Before
<1> QED
  BY <1>1, HandlesFound, EntriesFound, MapsFound, ListingFound DEF F!TreeIsSound

\* The root alone, and the roots of the storages.
LEMMA ClientInitial ==
  ASSUME F!Init PROVE F!ClientInv
<1>1. /\ caller \in {"kernel", "client"} /\ links \in SUBSET LinkPaths /\ (\A a, b \in links : a # b => ~F!IsPrefix(a, b))
      /\ store = [k \in {[ufs |-> u, sub |-> <<>>] : u \in links \cup {<<>>}} |-> TRUE]
      /\ nodes = <<F!Root>> /\ entry = <<>> /\ fhs = <<>> /\ given = {} /\ nextfh = 1 /\ dead = {} /\ moved = {}
  BY DEF F!Init
<1>2. PICK e : e = <<>>
  OBVIOUS
<1>3. e \in Seq(Names) /\ DOMAIN e = {}
  BY <1>2
<1>4. store = [k \in {[ufs |-> u, sub |-> e] : u \in links \cup {e}} |-> TRUE]
  BY <1>1, <1>2
<1>5. F!StoresAreTrees
  <2>1. links \subseteq Seq(Names) \ {<<>>}
    BY <1>1, LinksAssumption
  <2>2. F!Keys = [ufs : links \cup {e}, sub : Seq(Names)]
    BY <1>2 DEF F!Keys
  <2>3. DOMAIN store = {[ufs |-> u, sub |-> e] : u \in links \cup {e}}
    BY <1>4
  <2>4. DOMAIN store \subseteq F!Keys
    <3> SUFFICES ASSUME NEW k \in DOMAIN store PROVE k \in F!Keys
      OBVIOUS
    <3>1. PICK u \in links \cup {e} : k = [ufs |-> u, sub |-> e]
      BY <2>3
    <3> QED
      BY <1>3, <2>2, <3>1
  <2>5. \A k \in DOMAIN store : store[k] = TRUE /\ k.sub = e
    <3> SUFFICES ASSUME NEW k \in DOMAIN store PROVE store[k] = TRUE /\ k.sub = e
      OBVIOUS
    <3>1. PICK u \in links \cup {e} : k = [ufs |-> u, sub |-> e]
      BY <2>3
    <3>2. store[k] = TRUE
      BY <1>4, <2>3
    <3> QED
      BY <3>1, <3>2
  <2>6. F!Exists([ufs |-> e, sub |-> e])
    BY <2>3 DEF F!Exists
  <2>7. \A k \in DOMAIN store :
          /\ store[k] \in BOOLEAN
          /\ k.sub = <<>> => store[k]
          /\ k.sub # <<>> => F!DirAt(F!Parent(k))
    BY <1>2, <2>5
  <2> QED
    BY <1>1, <1>2, <2>1, <2>4, <2>6, <2>7 DEF F!StoresAreTrees
<1>6. PICK r : r = F!Root
  OBVIOUS
<1>7. r = [name |-> "", parent |-> 0, dir |-> TRUE, folder |-> TRUE, child |-> F!NoChild] /\ F!NoChild = [n \in Names |-> 0]
  BY <1>6 DEF F!Root, F!NoChild
<1>8. /\ r \in F!Nodes /\ r.parent = 0 /\ r.dir = TRUE /\ r.folder = TRUE /\ r.child = F!NoChild
  BY <1>7 DEF F!Nodes
<1>9. nodes \in Seq(F!Nodes) /\ Len(nodes) = 1 /\ nodes[1] = r
  BY <1>1, <1>6, <1>8
<1>10. \A i \in 1..1 : i = 1
  OBVIOUS
<1>11. \A n \in Names : F!Child(nodes, 1, n) = 0
  BY <1>7, <1>8, <1>9 DEF F!Child
<1>12. F!TableIsTree(nodes)
  <2>1. nodes # <<>>
    BY <1>9
  <2> QED
    BY <1>8, <1>9, <1>10, <1>11, <2>1 DEF F!TableIsTree
<1>13. F!Attached(nodes) = {1}
  BY <1>8, <1>9, <1>10 DEF F!Attached
<1>14. F!KeyOf(nodes, 1) \in DOMAIN store /\ store[F!KeyOf(nodes, 1)] = TRUE
  <2>1. LinksApart
    BY <1>5, StoreFacts
  <2>2. Climbs(nodes) /\ 1 \in 1..Len(nodes) /\ nodes[1].parent = 0
    BY <1>12, TreeFacts
  <2>3. F!InodeToPath(nodes, 1) = e
    BY <1>2, <2>2, PathUnfolds
  <2>4. Bare(e)
    <3> SUFFICES ASSUME NEW l \in links, F!IsPrefix(l, e) PROVE FALSE
      BY DEF Bare
    <3>1. l \in Seq(Names) /\ l # <<>>
      BY <2>1 DEF LinksApart
    <3>2. F!IsPrefix(l, <<>>) => l = <<>>
      BY <3>1, Prefixes
    <3> QED
      BY <1>2, <3>1, <3>2
  <2>5. F!GetUFS(e) = [ufs |-> e, sub |-> e]
    BY <1>2, <1>3, <2>4, BareKey
  <2>6. F!KeyOf(nodes, 1) = [ufs |-> e, sub |-> e]
    BY <2>3, <2>5 DEF F!KeyOf
  <2> QED
    BY <1>4, <2>6
<1>15. TidyIn(store, nodes)
  BY <1>8, <1>9, <1>10, <1>11, <1>13, <1>14 DEF TidyIn
<1>16. KernelIn(dead, nodes) /\ ClientIn(store, nodes, entry)
  BY <1>1, <1>2, <1>3, <1>8, <1>9, <1>10, <1>13 DEF KernelIn, ClientIn
<1>17. LeadIn(store, moved, nodes, entry)
  BY <1>1, <1>2, <1>3 DEF LeadIn
<1>18. F!HandlesDiffer
  <2>1. DOMAIN fhs = {} /\ given = {} /\ nextfh = 1
    BY <1>1, <1>2, <1>3
  <2> QED
    BY <2>1 DEF F!HandlesDiffer
<1>19. Before
  BY <1>1, <1>5, <1>12, <1>15, <1>16, <1>17 DEF Before, Sound
<1> QED
  BY <1>18, <1>19, ClientInvIs

\* The invariant, in the composition.
ClientRight == which = "client" => F!ClientInv

\* For any names, links, bounds and callers: directories the table knows can have children, entries
\* of the client's cache resolve to the paths they are remembered for unless these were renamed or
\* taken away another way, listings agree with lookups, and every handle the caller holds is found
\* under its node, once (inode.go, handle.go, default.go, fs.go, cache.go).
THEOREM ClientStaysSound == Spec => []ClientIsSound
<1>1. Init => ClientRight
  BY ClientInitial DEF Init, ClientRight
<1>2. ClientRight /\ [Next]_all => ClientRight'
  <2> SUFFICES ASSUME ClientRight, [Next]_all, which = "client" PROVE F!ClientInv'
    <3>1. [Next]_all => which' = which
      BY DEF Next, all
    <3> QED
      BY <3>1 DEF ClientRight
  <2>1. F!Next \/ UNCHANGED F!vars
    BY DEF Next, all, F!vars
  <2> QED
    BY <2>1, ClientInvStep DEF ClientRight
<1>3. ClientRight => ClientIsSound
  BY ClientInvEnough DEF ClientRight, ClientIsSound
<1> QED
  BY <1>1, <1>2, <1>3, PTL DEF Spec

=============================================================================
