----------------------------- MODULE ClientTree -----------------------------
(***************************************************************************)
(* The operations of the file client that walk a tree (fs/pfs_client.go):  *)
(* MkdirAll, RemoveAll and Copy.  Each is many calls to the file system,   *)
(* and the calls of other callers come between them.  A caller's stack     *)
(* holds the calls of these functions to themselves and to each other.     *)
(***************************************************************************)
EXTENDS Naturals, Sequences, FiniteSets, Functions, SequencesExt

CONSTANTS
    Threads,    \* callers
    Names, MaxDepth,
    MaxTree,    \* bound on what there is at first
    MaxOps,     \* bound on operations started
    MaxFaults   \* bound on failing calls

VARIABLES
    tree,    \* path -> "dir" or "file"
    stack,   \* thread -> the calls it is in; empty when it has none
    ret,     \* thread -> what the last call returned: "none", "ok", "err", "missing"
    ops, faults,
    goal,    \* history: thread -> the operation it was asked for
    undone   \* history: thread -> did another caller, or a failure that its operation
             \* cannot make good, interfere with it?

vars == <<tree, stack, ret, ops, faults, goal, undone>>

Paths == UNION {[1..n -> Names] : n \in 1..MaxDepth}
DirOf(p) == SubSeq(p, 1, Len(p) - 1)
Make(p, kind) == [q \in DOMAIN tree \cup {p} |-> IF q = p THEN kind ELSE tree[q]]
Stat(p) == IF p = <<>> THEN "dir" ELSE IF p \in DOMAIN tree THEN tree[p] ELSE "missing"
Children(p) == {q \in DOMAIN tree : Len(q) = Len(p) + 1 /\ IsPrefix(p, q)}
Move(p, src, dst) == dst \o SubSeq(p, Len(src) + 1, Len(p))

Top(t) == Last(stack[t])
Running(t, op, at) == stack[t] # <<>> /\ Top(t).op = op /\ Top(t).at = at
\* Go on in the same call, call another function from it, or return from it.
Goto(t, frame) == stack' = [stack EXCEPT ![t] = Append(Front(@), frame)] /\ ret' = [ret EXCEPT ![t] = "none"]
Call(t, back, frame) ==
    stack' = [stack EXCEPT ![t] = Append(Append(Front(@), back), frame)] /\ ret' = [ret EXCEPT ![t] = "none"]
Return(t, r) == stack' = [stack EXCEPT ![t] = Front(@)] /\ ret' = [ret EXCEPT ![t] = r]

MkdirAllOf(p) == [op |-> "mkdirall", at |-> "stat", path |-> p]
RemoveAllOf(p) == [op |-> "removeall", at |-> "try", path |-> p]
CopyOf(p, q) == [op |-> "copy", at |-> "stat", path |-> p, to |-> q]

\* A change of the tree by one caller interferes with the operations of the others
\* that concern the path: making below a removed path, removing from a made one.
Concerned(u, p, makes) ==
    /\ goal[u].op = IF makes THEN "removeall" ELSE "mkdirall"
    /\ IsPrefix(p, goal[u].path) \/ IsPrefix(goal[u].path, p)
Interfere(t, p, makes) ==
    undone' = [u \in Threads |-> undone[u] \/ (u # t /\ stack[u] # <<>> /\ Concerned(u, p, makes))]
Keep == UNCHANGED <<tree, undone>>
Rest == UNCHANGED <<ops, faults, goal>>

(* ------------------------------- MkdirAll ------------------------------- *)

\* The slow path: the directory above is made first.
MakeParent(t) ==
    LET p == Top(t).path
    IN  IF Len(p) > 1 THEN Call(t, [Top(t) EXCEPT !.at = "parent"], MkdirAllOf(DirOf(p)))
        ELSE Goto(t, [Top(t) EXCEPT !.at = "make"])

MkdirAllStat(t) ==
    LET p == Top(t).path
    IN  /\ Running(t, "mkdirall", "stat")
        /\ CASE Stat(p) = "dir" -> Return(t, "ok")
             [] Stat(p) = "file" -> Return(t, "err")
             [] OTHER -> MakeParent(t)
        /\ Keep /\ Rest

MkdirAllParent(t) ==
    /\ Running(t, "mkdirall", "parent") /\ ret[t] # "none"
    /\ IF ret[t] = "ok" THEN Goto(t, [Top(t) EXCEPT !.at = "make"]) ELSE Return(t, ret[t])
    /\ Keep /\ Rest

MkdirAllMake(t) ==
    LET p == Top(t).path
    IN  /\ Running(t, "mkdirall", "make")
        /\ IF Stat(p) = "missing" /\ Stat(DirOf(p)) = "dir"
             THEN tree' = Make(p, "dir") /\ Interfere(t, p, TRUE) /\ Return(t, "ok")
             ELSE Goto(t, [Top(t) EXCEPT !.at = "again"]) /\ Keep
        /\ Rest

MkdirAllAgain(t) ==
    /\ Running(t, "mkdirall", "again")
    /\ Return(t, IF Stat(Top(t).path) = "dir" THEN "ok" ELSE "err")
    /\ Keep /\ Rest

(* ------------------------------- RemoveAll ------------------------------ *)

\* Remove: a Stat, then Rmdir or Unlink by what the Stat said.
RemoveStat(t) ==
    LET p == Top(t).path
    IN  /\ Running(t, "removeall", "try") \/ Running(t, "removeall", "last")
        /\ IF Stat(p) = "missing" THEN Return(t, "ok")
           ELSE Goto(t, [op |-> "remove", at |-> Top(t).at, path |-> p, kind |-> Stat(p)])
        /\ Keep /\ Rest

RemoveAct(t) ==
    LET f == Top(t)
        works == Stat(f.path) = f.kind /\ Children(f.path) = {}
    IN  /\ Running(t, "remove", "try") \/ Running(t, "remove", "last")
        /\ CASE works ->
                  /\ tree' = Restrict(tree, DOMAIN tree \ {f.path})
                  /\ Interfere(t, f.path, FALSE) /\ Return(t, "ok")
             [] ~works /\ f.at = "try" /\ Stat(f.path) # "missing" ->
                  Goto(t, [op |-> "removeall", at |-> "list", path |-> f.path]) /\ Keep
             \* after the children are gone the error of the last Remove is dropped
             [] OTHER -> Return(t, "ok") /\ Keep
        /\ Rest

RemoveList(t) ==
    LET p == Top(t).path
    IN  /\ Running(t, "removeall", "list")
        /\ CASE Stat(p) = "missing" -> Return(t, "ok")
             [] Stat(p) = "file" -> Return(t, "err")
             [] OTHER -> Goto(t, [op |-> "removeall", at |-> "child", path |-> p,
                                  todo |-> SetToSeq(Children(p))])
        /\ Keep /\ Rest

\* Mutant: the emptied directory stays.
RemoveChildOnly(t) ==
    /\ Running(t, "removeall", "child")
    /\ CASE ret[t] = "err" -> Return(t, "err")
         [] ret[t] # "err" /\ Top(t).todo = <<>> -> Return(t, "ok")
         [] OTHER -> Call(t, [Top(t) EXCEPT !.todo = Tail(@)], RemoveAllOf(Head(Top(t).todo)))
    /\ Keep /\ Rest
RemoveChild(t) ==
    /\ Running(t, "removeall", "child")
    /\ CASE ret[t] = "err" -> Return(t, "err")
         [] ret[t] # "err" /\ Top(t).todo = <<>> -> Goto(t, [op |-> "removeall", at |-> "last", path |-> Top(t).path])
         [] OTHER -> Call(t, [Top(t) EXCEPT !.todo = Tail(@)], RemoveAllOf(Head(Top(t).todo)))
    /\ Keep /\ Rest

(* --------------------------------- Copy --------------------------------- *)

\* Copy walks the source from the top: a directory is listed, then made by MkdirAll;
\* a file is copied after MkdirAll of its directory.
CopyStat(t) ==
    LET f == Top(t)
    IN  /\ Running(t, "copy", "stat")
        /\ CASE Stat(f.path) = "missing" -> Return(t, "err")
             [] Stat(f.path) = "dir" -> Goto(t, [f EXCEPT !.at = "walk"])
             [] OTHER -> Call(t, [f EXCEPT !.at = "file"], MkdirAllOf(DirOf(f.to)))
        /\ Keep /\ Rest

MayCopy(f) == Stat(f.path) = "file" /\ Stat(f.to) # "dir" /\ Stat(DirOf(f.to)) = "dir"
CopyFile(t) ==
    LET f == Top(t)
    IN  /\ Running(t, "copy", "file") /\ ret[t] # "none"
        /\ IF ret[t] = "ok" /\ MayCopy(f)
             THEN tree' = Make(f.to, "file") /\ Interfere(t, f.to, TRUE) /\ Return(t, "ok")
             ELSE Return(t, "err") /\ Keep
        /\ Rest

CopyWalk(t) ==
    LET f == Top(t)
    IN  /\ Running(t, "copy", "walk")
        /\ IF Stat(f.path) # "dir" THEN Return(t, "err")
           ELSE Call(t, [op |-> "copy", at |-> "each", path |-> f.path, to |-> f.to,
                         todo |-> SetToSeq(Children(f.path))], MkdirAllOf(f.to))
        /\ Keep /\ Rest

CopyEach(t) ==
    LET f == Top(t)
        c == Head(f.todo)
    IN  /\ Running(t, "copy", "each")
        /\ CASE ret[t] = "err" -> Return(t, "err")
             [] ret[t] # "err" /\ f.todo = <<>> -> Return(t, "ok")
             [] OTHER -> Call(t, [f EXCEPT !.todo = Tail(@)], CopyOf(c, Move(c, f.path, f.to)))
        /\ Keep /\ Rest

(* ------------------------------------------------------------------------ *)

Asks(t, g, frame) ==
    /\ stack[t] = <<>> /\ ops < MaxOps /\ ops' = ops + 1
    /\ stack' = [stack EXCEPT ![t] = <<frame>>]
    /\ ret' = [ret EXCEPT ![t] = "none"]
    /\ goal' = [goal EXCEPT ![t] = g] /\ undone' = [undone EXCEPT ![t] = FALSE]
    /\ UNCHANGED <<tree, faults>>

Ask(t) ==
    \E p \in Paths :
        \/ Asks(t, [op |-> "mkdirall", path |-> p], MkdirAllOf(p))
        \/ Asks(t, [op |-> "removeall", path |-> p], RemoveAllOf(p))
        \/ \E q \in Paths : p # q /\ Len(q) = Len(p) /\ Asks(t, [op |-> "copy", path |-> p, to |-> q], CopyOf(p, q))

\* A call to the file system fails.  MkdirAll takes a failed Stat for a missing path
\* and asks again after a failed Mkdir; RemoveAll lists what it could not remove at
\* once, and drops the error of the last Remove; everything else returns the error.
CallFails(t) ==
    LET f == Top(t)
    IN  /\ faults < MaxFaults /\ faults' = faults + 1 /\ stack[t] # <<>>
        /\ \/ f.op = "mkdirall" /\ f.at = "stat" /\ MakeParent(t)
           \/ f.op = "mkdirall" /\ f.at = "make" /\ Goto(t, [f EXCEPT !.at = "again"])
           \/ /\ f.op \in {"removeall", "remove"} /\ f.at = "try"
              /\ Goto(t, [op |-> "removeall", at |-> "list", path |-> f.path])
           \/ f.op \in {"removeall", "remove"} /\ f.at = "last" /\ Return(t, "ok")
           \/ /\ <<f.op, f.at>> \in {<<"mkdirall", "again">>, <<"removeall", "list">>,
                                     <<"copy", "stat">>, <<"copy", "walk">>, <<"copy", "file">>}
              /\ Return(t, "err")
        /\ undone' = [undone EXCEPT ![t] = @ \/ f.at \in {"make", "again", "last"}]
        /\ UNCHANGED <<tree, ops, goal>>

\* The copying breaks off; the file it has created stays.
CopyBreaksOff(t) ==
    /\ faults < MaxFaults /\ faults' = faults + 1
    /\ Running(t, "copy", "file") /\ ret[t] = "ok" /\ MayCopy(Top(t))
    /\ tree' = Make(Top(t).to, "file") /\ Interfere(t, Top(t).to, TRUE) /\ Return(t, "err")
    /\ UNCHANGED <<ops, goal>>

Init ==
    /\ tree \in {tr \in UNION {[D -> {"dir", "file"}] :
                             D \in {E \in SUBSET Paths : IsFiniteSet(E) /\ Cardinality(E) <= MaxTree}} :
                    \A p \in DOMAIN tr : Len(p) > 1 => DirOf(p) \in DOMAIN tr /\ tr[DirOf(p)] = "dir"}
    /\ stack = [t \in Threads |-> <<>>] /\ ret = [t \in Threads |-> "none"]
    /\ ops = 0 /\ faults = 0
    /\ goal = [t \in Threads |-> [op |-> "none", path |-> <<>>]]
    /\ undone = [t \in Threads |-> FALSE]

Step(t) ==
    \/ MkdirAllStat(t) \/ MkdirAllParent(t) \/ MkdirAllMake(t) \/ MkdirAllAgain(t)
    \/ RemoveStat(t) \/ RemoveAct(t) \/ RemoveList(t) \/ RemoveChild(t)
    \/ CopyStat(t) \/ CopyFile(t) \/ CopyWalk(t) \/ CopyEach(t)

Next == \E t \in Threads : Ask(t) \/ Step(t) \/ CallFails(t) \/ CopyBreaksOff(t)

Spec == Init /\ [][Next]_vars

(* ------------------------------ properties ------------------------------ *)

Answers(t, op, r) ==
    stack[t] # <<>> /\ stack'[t] = <<>> /\ goal[t].op = op /\ ret'[t] = r /\ ~undone'[t]

\* Two callers may make the same directories at the same time, and a Stat may fail:
\* MkdirAll fails only when a file is in the way, its Mkdir or the Stat after it
\* failed, or somebody removed what it made.
TwinsBothMake ==
    [][\A t \in Threads : Answers(t, "mkdirall", "err") =>
          \E n \in 1..Len(goal[t].path) : Stat(SubSeq(goal[t].path, 1, n)) = "file"]_vars

\* RemoveAll that answers without an error has removed the path, whichever calls
\* failed on the way, unless somebody made something there at the same time or it was
\* a last Remove that failed, whose error is dropped.
RemoveAllRemoves ==
    [][\A t \in Threads : Answers(t, "removeall", "ok") => goal[t].path \notin DOMAIN tree']_vars

(* ---------------- the invariant behind the two properties --------------- *)

Kinds == {"dir", "file"}
Names1 == Seq(Names)
MakeFrames == [op : {"mkdirall"}, at : {"stat", "parent", "make", "again"}, path : Names1]
RemoveFrames ==
    [op : {"removeall"}, at : {"try", "list", "last"}, path : Names1]
    \cup [op : {"removeall"}, at : {"child"}, path : Names1, todo : Seq(Names1)]
    \cup [op : {"remove"}, at : {"try", "last"}, path : Names1, kind : Kinds]
CopyFrames ==
    [op : {"copy"}, at : {"stat", "walk", "file"}, path : Names1, to : Names1]
    \cup [op : {"copy"}, at : {"each"}, path : Names1, to : Names1, todo : Seq(Names1)]
Frames == MakeFrames \cup RemoveFrames \cup CopyFrames

Shape ==
    /\ DOMAIN tree \subseteq Names1 \ {<<>>} /\ IsFiniteSet(DOMAIN tree)
    /\ \A p \in DOMAIN tree : tree[p] \in Kinds
    /\ stack \in [Threads -> Seq(Frames)] /\ ret \in [Threads -> {"none", "ok", "err"}]
    /\ \A t \in Threads : goal[t].path \in Names1
    /\ DOMAIN goal = Threads /\ DOMAIN undone = Threads

\* The calls a caller is in belong to what it was asked for: RemoveAll calls itself for the
\* entries below its path, MkdirAll for the directories above.
RemovesBelow(t) ==
    /\ stack[t][1].path = goal[t].path
    /\ \A i \in 1..Len(stack[t]) :
          /\ stack[t][i] \in RemoveFrames /\ IsPrefix(goal[t].path, stack[t][i].path)
          /\ i < Len(stack[t]) => stack[t][i].at = "child"
          /\ stack[t][i].at = "child" => \A c \in Range(stack[t][i].todo) : IsPrefix(goal[t].path, c)
MakesAbove(t) ==
    \A i \in 1..Len(stack[t]) :
        /\ stack[t][i] \in MakeFrames /\ i <= Len(goal[t].path)
        /\ stack[t][i].path = SubSeq(goal[t].path, 1, Len(goal[t].path) - i + 1)
        /\ i < Len(stack[t]) => stack[t][i].at = "parent"

\* What is left of a directory whose entries are removed one by one: the entries still to do and
\* the one the call above is for, unless a call failed; nothing at the last Remove.
Remains(t, i) ==
    IF i < Len(stack[t]) THEN {stack[t][i + 1].path} ELSE {}
LeftToRemove(t) ==
    \A i \in 1..Len(stack[t]) :
        LET f == stack[t][i]
        IN  /\ f.at = "child" => \/ i = Len(stack[t]) /\ ret[t] = "err"
                                \/ Children(f.path) \subseteq Range(f.todo) \cup Remains(t, i)
            /\ f.at = "last" => Children(f.path) = {}
            /\ f.op = "remove" => Stat(f.path) \in {f.kind, "missing"}

\* MkdirAll comes to a path when there is a directory to make it in; an error is a file in the way.
FileInTheWay(t) == \E n \in 1..Len(goal[t].path) : Stat(SubSeq(goal[t].path, 1, n)) = "file"
ReadyToMake(t) ==
    /\ LET f == Top(t)
       IN  /\ f.at = "parent" /\ ret[t] = "ok" => Stat(DirOf(f.path)) = "dir"
           /\ f.at = "make" => Stat(DirOf(f.path)) = "dir"
           /\ f.at = "again" => Stat(f.path) # "missing"
    /\ ret[t] = "err" => FileInTheWay(t)

AsAsked(t) ==
    stack[t] # <<>> =>
        /\ goal[t].op = "removeall" => RemovesBelow(t) /\ (undone[t] \/ LeftToRemove(t))
        /\ goal[t].op = "mkdirall" => MakesAbove(t) /\ (undone[t] \/ ReadyToMake(t))

TreeInv == Shape /\ \A t \in Threads : AsAsked(t)
=============================================================================
