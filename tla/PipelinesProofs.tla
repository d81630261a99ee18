--------------------------- MODULE PipelinesProofs ---------------------------
(***************************************************************************)
(* Theorems about what happens to a workflow before its steps run          *)
(* (MCPipelines): the order of the steps and the values of their           *)
(* parameters (WorkflowSource, instance W), the cache of steps (StepCache, *)
(* instance C) and the job that is created (JobSpec, instance J).          *)
(***************************************************************************)
EXTENDS MCPipelines, FiniteSetTheorems, SequenceTheorems, WellFoundedInduction, TLAPS

-----------------------------------------------------------------------------
(* Facts about numbers and sequences *)

LEMMA LeastOfSet ==
  ASSUME NEW S \in SUBSET Nat, S # {} PROVE \E x \in S : \A y \in S : x <= y
<1> DEFINE R == {ss \in Nat \X Nat : ss[1] < ss[2]}
<1>1. IsWellFoundedOn(R, Nat)
  BY NatLessThanWellFounded DEF OpToRel
<1>2. PICK x \in S : \A y \in S : ~ (<<y, x>> \in R)
  BY <1>1, WFMin
<1>3. \A y \in S : x <= y
  <2> SUFFICES ASSUME NEW y \in S PROVE x <= y
    OBVIOUS
  <2>1. y \in Nat /\ x \in Nat /\ <<y, x>>[1] = y /\ <<y, x>>[2] = x
    OBVIOUS
  <2>2. <<y, x>> \in Nat \X Nat /\ ~ (<<y, x>>[1] < <<y, x>>[2])
    BY <1>2, <2>1
  <2> QED
    BY <2>1, <2>2
<1> QED
  BY <1>3

LEMMA SeqFields ==
  ASSUME NEW S, NEW s \in Seq(S)
  PROVE  /\ DOMAIN s = 1..Len(s) /\ Len(s) \in Nat /\ \A i \in DOMAIN s : s[i] \in S
         /\ W!Range(s) = {s[i] : i \in 1..Len(s)}
BY DEF W!Range

LEMMA AppendFields ==
  ASSUME NEW S, NEW s \in Seq(S), NEW e \in S
  PROVE  /\ Append(s, e) \in Seq(S) /\ Len(Append(s, e)) = Len(s) + 1
         /\ \A i \in 1..Len(s) : Append(s, e)[i] = s[i]
         /\ Append(s, e)[Len(s) + 1] = e
         /\ W!Range(Append(s, e)) = W!Range(s) \cup {e}
<1>1. /\ Append(s, e) \in Seq(S) /\ Len(Append(s, e)) = Len(s) + 1
      /\ \A i \in 1..Len(s) : Append(s, e)[i] = s[i]
      /\ Append(s, e)[Len(s) + 1] = e
  OBVIOUS
<1>2. Len(s) \in Nat /\ 1..(Len(s) + 1) = (1..Len(s)) \cup {Len(s) + 1}
  OBVIOUS
<1>3. W!Range(s) = {s[i] : i \in 1..Len(s)}
  BY SeqFields
<1>4. W!Range(Append(s, e)) = {Append(s, e)[i] : i \in 1..(Len(s) + 1)}
  BY <1>1, SeqFields
<1> QED
  BY <1>1, <1>2, <1>3, <1>4

LEMMA TailFields ==
  ASSUME NEW S, NEW s \in Seq(S), s # <<>>
  PROVE  /\ Tail(s) \in Seq(S) /\ Len(Tail(s)) = Len(s) - 1 /\ Len(s) \in Nat \ {0}
         /\ \A i \in 1..Len(Tail(s)) : Tail(s)[i] = s[i + 1] /\ i + 1 \in 1..Len(s)
         /\ Head(s) = s[1] /\ 1 \in 1..Len(s) /\ Head(s) \in S
OBVIOUS

-----------------------------------------------------------------------------
(* The order of the steps *)

\* Steps in an order in which each comes after what it depends on contain no cycle: of a
\* cycle's steps the first would wait for a later one.
LEMMA OrderedIsAcyclic ==
  ASSUME W!Shape, W!Ordered, runSteps = W!Range(sorted)
  PROVE  ~ W!Circular
<1> SUFFICES ASSUME NEW Cyc \in SUBSET runSteps, Cyc # {}, \A s \in Cyc : deps[s] \cap Cyc # {}
             PROVE  FALSE
  BY DEF W!Circular
<1>1. sorted \in Seq(runSteps)
  BY DEF W!Shape
<1>2. Len(sorted) \in Nat /\ runSteps = {sorted[i] : i \in 1..Len(sorted)}
  BY <1>1, SeqFields
<1> DEFINE Places == {i \in 1..Len(sorted) : sorted[i] \in Cyc}
<1>3. PICK i \in Places : \A j \in Places : i <= j
  <2>1. Places \in SUBSET Nat /\ Places # {}
    BY <1>2
  <2> QED
    BY <2>1, LeastOfSet
<1>4. PICK t \in Cyc : t \in deps[sorted[i]]
  BY <1>3
<1>5. PICK j \in 1..Len(sorted) : sorted[j] = t
  BY <1>2, <1>4
<1>6. i <= j
  BY <1>3, <1>4, <1>5
<1> QED
  BY <1>3, <1>4, <1>5, <1>6 DEF W!Ordered

LEMMA SortInit == ASSUME W!Init PROVE W!SortInv
<1>1. PICK D \in (SUBSET Steps) \ {{}} : deps \in [D -> SUBSET Steps]
  BY DEF W!Init
<1>2. W!Defined = D
  BY <1>1 DEF W!Defined
<1>3. /\ runSteps = IF entry = "" THEN D ELSE {}
      /\ pending = IF entry = "" THEN {} ELSE {entry}
  BY <1>2 DEF W!Init, W!getRunSteps
<1>4. pending \subseteq Steps /\ runSteps \subseteq D
  <2>1. entry = "" \/ entry \in Steps
    BY DEF W!Init
  <2>2. CASE entry = ""
    BY <1>3, <2>2
  <2>3. CASE entry # ""
    BY <1>3, <2>1, <2>3
  <2> QED
    BY <2>2, <2>3
<1>5. W!Shape
  <2>1. unsorted = {} /\ pass = {} /\ sorted = <<>> /\ phase = "collect"
    BY DEF W!Init
  <2>2. deps \in [W!Defined -> SUBSET Steps] /\ W!Defined \subseteq Steps
    BY <1>1, <1>2
  <2> QED
    BY <1>2, <1>4, <2>1, <2>2 DEF W!Shape
<1>6. W!CollectedByNeed
  BY <1>2, <1>3 DEF W!Init, W!CollectedByNeed
<1> QED
  BY <1>5, <1>6 DEF W!Init, W!SortInv, W!CyclesAreRefused, W!After

LEMMA SortCollect ==
  ASSUME W!SortInv, NEW s \in Steps, W!recursiveGetRunSteps(s) PROVE W!SortInv'
<1> USE DEF W!SortInv
<1>1. /\ phase = "collect" /\ s \in pending
      /\ UNCHANGED <<deps, entry, unsorted, pass, moved, sorted, phase>>
  BY DEF W!recursiveGetRunSteps, W!given, W!sorting
<1>2. W!Defined' = W!Defined
  BY <1>1 DEF W!Defined
<1>3. CASE s \in W!Defined \ runSteps
  <2>1. runSteps' = runSteps \cup {s} /\ pending' = (pending \ {s}) \cup (deps[s] \ {s})
    BY <1>3 DEF W!recursiveGetRunSteps
  <2>2. deps[s] \subseteq Steps
    BY <1>3 DEF W!Shape
  <2>3. sorted = <<>>
    BY <1>1
  <2>4. W!Shape'
    BY <1>1, <1>2, <1>3, <2>1, <2>2, <2>3 DEF W!Shape
  <2>5. W!CollectedByNeed'
    BY <1>1, <1>2, <1>3, <2>1 DEF W!CollectedByNeed
  <2> QED
    BY <1>1, <2>4, <2>5 DEF W!CyclesAreRefused, W!After
<1>4. CASE s \notin W!Defined \ runSteps
  <2>1. runSteps' = runSteps /\ pending' = pending \ {s}
    BY <1>4 DEF W!recursiveGetRunSteps
  <2>4. W!Shape'
    BY <1>1, <1>2, <2>1 DEF W!Shape
  <2>5. W!CollectedByNeed'
    BY <1>1, <1>2, <1>4, <2>1 DEF W!CollectedByNeed
  <2> QED
    BY <1>1, <2>4, <2>5 DEF W!CyclesAreRefused, W!After
<1> QED
  BY <1>3, <1>4

LEMMA SortValidate == ASSUME W!SortInv, W!Validate PROVE W!SortInv'
<1> USE DEF W!SortInv
<1>1. /\ phase = "collect" /\ pending = {} /\ phase' \in {"sort", "refused"}
      /\ unsorted' = runSteps /\ pass' = runSteps
      /\ UNCHANGED <<deps, entry, runSteps, pending, moved, sorted>>
  BY DEF W!Validate, W!given
<1>2. W!Defined' = W!Defined /\ sorted = <<>> /\ W!Range(sorted) = {} /\ Len(sorted) = 0
  BY <1>1 DEF W!Defined, W!Range
<1>3. W!Shape'
  BY <1>1, <1>2 DEF W!Shape
<1>4. W!CollectedByNeed'
  BY <1>1, <1>2 DEF W!CollectedByNeed
<1>5. W!Ordered'
  BY <1>1, <1>2 DEF W!Ordered
<1>6. W!Sorting'
  BY <1>1, <1>2 DEF W!Sorting, W!Range
<1> QED
  BY <1>1, <1>3, <1>4, <1>5, <1>6 DEF W!CyclesAreRefused, W!After

\* A step that moves to the result depends on nothing that is left, so on nothing that is sorted
\* after it; a step that stays waits for one that is left.
LEMMA SortVisit ==
  ASSUME W!SortInv, NEW s \in Steps, W!VisitNode(s) PROVE W!SortInv'
<1> USE DEF W!SortInv
<1>1. /\ phase \in {"sort", "again"} /\ s \in pass /\ pass' = pass \ {s}
      /\ UNCHANGED <<deps, entry, runSteps, pending, phase>>
  BY DEF W!VisitNode, W!given, W!After
<1>2. W!Defined' = W!Defined
  BY <1>1 DEF W!Defined
<1>3. W!Shape /\ W!Ordered /\ W!Sorting
  BY <1>1 DEF W!After
<1>4. W!CollectedByNeed'
  BY <1>1, <1>2 DEF W!CollectedByNeed
<1>5. W!CyclesAreRefused' /\ (phase' = "again" => ~ W!Circular')
  BY <1>1 DEF W!CyclesAreRefused, W!Circular
<1>6. s \in unsorted /\ s \in runSteps /\ sorted \in Seq(runSteps)
  BY <1>1, <1>3 DEF W!Shape
<1>7. CASE W!Resolved(s)
  <2>1. unsorted' = unsorted \ {s} /\ sorted' = Append(sorted, s) /\ moved'
    BY <1>7 DEF W!VisitNode
  <2>2. deps[s] \cap unsorted = {}
    BY <1>7 DEF W!Resolved
  <2>3. /\ sorted' \in Seq(runSteps) /\ Len(sorted') = Len(sorted) + 1
        /\ \A i \in 1..Len(sorted) : sorted'[i] = sorted[i]
        /\ sorted'[Len(sorted) + 1] = s
        /\ W!Range(sorted') = W!Range(sorted) \cup {s}
    BY <1>6, <2>1, AppendFields
  <2>4. Len(sorted) \in Nat /\ W!Range(sorted) = {sorted[i] : i \in 1..Len(sorted)}
    BY <1>6, SeqFields
  <2>5. \A i \in 1..Len(sorted') : i \in 1..Len(sorted) \/ i = Len(sorted) + 1
    BY <2>3, <2>4
  <2>6. W!Shape'
    BY <1>1, <1>2, <1>3, <2>1, <2>3 DEF W!Shape
  <2>7. \A i \in 1..Len(sorted) : sorted[i] # s /\ s \notin deps[sorted[i]] /\ sorted[i] \notin unsorted
    BY <1>3, <1>6, <2>4 DEF W!Sorting
  <2>8. s \notin deps[s]
    BY <1>6, <2>2
  <2>9. W!Ordered'
    <3>1. ASSUME NEW i \in 1..Len(sorted'), NEW j \in 1..Len(sorted'), i <= j
          PROVE  sorted'[j] \notin deps'[sorted'[i]]
      <4>1. CASE j \in 1..Len(sorted)
        <5>1. i \in 1..Len(sorted)
          BY <2>3, <2>4, <3>1, <4>1
        <5> QED
          BY <1>1, <1>3, <2>3, <3>1, <4>1, <5>1 DEF W!Ordered
      <4>2. CASE j = Len(sorted) + 1
        BY <1>1, <2>3, <2>5, <2>7, <2>8, <4>2
      <4> QED
        BY <2>5, <4>1, <4>2
    <3>2. ASSUME NEW i \in 1..Len(sorted'), NEW j \in 1..Len(sorted'), i # j
          PROVE  sorted'[i] # sorted'[j]
      <4>1. CASE i \in 1..Len(sorted) /\ j \in 1..Len(sorted)
        BY <1>3, <2>3, <3>2, <4>1 DEF W!Ordered
      <4>2. CASE i = Len(sorted) + 1
        BY <2>3, <2>5, <2>7, <3>2, <4>2
      <4>3. CASE j = Len(sorted) + 1
        BY <2>3, <2>5, <2>7, <3>2, <4>3
      <4> QED
        BY <2>5, <4>1, <4>2, <4>3
    <3> QED
      BY <3>1, <3>2 DEF W!Ordered
  <2>10. W!Sorting'
    <3>1. unsorted' = runSteps' \ W!Range(sorted')
      BY <1>1, <1>3, <2>1, <2>3 DEF W!Sorting
    <3>2. \A i \in 1..Len(sorted') : deps'[sorted'[i]] \cap unsorted' = {}
      BY <1>1, <1>3, <2>1, <2>2, <2>3, <2>5 DEF W!Sorting
    <3> QED
      BY <2>1, <3>1, <3>2 DEF W!Sorting
  <2> QED
    BY <1>1, <1>4, <1>5, <2>6, <2>9, <2>10
<1>8. CASE ~ W!Resolved(s)
  <2>1. UNCHANGED <<unsorted, sorted, moved>>
    BY <1>8 DEF W!VisitNode
  <2>2. W!Shape'
    BY <1>1, <1>2, <1>3, <2>1 DEF W!Shape
  <2>3. W!Ordered'
    BY <1>1, <1>3, <2>1 DEF W!Ordered
  <2>4. W!Sorting'
    BY <1>1, <1>3, <1>8, <2>1 DEF W!Sorting, W!Resolved
  <2> QED
    BY <1>1, <1>4, <1>5, <2>2, <2>3, <2>4
<1> QED
  BY <1>7, <1>8

\* A pass that moves nothing leaves steps each of which waits for another of them.
LEMMA SortEndPass == ASSUME W!SortInv, W!EndPass PROVE W!SortInv'
<1> USE DEF W!SortInv
<1>1. /\ phase \in {"sort", "again"} /\ pass = {} /\ pass' = unsorted /\ ~ moved'
      /\ UNCHANGED <<deps, entry, runSteps, pending, unsorted, sorted>>
  BY DEF W!EndPass, W!given, W!After
<1>2. W!Defined' = W!Defined
  BY <1>1 DEF W!Defined
<1>3. W!Shape /\ W!Ordered /\ W!Sorting
  BY <1>1 DEF W!After
<1>4. \/ unsorted = {} /\ (phase = "sort" => phase' = "override") /\ (phase = "again" => phase' = "build")
      \/ unsorted # {} /\ moved /\ phase' = phase
      \/ unsorted # {} /\ ~ moved /\ phase' = "cyclic"
  <2>1. W!After["sort"] = "override" /\ W!After["again"] = "build"
    BY DEF W!After
  <2> QED
    BY <1>1, <2>1 DEF W!EndPass
<1>5. W!CollectedByNeed'
  BY <1>1, <1>2 DEF W!CollectedByNeed
<1>6. W!Ordered'
  BY <1>1, <1>3 DEF W!Ordered
<1>7. W!Circular' <=> W!Circular
  BY <1>1 DEF W!Circular
<1>8. W!Shape'
  BY <1>1, <1>2, <1>3, <1>4 DEF W!Shape
<1>9. W!Sorting'
  BY <1>1, <1>3 DEF W!Sorting
<1>10. CASE unsorted = {}
  <2>1. runSteps = W!Range(sorted)
    <3>1. sorted \in Seq(runSteps)
      BY <1>3 DEF W!Shape
    <3>2. Len(sorted) \in Nat /\ W!Range(sorted) \subseteq runSteps
      BY <3>1, SeqFields
    <3> QED
      BY <1>3, <1>10, <3>2 DEF W!Sorting
  <2>2. ~ W!Circular
    BY <1>3, <2>1, OrderedIsAcyclic
  <2> QED
    BY <1>1, <1>4, <1>5, <1>6, <1>7, <1>8, <1>10, <2>1, <2>2 DEF W!CyclesAreRefused, W!After
<1>11. CASE unsorted # {} /\ moved
  BY <1>1, <1>4, <1>5, <1>6, <1>7, <1>8, <1>9, <1>11 DEF W!CyclesAreRefused, W!After
<1>12. CASE unsorted # {} /\ ~ moved
  <2>1. W!Circular
    BY <1>1, <1>3, <1>12 DEF W!Circular, W!Sorting, W!Resolved, W!Shape
  <2> QED
    BY <1>4, <1>5, <1>7, <1>8, <1>12, <2>1 DEF W!CyclesAreRefused, W!After
<1> QED
  BY <1>10, <1>11, <1>12

LEMMA SortAgain == ASSUME W!SortInv, W!newWorkflowRuntime PROVE W!SortInv'
<1> USE DEF W!SortInv
<1>1. /\ phase = "check" /\ phase' = "again" /\ unsorted' = runSteps /\ pass' = runSteps /\ sorted' = <<>>
      /\ UNCHANGED <<deps, entry, runSteps, pending>>
  BY DEF W!newWorkflowRuntime, W!given
<1>2. W!Defined' = W!Defined /\ W!Range(sorted') = {} /\ Len(sorted') = 0
  BY <1>1 DEF W!Defined, W!Range
<1>3. W!Shape'
  BY <1>1, <1>2 DEF W!Shape
<1>4. W!CollectedByNeed'
  BY <1>1, <1>2 DEF W!CollectedByNeed
<1>5. W!Ordered' /\ W!Sorting'
  BY <1>1, <1>2 DEF W!Ordered, W!Sorting
<1>6. ~ W!Circular'
  BY <1>1 DEF W!CyclesAreRefused, W!Circular
<1> QED
  BY <1>1, <1>3, <1>4, <1>5, <1>6 DEF W!CyclesAreRefused, W!After

\* The steps that neither collect nor sort: the order stays, or its first step leaves it.
LEMMA SortRest ==
  ASSUME W!SortInv, UNCHANGED <<deps, entry, runSteps, pending, unsorted, pass>>,
         \/ sorted' = sorted /\ phase' = phase /\ moved' = moved
         \/ sorted' = sorted /\ phase = "override" /\ phase' \in {"check", "refused"}
         \/ sorted' = sorted /\ phase = "check" /\ phase' = "refused"
         \/ sorted' = sorted /\ phase = "build" /\ phase' \in {"ready", "refused"}
         \/ sorted # <<>> /\ sorted' = Tail(sorted) /\ phase = "build" /\ phase' = "build"
  PROVE  W!SortInv'
<1> USE DEF W!SortInv
<1>1. W!Defined' = W!Defined
  BY DEF W!Defined
<1>2. W!CollectedByNeed'
  <2>1. phase' = "collect" => phase = "collect"
    OBVIOUS
  <2> QED
    BY <1>1, <2>1 DEF W!CollectedByNeed
<1>3. W!Circular' <=> W!Circular
  BY DEF W!Circular
<1>4. sorted \in Seq(runSteps)
  BY DEF W!Shape
<1>5. W!Shape'
  <2>1. sorted' \in Seq(runSteps)
    BY <1>4, TailFields
  <2> QED
    BY <1>1, <2>1 DEF W!Shape
<1>6. ASSUME W!Ordered PROVE W!Ordered'
  <2>1. CASE sorted' = sorted
    BY <1>6, <2>1 DEF W!Ordered
  <2>2. CASE sorted # <<>> /\ sorted' = Tail(sorted)
    <3>1. /\ \A i \in 1..Len(sorted') : sorted'[i] = sorted[i + 1] /\ i + 1 \in 1..Len(sorted)
          /\ Len(sorted') = Len(sorted) - 1 /\ Len(sorted) \in Nat \ {0}
      BY <1>4, <2>2, TailFields
    <3>2. \A i, j \in 1..Len(sorted') : (i <= j => i + 1 <= j + 1) /\ (i # j => i + 1 # j + 1)
      BY <3>1
    <3> QED
      BY <1>6, <3>1, <3>2 DEF W!Ordered
  <2> QED
    BY <2>1, <2>2
<1>7. CASE sorted' = sorted /\ phase' = phase /\ moved' = moved
  <2>1. W!Sorting => W!Sorting'
    BY <1>7 DEF W!Sorting, W!Resolved
  <2> QED
    BY <1>2, <1>3, <1>5, <1>6, <1>7, <2>1 DEF W!CyclesAreRefused, W!After
<1>8. CASE phase \in {"override", "check", "build"} /\ phase' # phase
  BY <1>2, <1>3, <1>5, <1>6, <1>8 DEF W!CyclesAreRefused, W!After
<1>9. CASE phase = "build" /\ phase' = "build"
  BY <1>2, <1>3, <1>5, <1>6, <1>9 DEF W!CyclesAreRefused, W!After
<1> QED
  BY <1>7, <1>8, <1>9

LEMMA SortNext == ASSUME W!SortInv, W!Next PROVE W!SortInv'
<1>1. ASSUME NEW s \in Steps, W!recursiveGetRunSteps(s) PROVE W!SortInv'
  BY <1>1, SortCollect
<1>2. ASSUME NEW s \in Steps, W!VisitNode(s) PROVE W!SortInv'
  BY <1>2, SortVisit
<1>3. ASSUME NEW s \in Steps, W!checkSteps(s) PROVE W!SortInv'
  BY <1>3, SortRest DEF W!checkSteps, W!given, W!sorting
<1>4. ASSUME NEW s \in Steps, W!NewStep(s) PROVE W!SortInv'
  BY <1>4, SortRest DEF W!NewStep, W!given
<1>5. CASE W!Validate
  BY <1>5, SortValidate
<1>6. CASE W!EndPass
  BY <1>6, SortEndPass
<1>7. CASE W!replaceRunParam
  BY <1>7, SortRest DEF W!replaceRunParam, W!given, W!sorting
<1>8. CASE W!newWorkflowRuntime
  BY <1>8, SortAgain
<1>9. CASE W!NewWorkflow
  BY <1>9, SortRest DEF W!NewWorkflow, W!given, W!sorting
<1> QED
  BY <1>1, <1>2, <1>3, <1>4, <1>5, <1>6, <1>7, <1>8, <1>9 DEF W!Next

\* The steps are sorted after what they depend on, they are those the entry needs, and a workflow
\* is refused as cyclic exactly when those contain a cycle, in whatever order Go visits its maps
\* (getRunSteps(), topologicalSort()).
THEOREM StepsAreSorted == Spec => []SortIsSound
<1> DEFINE Inv == which = "source" => W!SortInv
<1>1. Init => Inv
  BY SortInit DEF Init
<1>2. Inv /\ [Next]_all => Inv'
  <2> SUFFICES ASSUME Inv, [Next]_all PROVE Inv'
    OBVIOUS
  <2>1. CASE UNCHANGED all
    <3>1. UNCHANGED which /\ UNCHANGED <<deps, entry, runSteps, pending, unsorted, pass, moved, sorted, phase>>
      BY <2>1 DEF all
    <3> QED
      BY <3>1, SortRest
  <2>2. CASE which = "source" /\ W!Next /\ UNCHANGED which
    BY <2>2, SortNext
  <2>3. CASE which # "source" /\ UNCHANGED which
    BY <2>3
  <2> QED
    BY <2>1, <2>2, <2>3 DEF Next
<1>3. Inv => SortIsSound
  <2> SUFFICES ASSUME W!SortInv PROVE W!SortIsSound
    BY DEF SortIsSound
  <2>1. phase \in {"override", "build"} => W!Ordered /\ pending = {}
    BY DEF W!SortInv, W!After, W!CollectedByNeed
  <2> QED
    BY <2>1 DEF W!SortInv, W!SortIsSound, W!SortedByNeed, W!Ordered, W!CollectedByNeed
<1> QED
  BY <1>1, <1>2, <1>3, PTL DEF Spec

-----------------------------------------------------------------------------
(* The parameters *)

\* The solver's recursion has a solution as soon as one is shown; it is then one of them.
Solves(f, s, known, replace) == f = [x \in known |-> W!checkParamValue(known, s, x, replace, f)]

LEMMA SolveIsSolution ==
  ASSUME NEW s, NEW known, NEW replace, NEW g, Solves(g, s, known, replace)
  PROVE  \E f : Solves(f, s, known, replace) /\ W!Solve(s, known, replace) = f[s]
<1> DEFINE value == CHOOSE f : Solves(f, s, known, replace)
<1>1. W!Solve(s, known, replace) = value[s]
  BY DEF W!Solve, Solves
<1>2. Solves(value, s, known, replace)
  OBVIOUS
<1> HIDE DEF value
<1> QED
  BY <1>1, <1>2

\* What the solver makes of one parameter, by its kind (checkParamValue(), resolveRefParam()), when
\* nothing is replaced and when the values are.
Missing(known, x) == source[x].step \notin deps[x] \cap known \/ source[source[x].step] = W!None

ValueChecked(known, me, x, f) == W!checkParamValue(known, me, x, FALSE, f)
ValueBuilt(known, me, x, f) == W!checkParamValue(known, me, x, TRUE, f)

LEMMA CheckRule ==
  ASSUME NEW known, NEW me, NEW x, NEW f
  PROVE  /\ source[x].kind = "ref" => ValueChecked(known, me, x, f) =
                                        IF Missing(known, x) THEN W!Error
                                        ELSE IF f[source[x].step] # W!Error THEN source[x] ELSE f[source[x].step]
         /\ source[x].kind # "ref" => ValueChecked(known, me, x, f) = W!Plain(source[x])
<1> DEFINE v == source[x]
           value == ValueChecked(known, me, x, f)
<1>1. value = IF v.kind = "dict" THEN v.default
              ELSE IF v.kind # "ref" THEN v
              ELSE IF Missing(known, x) THEN W!Error
              ELSE IF f[v.step] # W!Error THEN v ELSE f[v.step]
  BY DEF ValueChecked, W!checkParamValue, W!resolveRefParam, W!checkDictParam, W!refParamExist, Missing
<1> HIDE DEF value
<1>2. /\ v.kind = "ref" => value = IF Missing(known, x) THEN W!Error
                                   ELSE IF f[v.step] # W!Error THEN v ELSE f[v.step]
      /\ v.kind # "ref" => value = W!Plain(v)
  BY <1>1 DEF W!Plain
<1> QED
  BY <1>2 DEF value

LEMMA BuildRule ==
  ASSUME NEW known, NEW me, NEW x, NEW f
  PROVE  /\ source[x].kind = "ref" => ValueBuilt(known, me, x, f) =
                                        IF Missing(known, x) THEN W!Error ELSE f[source[x].step]
         /\ source[x].kind = "sys" => ValueBuilt(known, me, x, f) = W!Lit(me)
         /\ source[x].kind # "ref" /\ source[x].kind # "sys" =>
               ValueBuilt(known, me, x, f) = W!Plain(source[x])
<1> DEFINE v == source[x]
           value == ValueBuilt(known, me, x, f)
<1>1. value = IF v.kind = "dict" THEN v.default
              ELSE IF v.kind = "sys" THEN W!Lit(me)
              ELSE IF v.kind # "ref" THEN v
              ELSE IF Missing(known, x) THEN W!Error ELSE f[v.step]
  BY DEF ValueBuilt, W!checkParamValue, W!resolveRefParam, W!checkDictParam, W!refParamExist, Missing
<1> HIDE DEF value
<1>2. /\ v.kind = "ref" => value = IF Missing(known, x) THEN W!Error ELSE f[v.step]
      /\ v.kind = "sys" => value = W!Lit(me)
      /\ v.kind # "ref" /\ v.kind # "sys" => value = W!Plain(v)
  BY <1>1 DEF W!Plain
<1> QED
  BY <1>2 DEF value

\* The values a yaml may hold.
LEMMA ValueKinds ==
  ASSUME NEW v \in W!Written \cup {W!None}
  PROVE  /\ v.kind \in {"dict", "sys", "lit", "ref", "none"} /\ v # W!Error
         /\ W!Plain(v) \in W!Plains \cup {W!None} /\ W!Plain(v).kind \in {"sys", "lit", "ref", "none"}
         /\ v.kind = "dict" => v.default = W!Plain(v)
         /\ v.kind # "dict" => W!Plain(v) = v
         /\ W!Plain(v) = W!None <=> v = W!None
         /\ W!Plain(v) # W!Error
         /\ v.kind = "none" => v = W!None
<1>1. ASSUME NEW p \in W!Plains
      PROVE  p.kind \in {"sys", "lit", "ref"} /\ p # W!None /\ p # W!Error /\ W!Plain(p) = p
  <2>1. p = W!Sys \/ p \in [kind : {"lit", "ref"}, step : Steps \cup {""}]
    BY DEF W!Plains
  <2>2. p.kind \in {"sys", "lit", "ref"}
    <3>1. W!Sys.kind = "sys"
      BY DEF W!Sys
    <3>2. \A r \in [kind : {"lit", "ref"}, step : Steps \cup {""}] : r.kind \in {"lit", "ref"}
      OBVIOUS
    <3> QED
      BY <2>1, <3>1, <3>2
  <2> QED
    BY <2>2 DEF W!None, W!Error, W!Plain
<1>2. W!None.kind = "none" /\ W!Plain(W!None) = W!None /\ W!None # W!Error
  BY DEF W!None, W!Plain, W!Error
<1>3. ASSUME NEW p \in W!Plains, v = W!Dict(p)
      PROVE  v.kind = "dict" /\ v.default = p /\ W!Plain(v) = p
  BY <1>3 DEF W!Dict, W!Plain
<1>4. v \in W!Plains \/ v = W!None \/ \E p \in W!Plains : v = W!Dict(p)
  BY DEF W!Written
<1>5. CASE v \in W!Plains
  BY <1>1, <1>5
<1>6. CASE v = W!None
  BY <1>2, <1>6
<1>7. CASE \E p \in W!Plains : v = W!Dict(p)
  <2>1. PICK p \in W!Plains : v = W!Dict(p)
    BY <1>7
  <2>2. v.kind = "dict" /\ v.default = p /\ W!Plain(v) = p
    BY <1>3, <2>1
  <2> QED
    BY <1>1, <1>2, <2>2 DEF W!Error
<1> QED
  BY <1>4, <1>5, <1>6, <1>7

\* A reference the solver follows in vain.
Dangling(known, x) == source[x].kind = "ref" /\ Missing(known, x)

\* One it follows to a step of the run whose value is an error.
Waits(f, x) == /\ source[x].step \in deps[x] /\ source[x].step \in runSteps
               /\ f[source[x].step] = W!Error

\* checkSteps() asks for the value of a step when nothing is replaced: it gets what is written, or
\* an error, and for an error some step's reference is broken.
LEMMA CheckSolve ==
  ASSUME W!SortInv, W!ParamInv, phase = "check", NEW s \in runSteps
  PROVE  /\ W!Solve(s, runSteps, FALSE) = W!Error => \E t \in runSteps : W!Broken(t)
         /\ W!Solve(s, runSteps, FALSE) # W!Error => W!Solve(s, runSteps, FALSE) = W!Plain(source[s])
<1>1. /\ source \in [W!Defined -> W!Written \cup {W!None}] /\ runSteps \subseteq W!Defined
      /\ \A x \in runSteps : source[x] = asked[x] \/ source[x] = W!Plain(asked[x])
      /\ asked \in [W!Defined -> W!Written \cup {W!None}]
  BY DEF W!SortInv, W!Shape, W!ParamInv, W!CheckedInv
<1>2. ~ W!Circular /\ \A x \in runSteps : deps[x] \cap W!Defined \subseteq runSteps
  BY DEF W!SortInv, W!CyclesAreRefused, W!CollectedByNeed
<1>3. \A x \in runSteps :
         /\ source[x].kind \in {"dict", "sys", "lit", "ref", "none"} /\ source[x] # W!Error
         /\ source[x].kind = "dict" => source[x].default = W!Plain(source[x])
         /\ source[x].kind # "dict" => W!Plain(source[x]) = source[x]
         /\ W!Plain(source[x]) # W!Error
  BY <1>1, ValueKinds
<1> DEFINE F(X) == {x \in runSteps : Dangling(runSteps, x) \/ (source[x].kind = "ref" /\ source[x].step \in X)}
           B == UNION {X \in SUBSET runSteps : X \subseteq F(X)}
           g == [x \in runSteps |-> IF x \in B THEN W!Error ELSE W!Plain(source[x])]
           rule(f, x) == ValueChecked(runSteps, s, x, f)
<1>4. F(B) = B /\ B \subseteq runSteps
  <2>1. B \subseteq runSteps /\ B \subseteq F(B)
    OBVIOUS
  <2>2. F(B) \in SUBSET runSteps /\ F(B) \subseteq F(F(B))
    BY <2>1
  <2>3. F(B) \subseteq B
    BY <2>2
  <2> QED
    BY <2>1, <2>3
<1>5. \A x \in runSteps : x \in B <=> Dangling(runSteps, x) \/ (source[x].kind = "ref" /\ source[x].step \in B)
  <2> HIDE DEF B
  <2> QED
    BY <1>4
<1> HIDE DEF F, B
<1>6. \A x \in runSteps : g[x] = rule(g, x)
  <2> SUFFICES ASSUME NEW x \in runSteps PROVE g[x] = rule(g, x)
    OBVIOUS
  <2>1. \A y \in runSteps : g[y] = W!Error <=> y \in B
    BY <1>3
  <2>2. g[x] = IF x \in B THEN W!Error ELSE W!Plain(source[x])
    OBVIOUS
  <2> HIDE DEF g
  <2>3. CASE source[x].kind = "ref"
    <3>1. rule(g, x) = IF Missing(runSteps, x) THEN W!Error
                       ELSE IF g[source[x].step] # W!Error THEN source[x] ELSE g[source[x].step]
      BY <2>3, CheckRule
    <3>2. CASE Dangling(runSteps, x)
      BY <1>5, <2>2, <3>1, <3>2 DEF Dangling
    <3>3. CASE ~ Dangling(runSteps, x)
      <4>1. source[x].step \in runSteps /\ (x \in B <=> source[x].step \in B)
        BY <1>5, <2>3, <3>3 DEF Dangling, Missing
      <4>2. rule(g, x) = IF g[source[x].step] # W!Error THEN source[x] ELSE W!Error
        BY <2>3, <3>1, <3>3 DEF Dangling
      <4>3. W!Plain(source[x]) = source[x]
        BY <1>3, <2>3
      <4> HIDE DEF rule
      <4> QED
        BY <2>1, <2>2, <4>1, <4>2, <4>3
    <3> QED
      BY <3>2, <3>3
  <2>4. CASE source[x].kind # "ref"
    <3>1. x \notin B
      BY <1>5, <2>4 DEF Dangling
    <3>2. rule(g, x) = W!Plain(source[x])
      BY <2>4, CheckRule
    <3> QED
      BY <2>2, <3>1, <3>2
  <2> QED
    BY <2>3, <2>4
<1>7. g = [x \in runSteps |-> rule(g, x)]
  <2>1. g = [x \in runSteps |-> g[x]]
    OBVIOUS
  <2> HIDE DEF g, rule
  <2> QED
    BY <1>6, <2>1
<1> HIDE DEF g
<1>8. PICK f : Solves(f, s, runSteps, FALSE) /\ W!Solve(s, runSteps, FALSE) = f[s]
  <2>1. Solves(g, s, runSteps, FALSE)
    BY <1>7 DEF rule, ValueChecked, Solves
  <2> QED
    BY <2>1, SolveIsSolution, Zenon
<1>9. \A x \in runSteps : f[x] = rule(f, x)
  BY <1>8 DEF Solves, ValueChecked
<1>10. \A x \in runSteps :
          IF source[x].kind = "ref"
          THEN f[x] = source[x] \/ (f[x] = W!Error /\ (Dangling(runSteps, x) \/ Waits(f, x)))
          ELSE f[x] = W!Plain(source[x])
  <2> SUFFICES ASSUME NEW x \in runSteps
               PROVE  IF source[x].kind = "ref"
                      THEN f[x] = source[x] \/ (f[x] = W!Error /\ (Dangling(runSteps, x) \/ Waits(f, x)))
                      ELSE f[x] = W!Plain(source[x])
    OBVIOUS
  <2>1. CASE source[x].kind = "ref"
    <3>1. rule(f, x) = IF Missing(runSteps, x) THEN W!Error
                       ELSE IF f[source[x].step] # W!Error THEN source[x] ELSE f[source[x].step]
      BY <2>1, CheckRule
    <3> HIDE DEF rule
    <3>2. f[x] = rule(f, x)
      BY <1>9
    <3> QED
      BY <2>1, <3>1, <3>2 DEF Dangling, Missing, Waits
  <2>2. CASE source[x].kind # "ref"
    <3>1. rule(f, x) = W!Plain(source[x])
      BY <2>2, CheckRule
    <3> QED
      BY <1>9, <2>2, <3>1
  <2> QED
    BY <2>1, <2>2
<1>11. ASSUME f[s] = W!Error PROVE \E t \in runSteps : W!Broken(t)
  <2> DEFINE E == {x \in runSteps : f[x] = W!Error}
  <2>1. \A x \in E : source[x].kind = "ref" /\ source[x] # W!Error
    BY <1>3, <1>10
  <2>2. PICK t \in E : Dangling(runSteps, t)
    <3>1. E \in (SUBSET runSteps) \ {{}}
      BY <1>11
    <3>2. PICK t \in E : deps[t] \cap E = {}
      BY <1>2, <3>1 DEF W!Circular
    <3> QED
      BY <1>10, <2>1, <3>2 DEF Waits
  <2>3. source[t].kind = "ref" /\ t \in runSteps
    BY <2>1, <2>2
  <2>4. source[t] = W!Plain(asked[t])
    BY <1>1, <2>3, ValueKinds
  <2>5. ASSUME source[t].step \in deps[t] \cap W!Defined PROVE asked[source[t].step] = W!None
    <3>1. source[t].step \in runSteps
      BY <1>2, <2>3, <2>5
    <3>2. source[source[t].step] = W!None
      BY <2>2, <2>5, <3>1 DEF Dangling, Missing
    <3> QED
      BY <1>1, <3>1, <3>2, ValueKinds
  <2>6. W!Broken(t)
    BY <2>3, <2>4, <2>5 DEF W!Broken
  <2> QED
    BY <2>3, <2>6
<1> QED
  BY <1>3, <1>8, <1>10, <1>11

LEMMA ParamInit == ASSUME ValuesAssumption, W!Init PROVE W!ParamInv
<1>1. PICK D \in (SUBSET Steps) \ {{}} : deps \in [D -> SUBSET Steps] /\ yaml \in [D -> Values \cup {W!None}]
  BY DEF W!Init
<1>2. W!Defined = D /\ Values \subseteq W!Written
  BY <1>1 DEF W!Defined, ValuesAssumption
<1>3. source = yaml /\ asked = yaml /\ phase = "collect"
  BY DEF W!Init
<1>4. yaml \in [W!Defined -> W!Written \cup {W!None}]
  BY <1>1, <1>2
<1> QED
  BY <1>3, <1>4 DEF W!Init, W!ParamInv, W!CheckedInv, W!BuiltInv, W!OrderDecidesNothing

\* While the steps are collected and sorted nothing is written.
LEMMA ParamSort ==
  ASSUME W!ParamInv, UNCHANGED <<deps, yaml, entry, params, asked, source>>,
         phase \in {"collect", "sort"},
         \/ phase' \in {"collect", "sort", "override", "cyclic"}
         \/ phase' = "refused" /\ entry \notin {""} \cup W!Defined
  PROVE  W!ParamInv'
<1>1. W!Defined' = W!Defined
  BY DEF W!Defined
<1>2. W!CheckedInv'
  BY <1>1 DEF W!ParamInv, W!CheckedInv
<1>3. W!BuiltInv'
  BY DEF W!BuiltInv
<1>4. W!OrderDecidesNothing'
  BY <1>1 DEF W!OrderDecidesNothing
<1> QED
  BY <1>2, <1>3, <1>4 DEF W!ParamInv

\* Sorting them again writes nothing either; at its end no step is built.
LEMMA ParamSortAgain ==
  ASSUME W!ParamInv, UNCHANGED <<deps, params, asked, source, runSteps>>,
         phase = "again",
         \/ phase' \in {"again", "cyclic"}
         \/ phase' = "build" /\ runSteps' \subseteq W!Range(sorted')
  PROVE  W!ParamInv'
<1>1. W!Defined' = W!Defined
  BY DEF W!Defined
<1>2. W!CheckedInv'
  BY <1>1 DEF W!ParamInv, W!CheckedInv
<1>3. W!BuiltInv'
  <2>1. phase' = "build" => W!Built' = {}
    BY DEF W!Built
  <2>2. \A s \in runSteps' : source'[s] = W!Plain(asked'[s])
    BY DEF W!ParamInv, W!CheckedInv
  <2>3. phase' # "ready"
    OBVIOUS
  <2>4. CASE phase' = "build"
    BY <2>1, <2>2, <2>3, <2>4 DEF W!BuiltInv
  <2>5. CASE phase' # "build"
    BY <2>3, <2>5 DEF W!BuiltInv
  <2> QED
    BY <2>4, <2>5
<1>4. W!OrderDecidesNothing'
  BY DEF W!OrderDecidesNothing
<1> QED
  BY <1>2, <1>3, <1>4 DEF W!ParamInv

\* The run's parameter is written over one value of the yaml, or names none.
LEMMA ParamOverride ==
  ASSUME ValuesAssumption, W!SortInv, W!ParamInv, W!replaceRunParam
  PROVE  W!ParamInv'
<1>1. /\ phase = "override" /\ asked' = source' /\ phase' \in {"check", "refused"}
      /\ UNCHANGED <<deps, yaml, entry, params, runSteps>>
  BY DEF W!replaceRunParam, W!given
<1>2. W!Defined' = W!Defined
  BY <1>1 DEF W!Defined
<1>3. source \in [W!Defined -> W!Written \cup {W!None}] /\ source = yaml
  BY <1>1 DEF W!ParamInv, W!CheckedInv
<1>4. source' \in [W!Defined -> W!Written \cup {W!None}]
  <2>1. CASE source' = source
    BY <1>3, <2>1
  <2>2. CASE source' # source
    <3>1. PICK o \in params : \E s \in W!Holders(o) : source' = [source EXCEPT ![s] = o.val]
      BY <2>2 DEF W!replaceRunParam
    <3>2. o.val \in W!Written
      BY <3>1 DEF ValuesAssumption, W!ParamInv, W!CheckedInv
    <3> QED
      BY <1>3, <3>1, <3>2
  <2> QED
    BY <2>1, <2>2
<1>5. W!CheckedInv'
  BY <1>1, <1>2, <1>4 DEF W!ParamInv, W!CheckedInv, W!replaceRunParam
<1>6. W!BuiltInv'
  BY <1>1 DEF W!BuiltInv
<1>7. W!OrderDecidesNothing'
  <2>1. CASE phase' = "check"
    BY <2>1 DEF W!OrderDecidesNothing
  <2>2. CASE phase' = "refused"
    <3>1. PICK o \in params : W!Holders(o) = {}
      BY <2>2 DEF W!replaceRunParam
    <3>2. \A s \in W!Defined : o.step = s \/ o.step = "" => yaml[s] = W!None
      BY <1>3, <3>1 DEF W!Holders
    <3> QED
      BY <1>1, <1>2, <2>2, <3>2 DEF W!OrderDecidesNothing
  <2> QED
    BY <1>1, <2>1, <2>2
<1> QED
  BY <1>5, <1>6, <1>7 DEF W!ParamInv

\* A default is not a dictionary.
LEMMA PlainOnce ==
  ASSUME NEW v \in W!Written \cup {W!None} PROVE W!Plain(W!Plain(v)) = W!Plain(v)
<1>1. W!Plain(v).kind # "dict"
  BY ValueKinds
<1> QED
  BY <1>1 DEF W!Plain

\* Whether a reference is broken stays.
LEMMA BrokenStays ==
  ASSUME UNCHANGED <<deps, asked>>, NEW s PROVE W!Broken(s)' <=> W!Broken(s)
BY DEF W!Broken, W!Plain, W!Defined

LEMMA ParamCheck ==
  ASSUME W!SortInv, W!ParamInv, NEW s \in Steps, W!checkSteps(s) PROVE W!ParamInv'
<1>1. /\ phase = "check" /\ s \in todo
      /\ UNCHANGED <<deps, yaml, entry, params, asked, runSteps>>
  BY DEF W!checkSteps, W!given
<1>2. W!Defined' = W!Defined
  BY <1>1 DEF W!Defined
<1>3. /\ source \in [W!Defined -> W!Written \cup {W!None}] /\ asked \in [W!Defined -> W!Written \cup {W!None}]
      /\ s \in runSteps /\ runSteps \subseteq W!Defined
      /\ params \subseteq Overrides /\ todo \subseteq runSteps
      /\ \A x \in runSteps : source[x] = asked[x] \/ source[x] = W!Plain(asked[x])
      /\ \A x \in runSteps \ todo : source[x] = W!Plain(asked[x])
  BY <1>1 DEF W!ParamInv, W!CheckedInv, W!SortInv, W!Shape
<1>4. PICK v : v = W!Solve(s, runSteps, FALSE)
  OBVIOUS
<1>5. v = W!Error => \E t \in runSteps : W!Broken(t)
  BY <1>1, <1>3, <1>4, CheckSolve
<1>6. v # W!Error => v = W!Plain(source[s])
  BY <1>1, <1>3, <1>4, CheckSolve
<1>7. IF v = W!Error THEN phase' = "refused" /\ UNCHANGED <<source, todo>>
      ELSE source' = [source EXCEPT ![s] = v] /\ todo' = todo \ {s} /\ phase' = phase
  BY <1>4 DEF W!checkSteps
<1>8. W!BuiltInv'
  BY <1>1, <1>7 DEF W!BuiltInv
<1>9. CASE v = W!Error
  <2>1. phase' = "refused" /\ source' = source
    BY <1>7, <1>9
  <2>2. W!CheckedInv'
    BY <1>1, <1>2, <1>3, <2>1 DEF W!CheckedInv
  <2>3. PICK t \in runSteps : W!Broken(t)
    BY <1>5, <1>9
  <2>4. W!Broken(t)'
    BY <1>1, <2>3, BrokenStays
  <2>5. W!OrderDecidesNothing'
    BY <1>1, <2>1, <2>3, <2>4 DEF W!OrderDecidesNothing
  <2> QED
    BY <1>8, <2>2, <2>5 DEF W!ParamInv
<1>10. CASE v # W!Error
  <2>1. source' = [source EXCEPT ![s] = v] /\ todo' = todo \ {s} /\ phase' = "check"
    BY <1>1, <1>7, <1>10
  <2>2. v = W!Plain(asked[s]) /\ v \in W!Written \cup {W!None}
    <3>1. v = W!Plain(source[s])
      BY <1>6, <1>10
    <3>2. asked[s] \in W!Written \cup {W!None} /\ source[s] \in W!Written \cup {W!None}
      BY <1>3
    <3>3. W!Plain(W!Plain(asked[s])) = W!Plain(asked[s])
      BY <3>2, PlainOnce
    <3>4. W!Plain(source[s]) \in W!Plains \cup {W!None}
      BY <3>2, ValueKinds
    <3> QED
      BY <1>3, <3>1, <3>3, <3>4 DEF W!Written
  <2>3. source' \in [W!Defined -> W!Written \cup {W!None}]
    BY <1>3, <2>1, <2>2
  <2>4. \A x \in runSteps : source'[x] = IF x = s THEN v ELSE source[x]
    BY <1>3, <2>1
  <2>5. W!CheckedInv'
    BY <1>1, <1>2, <1>3, <2>1, <2>2, <2>3, <2>4 DEF W!CheckedInv, W!Plain
  <2>6. W!OrderDecidesNothing'
    BY <2>1 DEF W!OrderDecidesNothing
  <2> QED
    BY <1>8, <2>5, <2>6 DEF W!ParamInv
<1> QED
  BY <1>9, <1>10

\* All checked, the steps are sorted again.
LEMMA ParamAgain == ASSUME W!ParamInv, W!newWorkflowRuntime PROVE W!ParamInv'
<1>1. /\ phase = "check" /\ phase' = "again" /\ todo = {}
      /\ UNCHANGED <<deps, yaml, entry, params, asked, source, runSteps>>
  BY DEF W!newWorkflowRuntime, W!given
<1>2. W!Defined' = W!Defined
  BY <1>1 DEF W!Defined
<1> QED
  BY <1>1, <1>2 DEF W!ParamInv, W!CheckedInv, W!BuiltInv, W!OrderDecidesNothing

\* The next step of the order comes after its dependencies, which are built.
LEMMA NextToBuild ==
  ASSUME W!SortInv, phase = "build", sorted # <<>>, NEW s, s = Head(sorted)
  PROVE  /\ s \in runSteps /\ s \notin W!Built /\ W!Built \subseteq runSteps
         /\ s \notin deps[s] /\ deps[s] \cap W!Defined \subseteq W!Built
         /\ runSteps \ W!Range(Tail(sorted)) = W!Built \cup {s}
<1>1. /\ sorted \in Seq(runSteps) /\ runSteps \subseteq W!Defined
      /\ \A x \in runSteps : deps[x] \cap W!Defined \subseteq runSteps
  BY DEF W!SortInv, W!Shape, W!CollectedByNeed
<1>2. /\ \A i, j \in 1..Len(sorted) : i <= j => sorted[j] \notin deps[sorted[i]]
      /\ \A i, j \in 1..Len(sorted) : i # j => sorted[i] # sorted[j]
  BY DEF W!SortInv, W!Ordered
<1>3. /\ Tail(sorted) \in Seq(runSteps) /\ Len(Tail(sorted)) = Len(sorted) - 1 /\ Len(sorted) \in Nat \ {0}
      /\ \A i \in 1..Len(Tail(sorted)) : Tail(sorted)[i] = sorted[i + 1] /\ i + 1 \in 1..Len(sorted)
      /\ s = sorted[1] /\ 1 \in 1..Len(sorted) /\ s \in runSteps
  BY <1>1, TailFields
<1>4. /\ W!Range(sorted) = {sorted[i] : i \in 1..Len(sorted)}
      /\ W!Range(Tail(sorted)) = {Tail(sorted)[i] : i \in 1..Len(Tail(sorted))}
  BY <1>1, <1>3, SeqFields
<1>5. \A i \in 1..Len(sorted) : sorted[i] \notin deps[s]
  BY <1>2, <1>3
<1>6. s \notin W!Range(Tail(sorted))
  BY <1>2, <1>3, <1>4
<1>7. W!Range(sorted) = W!Range(Tail(sorted)) \cup {s}
  <2>1. \A i \in 1..Len(sorted) : i = 1 \/ (i - 1 \in 1..Len(Tail(sorted)) /\ (i - 1) + 1 = i)
    BY <1>3
  <2>2. \A i \in 1..Len(sorted) : sorted[i] \in W!Range(Tail(sorted)) \cup {s}
    BY <1>3, <1>4, <2>1
  <2>3. W!Range(Tail(sorted)) \cup {s} \subseteq W!Range(sorted)
    BY <1>3, <1>4
  <2> QED
    BY <1>4, <2>2, <2>3
<1> QED
  BY <1>1, <1>3, <1>4, <1>5, <1>6, <1>7 DEF W!Built

\* NewStep() asks for the value of the next step when the values are replaced: it gets what the
\* parameter stands for, or an error if its reference is broken, and only then.
LEMMA BuildSolve ==
  ASSUME W!SortInv, W!ParamInv, phase = "build", sorted # <<>>, NEW s, s = Head(sorted)
  PROVE  /\ W!updateJob(s) = W!Error => W!Broken(s)
         /\ W!updateJob(s) # W!Error =>
              /\ ~ W!Broken(s) /\ W!updateJob(s) = W!StandsFor(s)
              /\ W!updateJob(s).kind \in {"lit", "none"}
              /\ W!updateJob(s) = W!None <=> asked[s] = W!None
<1> DEFINE known == W!Built \cup {s}
           to == source[s].step
<1>1. /\ s \in runSteps /\ s \notin W!Built /\ W!Built \subseteq runSteps
      /\ s \notin deps[s] /\ deps[s] \cap W!Defined \subseteq W!Built
      /\ runSteps \ W!Range(Tail(sorted)) = known
  BY NextToBuild
<1>2. /\ asked \in [W!Defined -> W!Written \cup {W!None}] /\ runSteps \subseteq W!Defined
      /\ source[s] = W!Plain(asked[s])
      /\ \A x \in W!Built : /\ source[x].kind \in {"lit", "none"}
                            /\ source[x] = W!None <=> asked[x] = W!None
  BY <1>1 DEF W!ParamInv, W!CheckedInv, W!BuiltInv, W!SortInv, W!Shape
<1>3. /\ source[s].kind \in {"sys", "lit", "ref", "none"} /\ source[s] # W!Error
      /\ W!Plain(source[s]) = source[s]
      /\ source[s] = W!None <=> asked[s] = W!None
      /\ source[s].kind = "none" => source[s] = W!None
  <2>1. asked[s] \in W!Written \cup {W!None}
    BY <1>1, <1>2
  <2>2. /\ W!Plain(asked[s]).kind \in {"sys", "lit", "ref", "none"} /\ W!Plain(asked[s]) # W!Error
        /\ W!Plain(asked[s]) = W!None <=> asked[s] = W!None
        /\ W!Plain(asked[s]) \in W!Plains \cup {W!None}
    BY <2>1, ValueKinds
  <2>3. W!Plain(W!Plain(asked[s])) = W!Plain(asked[s])
    BY <2>1, PlainOnce
  <2>4. W!Plain(asked[s]).kind = "none" => W!Plain(asked[s]) = W!None
    <3>1. W!Plain(asked[s]) \in W!Written \cup {W!None}
      BY <2>2 DEF W!Written
    <3> QED
      BY <3>1, ValueKinds
  <2> QED
    BY <1>2, <2>2, <2>3, <2>4
<1>4. W!None.kind = "none" /\ W!Lit(s).kind = "lit" /\ W!Error.kind = "error" /\ W!None # W!Error
  BY DEF W!None, W!Lit, W!Error
<1>5. ASSUME NEW x \in W!Built, NEW f PROVE ValueBuilt(known, s, x, f) = source[x]
  <2>1. source[x].kind # "ref" /\ source[x].kind # "sys" /\ source[x].kind # "dict"
    BY <1>2
  <2>2. ValueBuilt(known, s, x, f) = W!Plain(source[x])
    BY <2>1, BuildRule
  <2> QED
    BY <2>1, <2>2 DEF W!Plain
<1>6. ASSUME NEW f
      PROVE  /\ source[s].kind = "ref" /\ Missing(known, s) => ValueBuilt(known, s, s, f) = W!Error
             /\ source[s].kind = "ref" /\ ~ Missing(known, s) => ValueBuilt(known, s, s, f) = f[to]
             /\ source[s].kind = "sys" => ValueBuilt(known, s, s, f) = W!Lit(s)
             /\ source[s].kind \in {"lit", "none"} => ValueBuilt(known, s, s, f) = source[s]
  <2>1. source[s].kind = "ref" => ValueBuilt(known, s, s, f) =
                                    IF Missing(known, s) THEN W!Error ELSE f[to]
    BY BuildRule
  <2>2. source[s].kind = "sys" => ValueBuilt(known, s, s, f) = W!Lit(s)
    BY BuildRule
  <2>3. source[s].kind # "ref" /\ source[s].kind # "sys" => ValueBuilt(known, s, s, f) = W!Plain(source[s])
    BY BuildRule
  <2> QED
    BY <1>3, <2>1, <2>2, <2>3
<1>7. ~ Missing(known, s) => to \in W!Built /\ to \in deps[s] /\ source[to] # W!None
  BY <1>1 DEF Missing
<1>8. source[s].kind = "ref" => (Missing(known, s) <=> W!Broken(s))
  <2>1. to \in deps[s] \cap W!Defined => (source[to] = W!None <=> asked[to] = W!None)
    BY <1>1, <1>2
  <2>2. to \in deps[s] \cap known <=> to \in deps[s] \cap W!Defined
    BY <1>1, <1>2
  <2> QED
    BY <1>2, <2>1, <2>2 DEF Missing, W!Broken
<1>9. source[s].kind # "ref" => ~ W!Broken(s)
  BY <1>2 DEF W!Broken
<1> HIDE DEF known
<1> DEFINE g == [x \in known |-> IF x = s THEN ValueBuilt(known, s, s, source) ELSE source[x]]
<1>10. \A x \in known : g[x] = ValueBuilt(known, s, x, g)
  <2>1. \A x \in W!Built : x \in known /\ g[x] = source[x]
    BY <1>1 DEF known
  <2>2. g[s] = ValueBuilt(known, s, s, source)
    BY DEF known
  <2> HIDE DEF g
  <2>3. \A x \in W!Built : g[x] = ValueBuilt(known, s, x, g)
    BY <1>5, <2>1
  <2>4. g[s] = ValueBuilt(known, s, s, g)
    <3>1. CASE source[s].kind = "ref" /\ ~ Missing(known, s)
      <4>1. ValueBuilt(known, s, s, source) = source[to] /\ ValueBuilt(known, s, s, g) = g[to]
        BY <1>6, <3>1
      <4> QED
        BY <1>7, <2>1, <2>2, <3>1, <4>1
    <3>2. CASE source[s].kind = "ref" /\ Missing(known, s)
      BY <1>6, <2>2, <3>2
    <3>3. CASE source[s].kind = "sys"
      BY <1>6, <2>2, <3>3
    <3>4. CASE source[s].kind \in {"lit", "none"}
      BY <1>6, <2>2, <3>4
    <3> QED
      BY <1>3, <3>1, <3>2, <3>3, <3>4
  <2> QED
    BY <2>3, <2>4 DEF known
<1>11. g = [x \in known |-> ValueBuilt(known, s, x, g)]
  <2>1. g = [x \in known |-> g[x]]
    OBVIOUS
  <2> HIDE DEF g
  <2> QED
    BY <1>10, <2>1
<1> HIDE DEF g
<1>12. PICK f : Solves(f, s, known, TRUE) /\ W!Solve(s, known, TRUE) = f[s]
  <2>1. Solves(g, s, known, TRUE)
    BY <1>11 DEF ValueBuilt, Solves
  <2> QED
    BY <2>1, SolveIsSolution, Zenon
<1>13. \A x \in known : f[x] = ValueBuilt(known, s, x, f)
  BY <1>12 DEF Solves, ValueBuilt
<1>14. PICK v : v = f[s]
  OBVIOUS
<1>15. W!updateJob(s) = v
  BY <1>1, <1>12, <1>14 DEF W!updateJob
<1>16. v = ValueBuilt(known, s, s, f) /\ \A x \in W!Built : f[x] = source[x]
  BY <1>5, <1>13, <1>14 DEF known
<1>17. CASE source[s].kind = "ref" /\ Missing(known, s)
  BY <1>6, <1>8, <1>15, <1>16, <1>17
<1>18. CASE source[s].kind = "ref" /\ ~ Missing(known, s)
  <2>1. v = source[to] /\ ~ W!Broken(s) /\ v # W!None /\ asked[s] # W!None
    BY <1>3, <1>4, <1>6, <1>7, <1>8, <1>16, <1>18
  <2>2. v.kind \in {"lit", "none"}
    BY <1>2, <1>7, <1>18, <2>1
  <2>3. v = W!StandsFor(s)
    BY <1>2, <1>18, <2>1 DEF W!StandsFor
  <2> QED
    BY <1>4, <1>15, <2>1, <2>2, <2>3
<1>19. CASE source[s].kind = "sys"
  <2>1. v = W!Lit(s) /\ W!Lit(s) = W!StandsFor(s)
    BY <1>2, <1>6, <1>16, <1>19 DEF W!StandsFor
  <2>2. asked[s] # W!None
    BY <1>3, <1>4, <1>19
  <2> QED
    BY <1>4, <1>9, <1>15, <1>19, <2>1, <2>2
<1>20. CASE source[s].kind \in {"lit", "none"}
  <2>1. v = source[s]
    BY <1>6, <1>16, <1>20
  <2>2. v = W!StandsFor(s)
    BY <1>2, <1>20, <2>1 DEF W!StandsFor
  <2> QED
    BY <1>3, <1>9, <1>15, <1>20, <2>1, <2>2
<1> QED
  BY <1>3, <1>17, <1>18, <1>19, <1>20

\* What a parameter stands for stays, when the one it refers to does.
LEMMA StandsForStays ==
  ASSUME NEW x, asked' = asked,
         W!Plain(asked[x]).kind = "ref" => source'[W!Plain(asked[x]).step] = source[W!Plain(asked[x]).step]
  PROVE  W!StandsFor(x)' = W!StandsFor(x)
BY DEF W!StandsFor

LEMMA ParamBuild ==
  ASSUME W!SortInv, W!ParamInv, NEW s \in Steps, W!NewStep(s) PROVE W!ParamInv'
<1>1. /\ phase = "build" /\ sorted # <<>> /\ s = Head(sorted)
      /\ UNCHANGED <<deps, yaml, entry, params, asked, runSteps>>
  BY DEF W!NewStep, W!given
<1>2. W!Defined' = W!Defined
  BY <1>1 DEF W!Defined
<1>3. PICK v : v = W!updateJob(s)
  OBVIOUS
<1>4. IF v = W!Error THEN phase' = "refused" /\ UNCHANGED <<source, sorted>>
      ELSE source' = [source EXCEPT ![s] = v] /\ sorted' = Tail(sorted) /\ phase' = phase
  BY <1>3 DEF W!NewStep
<1>5. /\ v = W!Error => W!Broken(s)
      /\ v # W!Error => /\ ~ W!Broken(s) /\ v = W!StandsFor(s) /\ v.kind \in {"lit", "none"}
                        /\ v = W!None <=> asked[s] = W!None
  BY <1>1, <1>3, BuildSolve
<1>6. /\ s \in runSteps /\ s \notin W!Built /\ W!Built \subseteq runSteps
      /\ s \notin deps[s] /\ deps[s] \cap W!Defined \subseteq W!Built
      /\ runSteps \ W!Range(Tail(sorted)) = W!Built \cup {s}
  BY <1>1, NextToBuild
<1>7. /\ source \in [W!Defined -> W!Written \cup {W!None}] /\ asked \in [W!Defined -> W!Written \cup {W!None}]
      /\ params \subseteq Overrides /\ runSteps \subseteq W!Defined
      /\ \A x \in runSteps \ W!Built : source[x] = W!Plain(asked[x])
      /\ \A x \in W!Built : /\ deps[x] \cap W!Defined \subseteq W!Built /\ ~ W!Broken(x)
                            /\ source[x] = W!StandsFor(x) /\ source[x].kind \in {"lit", "none"}
                            /\ source[x] = W!None <=> asked[x] = W!None
  BY <1>1 DEF W!ParamInv, W!CheckedInv, W!BuiltInv, W!SortInv, W!Shape
<1>8. CASE v = W!Error
  <2>1. phase' = "refused" /\ source' = source
    BY <1>4, <1>8
  <2>2. W!CheckedInv' /\ W!BuiltInv'
    BY <1>1, <1>2, <1>7, <2>1 DEF W!CheckedInv, W!BuiltInv
  <2>3. W!Broken(s)'
    BY <1>1, <1>5, <1>8, BrokenStays
  <2>4. W!OrderDecidesNothing'
    BY <1>1, <1>6, <2>1, <2>3 DEF W!OrderDecidesNothing
  <2> QED
    BY <2>2, <2>4 DEF W!ParamInv
<1>9. CASE v # W!Error
  <2>1. source' = [source EXCEPT ![s] = v] /\ sorted' = Tail(sorted) /\ phase' = "build"
    BY <1>1, <1>4, <1>9
  <2>2. W!Built' = W!Built \cup {s}
    BY <1>1, <1>6, <2>1 DEF W!Built
  <2>3. source'[s] = v /\ \A x \in runSteps \ {s} : source'[x] = source[x]
    BY <1>6, <1>7, <2>1
  <2>4. v \in W!Written \cup {W!None}
    <3>1. CASE W!Plain(asked[s]).kind = "sys"
      <4>1. v = W!Lit(s)
        BY <1>5, <1>9, <3>1 DEF W!StandsFor
      <4> QED
        BY <4>1 DEF W!Written, W!Plains, W!Lit
    <3>2. CASE W!Plain(asked[s]).kind = "ref"
      <4>1. W!Plain(asked[s]).step \in W!Defined
        BY <1>5, <1>9, <3>2 DEF W!Broken
      <4> QED
        BY <1>5, <1>7, <1>9, <3>2, <4>1 DEF W!StandsFor
    <3>3. CASE W!Plain(asked[s]).kind # "sys" /\ W!Plain(asked[s]).kind # "ref"
      <4>1. v = source[s]
        BY <1>5, <1>6, <1>7, <1>9, <3>3 DEF W!StandsFor
      <4> QED
        BY <1>6, <1>7, <4>1
    <3> QED
      BY <3>1, <3>2, <3>3
  <2>5. source' \in [W!Defined -> W!Written \cup {W!None}]
    BY <1>7, <2>1, <2>4
  <2>6. W!CheckedInv'
    BY <1>1, <1>2, <1>7, <2>1, <2>5 DEF W!CheckedInv
  <2>7. \A x \in W!Built \cup {s} : deps[x] \cap W!Defined \subseteq W!Built /\ ~ W!Broken(x)
    BY <1>5, <1>6, <1>7, <1>9
  <2>8. ASSUME NEW x \in W!Built \cup {s}
        PROVE  W!StandsFor(x)' = W!StandsFor(x) /\ (W!Broken(x)' <=> W!Broken(x))
    <3>1. W!Plain(asked[x]).kind = "ref" => W!Plain(asked[x]).step \in W!Built
      BY <2>7 DEF W!Broken
    <3>2. W!Plain(asked[x]).kind = "ref" => source'[W!Plain(asked[x]).step] = source[W!Plain(asked[x]).step]
      BY <1>6, <2>3, <3>1
    <3>3. W!StandsFor(x)' = W!StandsFor(x)
      BY <1>1, <3>2, StandsForStays
    <3>4. W!Broken(x)' <=> W!Broken(x)
      BY <1>1, BrokenStays
    <3> QED
      BY <3>3, <3>4
  <2>9. ASSUME NEW x \in W!Built'
        PROVE  /\ deps'[x] \cap W!Defined' \subseteq W!Built' /\ ~ W!Broken(x)'
               /\ source'[x] = W!StandsFor(x)' /\ source'[x].kind \in {"lit", "none"}
               /\ source'[x] = W!None <=> asked'[x] = W!None
    <3>1. x \in W!Built \cup {s}
      BY <2>2
    <3>2. deps'[x] \cap W!Defined' \subseteq W!Built' /\ ~ W!Broken(x)'
      BY <1>1, <1>2, <2>2, <2>7, <2>8, <3>1
    <3>3. CASE x = s
      BY <1>1, <1>5, <1>9, <2>3, <2>8, <3>1, <3>2, <3>3
    <3>4. CASE x # s
      <4>1. x \in W!Built /\ source'[x] = source[x]
        BY <1>6, <2>3, <3>1, <3>4
      <4> QED
        BY <1>1, <1>7, <2>8, <3>1, <3>2, <4>1
    <3> QED
      BY <3>3, <3>4
  <2>10. \A x \in runSteps' \ W!Built' : source'[x] = W!Plain(asked'[x])
    BY <1>1, <1>7, <2>2, <2>3
  <2>11. W!BuiltInv'
    BY <2>1, <2>9, <2>10 DEF W!BuiltInv
  <2>12. W!OrderDecidesNothing'
    BY <2>1 DEF W!OrderDecidesNothing
  <2> QED
    BY <2>6, <2>11, <2>12 DEF W!ParamInv
<1> QED
  BY <1>8, <1>9

\* The order is used up: every step is built.
LEMMA ParamReady ==
  ASSUME W!ParamInv, UNCHANGED <<deps, params, asked, source, runSteps, sorted>>,
         phase = "build", sorted = <<>>, phase' = "ready"
  PROVE  W!ParamInv'
<1>1. W!Defined' = W!Defined /\ W!Built' = W!Built /\ W!Built = runSteps
  BY DEF W!Defined, W!Built, W!Range
<1>2. W!CheckedInv'
  BY <1>1 DEF W!ParamInv, W!CheckedInv
<1>3. \A x : (W!Broken(x)' <=> W!Broken(x)) /\ W!StandsFor(x)' = W!StandsFor(x)
  BY DEF W!Broken, W!StandsFor, W!Defined
<1>4. W!BuiltInv'
  BY <1>1, <1>3 DEF W!ParamInv, W!BuiltInv
<1>5. \A x \in runSteps : ~ W!Broken(x)
  BY <1>1 DEF W!ParamInv, W!BuiltInv
<1>6. W!OrderDecidesNothing'
  BY <1>3, <1>5 DEF W!OrderDecidesNothing
<1> QED
  BY <1>2, <1>4, <1>6 DEF W!ParamInv

LEMMA ParamStutter == ASSUME W!ParamInv, UNCHANGED W!vars PROVE W!ParamInv'
<1> USE DEF W!vars, W!given, W!sorting
<1>1. W!Defined' = W!Defined /\ W!Built' = W!Built
  BY DEF W!Defined, W!Built
<1>2. \A x : (W!Broken(x)' <=> W!Broken(x)) /\ W!StandsFor(x)' = W!StandsFor(x)
  BY DEF W!Broken, W!StandsFor, W!Defined
<1>3. W!CheckedInv'
  BY <1>1 DEF W!ParamInv, W!CheckedInv
<1>4. W!BuiltInv'
  BY <1>1, <1>2 DEF W!ParamInv, W!BuiltInv
<1>5. W!OrderDecidesNothing'
  BY <1>1, <1>2 DEF W!ParamInv, W!OrderDecidesNothing
<1> QED
  BY <1>3, <1>4, <1>5 DEF W!ParamInv

LEMMA ParamEndPass == ASSUME W!SortInv, W!ParamInv, W!EndPass PROVE W!ParamInv'
<1>1. /\ phase \in {"sort", "again"} /\ UNCHANGED <<deps, yaml, entry, params, asked, source, runSteps, sorted>>
      /\ phase' = CASE unsorted = {} -> W!After[phase] [] unsorted # {} /\ moved -> phase [] OTHER -> "cyclic"
  BY DEF W!EndPass, W!given, W!After
<1>2. W!After["sort"] = "override" /\ W!After["again"] = "build"
  BY DEF W!After
<1>3. phase = "sort" => phase' \in {"sort", "override", "cyclic"}
  BY <1>1, <1>2
<1>4. phase = "again" => phase' \in {"again", "cyclic"} \/ (phase' = "build" /\ unsorted = {})
  BY <1>1, <1>2
<1>5. phase = "again" /\ unsorted = {} => runSteps \subseteq W!Range(sorted)
  BY DEF W!SortInv, W!Sorting, W!After
<1>6. CASE phase = "sort"
  BY <1>1, <1>3, <1>6, ParamSort
<1>7. CASE phase = "again"
  BY <1>1, <1>4, <1>5, <1>7, ParamSortAgain
<1> QED
  BY <1>1, <1>6, <1>7

LEMMA ParamNext == ASSUME ValuesAssumption, W!SortInv, W!ParamInv, W!Next PROVE W!ParamInv'
<1>1. ASSUME NEW s \in Steps, W!recursiveGetRunSteps(s) PROVE W!ParamInv'
  BY <1>1, ParamSort DEF W!recursiveGetRunSteps, W!given
<1>2. ASSUME NEW s \in Steps, W!VisitNode(s) PROVE W!ParamInv'
  <2>1. phase \in {"sort", "again"} /\ UNCHANGED <<deps, yaml, entry, params, asked, source, runSteps, phase>>
    BY <1>2 DEF W!VisitNode, W!given, W!After
  <2> QED
    BY <2>1, ParamSort, ParamSortAgain
<1>3. ASSUME NEW s \in Steps, W!checkSteps(s) PROVE W!ParamInv'
  BY <1>3, ParamCheck
<1>4. ASSUME NEW s \in Steps, W!NewStep(s) PROVE W!ParamInv'
  BY <1>4, ParamBuild
<1>5. CASE W!Validate
  BY <1>5, ParamSort DEF W!Validate, W!given
<1>6. CASE W!EndPass
  BY <1>6, ParamEndPass
<1>7. CASE W!replaceRunParam
  BY <1>7, ParamOverride
<1>8. CASE W!newWorkflowRuntime
  BY <1>8, ParamAgain
<1>9. CASE W!NewWorkflow
  BY <1>9, ParamReady DEF W!NewWorkflow, W!given, W!sorting
<1> QED
  BY <1>1, <1>2, <1>3, <1>4, <1>5, <1>6, <1>7, <1>8, <1>9 DEF W!Next

\* The values the steps run with are the yaml's with the run's parameter over it, a reference
\* standing for the value of the step it names, and a workflow is refused for a reference only if
\* one is broken, in whatever order Go visits its maps (checkSteps(), NewStep()).
THEOREM ParametersStayTheirs == Spec => []ParamsAreSound
<1> USE ValuesAssumption
<1> DEFINE Inv == which = "source" => W!SortInv /\ W!ParamInv
<1>1. Init => Inv
  BY SortInit, ParamInit DEF Init
<1>2. Inv /\ [Next]_all => Inv'
  <2> SUFFICES ASSUME Inv, [Next]_all PROVE Inv'
    OBVIOUS
  <2>1. CASE UNCHANGED all
    <3>1. UNCHANGED which /\ UNCHANGED W!vars
          /\ UNCHANGED <<deps, entry, runSteps, pending, unsorted, pass, moved, sorted, phase>>
      BY <2>1 DEF all, W!vars, W!given, W!sorting
    <3> QED
      BY <3>1, SortRest, ParamStutter
  <2>2. CASE which = "source" /\ W!Next /\ UNCHANGED which
    BY <2>2, SortNext, ParamNext
  <2>3. CASE which # "source" /\ UNCHANGED which
    BY <2>3
  <2> QED
    BY <2>1, <2>2, <2>3 DEF Next
<1>3. Inv => ParamsAreSound
  <2> SUFFICES ASSUME W!ParamInv PROVE W!ParamsAreSound
    BY DEF ParamsAreSound
  <2>1. phase = "ready" => \A s \in runSteps : source[s] = W!StandsFor(s)
    BY DEF W!ParamInv, W!BuiltInv
  <2> QED
    BY <2>1 DEF W!ParamInv, W!ParamsAreSound, W!ValuesKeepTheirStep
<1> QED
  BY <1>1, <1>2, <1>3, PTL DEF Spec

-----------------------------------------------------------------------------
(* The cache of steps *)

LEMMA SomeRead == ASSUME NEW p, NEW S, NEW f, f = [x \in S |-> f[x]], p \in S PROVE f # C!Nothing
<1>1. DOMAIN f = S /\ DOMAIN C!Nothing = {}
  BY DEF C!Nothing
<1> QED
  BY <1>1

LEMMA CacheInit == ASSUME C!Init PROVE C!CacheInv
<1>1. C!Shape
  BY DEF C!Init, C!Shape, C!Phases, C!Total
<1>2. ASSUME NEW r \in Runs
      PROVE  /\ job[r] = C!Wanted(r) /\ phase[r] = "ready" /\ saw[r] = C!Nothing
             /\ hit[r] = {} /\ listed[r] = {}
  BY DEF C!Init, C!Wanted
<1>3. \A c : c \notin C!Rows
  BY <1>2 DEF C!Init, C!Rows
<1> QED
  BY <1>1, <1>2, <1>3 DEF C!CacheInv, C!PhaseInv, C!LookupInv, C!Logged

\* A step of one run: what the others hold stays, and its rows stay what they were.
LEMMA OneRun ==
  ASSUME C!CacheInv, NEW r \in Runs, UNCHANGED <<info, job, mtime, late, resumed>>,
         \A q \in Runs \ {r} : /\ phase'[q] = phase[q] /\ first'[q] = first[q] /\ second'[q] = second[q]
                               /\ listed'[q] = listed[q] /\ saw'[q] = saw[q] /\ hit'[q] = hit[q],
         C!Shape', C!PhaseInv(r)', \A c \in listed'[r] : c.first = first'[r],
         r \notin resumed => C!LookupInv(r)',
         phase[r] \in C!Logged => phase'[r] \in C!Logged,
         saw[r] # C!Nothing => saw'[r] = saw[r],
         \A c \in C!Rows' : c \in C!Rows \/ C!RowInv(c)'
  PROVE  C!CacheInv'
<1>1. ASSUME NEW q \in Runs \ {r}
      PROVE  /\ C!PhaseInv(q)' /\ \A c \in listed'[q] : c.first = first'[q]
             /\ q \notin resumed => C!LookupInv(q)'
  <2>1. C!PhaseInv(q)'
    BY DEF C!CacheInv, C!PhaseInv
  <2>2. \A c \in listed'[q] : c.first = first'[q]
    BY DEF C!CacheInv
  <2>3. q \notin resumed => C!LookupInv(q)'
    <3>1. C!Wanted(q)' = C!Wanted(q) /\ C!Versions(q)' = C!Versions(q)
      BY DEF C!Wanted, C!Versions
    <3>2. q \notin resumed => C!LookupInv(q)
      BY DEF C!CacheInv
    <3> QED
      BY <3>1, <3>2 DEF C!LookupInv
  <2> QED
    BY <2>1, <2>2, <2>3
<1>2. ASSUME NEW c \in C!Rows PROVE C!RowInv(c)'
  <2>1. C!RowInv(c)
    BY DEF C!CacheInv
  <2>2. /\ c.run \in Runs /\ phase'[c.run] \in C!Logged
        /\ saw'[c.run] = saw[c.run] /\ saw[c.run] # C!Nothing
    BY <2>1 DEF C!RowInv
  <2>3. C!Wanted(c.run)' = C!Wanted(c.run)
    BY DEF C!Wanted
  <2> QED
    BY <2>1, <2>2, <2>3 DEF C!RowInv
<1>3. \A c \in C!Rows' : C!RowInv(c)'
  BY <1>2
<1> QED
  BY <1>1, <1>3 DEF C!CacheInv

LEMMA CacheLookup ==
  ASSUME C!CacheInv, NEW r \in Runs, C!ListCacheCb(r) PROVE C!CacheInv'
<1>0. C!Shape /\ C!PhaseInv(r) /\ (r \notin resumed => C!LookupInv(r)) /\ phase[r] = "ready"
  BY DEF C!CacheInv, C!ListCacheCb, C!Move
<1>1. /\ UNCHANGED <<info, job, mtime, late, resumed, saw, hit, table>>
      /\ phase' = [phase EXCEPT ![r] = "listed"] /\ first' = [first EXCEPT ![r] = job[r]]
      /\ second' = [second EXCEPT ![r] = C!Nothing]
      /\ listed' = [listed EXCEPT ![r] = {c \in table : c.first = job[r]}]
  BY DEF C!ListCacheCb, C!Move, C!generateFirstCacheKey, C!ListRunCacheByFirstFp, C!world, C!records
<1>2. /\ C!Total(first', Runs) /\ first'[r] = job[r] /\ \A q \in Runs \ {r} : first'[q] = first[q]
      /\ C!Total(second', Runs) /\ second'[r] = C!Nothing /\ \A q \in Runs \ {r} : second'[q] = second[q]
      /\ C!Total(listed', Runs) /\ listed'[r] = {c \in table : c.first = job[r]}
      /\ \A q \in Runs \ {r} : listed'[q] = listed[q]
  <2>1. C!Total(first, Runs) /\ C!Total(second, Runs) /\ C!Total(listed, Runs)
    BY <1>0 DEF C!Shape
  <2>2. C!Total(first', Runs) /\ first'[r] = job[r] /\ \A q \in Runs \ {r} : first'[q] = first[q]
    BY <1>1, <2>1 DEF C!Total
  <2>3. C!Total(second', Runs) /\ second'[r] = C!Nothing /\ \A q \in Runs \ {r} : second'[q] = second[q]
    BY <1>1, <2>1 DEF C!Total
  <2>4. /\ C!Total(listed', Runs) /\ listed'[r] = {c \in table : c.first = job[r]}
        /\ \A q \in Runs \ {r} : listed'[q] = listed[q]
    BY <1>1, <2>1 DEF C!Total
  <2> QED
    BY <2>2, <2>3, <2>4
<1>3. /\ phase' \in [Runs -> C!Phases] /\ phase'[r] = "listed"
      /\ \A q \in Runs \ {r} : phase'[q] = phase[q]
  BY <1>0, <1>1 DEF C!Shape, C!Phases
<1>4. C!Shape'
  BY <1>0, <1>1, <1>2, <1>3 DEF C!Shape
<1>5. saw[r] = C!Nothing /\ hit[r] = {}
  BY <1>0 DEF C!PhaseInv, C!Logged
<1>6. C!PhaseInv(r)'
  BY <1>1, <1>3, <1>5 DEF C!PhaseInv, C!Logged
<1>7. r \notin resumed => C!LookupInv(r)'
  <2>1. C!Nothing = [p \in DOMAIN C!Nothing |-> mtime[p]]
    BY DEF C!Nothing
  <2>2. ASSUME r \notin resumed PROVE job'[r] = C!Wanted(r)'
    BY <1>0, <1>1, <2>2 DEF C!LookupInv, C!Wanted
  <2> QED
    BY <1>1, <1>2, <1>3, <1>5, <2>1, <2>2 DEF C!LookupInv
<1>8. \A c \in C!Rows' : c \in C!Rows
  BY <1>1, <1>2 DEF C!Rows
<1> QED
  BY <1>0, <1>1, <1>2, <1>3, <1>4, <1>6, <1>7, <1>8, OneRun DEF C!Logged

LEMMA CacheModTime ==
  ASSUME C!CacheInv, NEW r \in Runs, NEW p \in C!Paths, C!ModTime(r, p) PROVE C!CacheInv'
<1> DEFINE new == [q \in DOMAIN second[r] \cup {p} |-> IF q = p THEN mtime[p] ELSE second[r][q]]
<1>0. C!Shape /\ C!PhaseInv(r) /\ (r \notin resumed => C!LookupInv(r)) /\ phase[r] = "listed"
  BY DEF C!CacheInv, C!ModTime
<1>1. /\ UNCHANGED <<info, job, phase, first, listed, saw, hit, mtime, late, resumed, table>>
      /\ second' = [second EXCEPT ![r] = new]
  BY DEF C!ModTime, C!world, C!records
<1> HIDE DEF new
<1>2. C!Total(second', Runs) /\ second'[r] = new /\ \A q \in Runs \ {r} : second'[q] = second[q]
  <2>1. C!Total(second, Runs)
    BY <1>0 DEF C!Shape
  <2> QED
    BY <1>1, <2>1 DEF C!Total
<1>3. C!Shape'
  BY <1>0, <1>1, <1>2 DEF C!Shape
<1>4. saw[r] = C!Nothing /\ hit[r] = {}
  BY <1>0 DEF C!PhaseInv, C!Logged
<1>5. C!PhaseInv(r)'
  BY <1>0, <1>1 DEF C!PhaseInv
<1>6. r \notin resumed => C!LookupInv(r)'
  <2>1. ASSUME r \notin resumed \cup late PROVE new = [q \in DOMAIN new |-> mtime[q]]
    <3>1. second[r] = [q \in DOMAIN second[r] |-> mtime[q]]
      BY <1>0, <2>1 DEF C!LookupInv
    <3>2. DOMAIN new = DOMAIN second[r] \cup {p}
      BY DEF new
    <3>3. \A q \in DOMAIN second[r] : second[r][q] = mtime[q]
      <4> DEFINE D == DOMAIN second[r]
      <4> HIDE DEF D
      <4>1. second[r] = [q \in D |-> mtime[q]]
        BY <3>1 DEF D
      <4>2. \A q \in D : second[r][q] = mtime[q]
        BY <4>1
      <4> QED
        BY <4>2 DEF D
    <3> QED
      BY <3>2, <3>3 DEF new
  <2>2. ASSUME r \notin resumed PROVE job'[r] = C!Wanted(r)' /\ first'[r] = job'[r]
    BY <1>0, <1>1, <2>2 DEF C!LookupInv, C!Wanted
  <2> QED
    BY <1>0, <1>1, <1>2, <1>4, <2>1, <2>2 DEF C!LookupInv
<1>7. C!Rows' = C!Rows /\ \A c \in listed'[r] : c.first = first'[r]
  BY <1>1 DEF C!Rows, C!CacheInv
<1> QED
  BY <1>0, <1>1, <1>2, <1>3, <1>5, <1>6, <1>7, OneRun

\* A run that moves on, and perhaps fails: nothing it knows changes.
LEMMA CacheMoves ==
  ASSUME C!CacheInv, NEW r \in Runs, NEW to \in C!Phases, phase' = [phase EXCEPT ![r] = to],
         UNCHANGED <<info, job, first, second, listed, saw, hit, table, mtime, late, resumed>>,
         \/ phase[r] \in {"ready", "listed", "running"} /\ to = "failed"
         \/ phase[r] = "logging" /\ to = "done"
  PROVE  C!CacheInv'
<1>0. C!Shape /\ C!PhaseInv(r) /\ (r \notin resumed => C!LookupInv(r))
  BY DEF C!CacheInv
<1>1. /\ phase' \in [Runs -> C!Phases] /\ phase'[r] = to
      /\ \A q \in Runs \ {r} : phase'[q] = phase[q]
  BY <1>0 DEF C!Shape
<1>2. C!Shape'
  BY <1>0, <1>1 DEF C!Shape
<1>3. C!PhaseInv(r)'
  BY <1>0, <1>1 DEF C!PhaseInv, C!Logged
<1>4. r \notin resumed => C!LookupInv(r)'
  <2>1. C!Wanted(r)' = C!Wanted(r) /\ C!Versions(r)' = C!Versions(r)
    BY DEF C!Wanted, C!Versions
  <2>2. saw[r] # C!Nothing \/ to # "done"
    BY <1>0 DEF C!PhaseInv, C!Logged
  <2> QED
    BY <1>0, <1>1, <2>1, <2>2 DEF C!LookupInv
<1>5. C!Rows' = C!Rows /\ \A c \in listed'[r] : c.first = first'[r]
  BY DEF C!Rows, C!CacheInv
<1>6. phase[r] \in C!Logged => phase'[r] \in C!Logged
  BY <1>1 DEF C!Logged
<1> QED
  BY <1>1, <1>2, <1>3, <1>4, <1>5, <1>6, OneRun

\* A run is skipped for a row it listed that has what it found; else its job runs.
LEMMA CacheExecute ==
  ASSUME C!CacheInv, NEW r \in Runs, C!Execute(r) PROVE C!CacheInv'
<1>0. C!Shape /\ C!PhaseInv(r) /\ (r \notin resumed => C!LookupInv(r)) /\ phase[r] = "listed"
  BY DEF C!CacheInv, C!Execute
<1>1. /\ UNCHANGED <<info, job, first, second, listed, saw, mtime, late, resumed, table>>
      /\ hit' = [hit EXCEPT ![r] = C!checkCached(r)]
      /\ DOMAIN second[r] = {C!Scope} \cup job[r].inputs
  BY DEF C!Execute, C!world, C!SecondCacheKey, C!FsScope, C!InputArtifacts
<1>2. C!Total(hit', Runs) /\ hit'[r] = C!checkCached(r) /\ \A q \in Runs \ {r} : hit'[q] = hit[q]
  <2>1. C!Total(hit, Runs)
    BY <1>0 DEF C!Shape
  <2> QED
    BY <1>1, <2>1 DEF C!Total
<1>3. /\ phase' \in [Runs -> C!Phases] /\ \A q \in Runs \ {r} : phase'[q] = phase[q]
      /\ \/ phase'[r] = "cached"
         \/ phase'[r] = "running" /\ C!checkCached(r) = {}
  <2>1. \/ phase' = [phase EXCEPT ![r] = "cached"]
        \/ phase' = [phase EXCEPT ![r] = "running"] /\ C!checkCached(r) = {}
    BY DEF C!Execute
  <2>2. phase \in [Runs -> C!Phases] /\ "cached" \in C!Phases /\ "running" \in C!Phases
    BY <1>0 DEF C!Shape, C!Phases
  <2> QED
    BY <2>1, <2>2
<1>4. C!Shape'
  BY <1>0, <1>1, <1>2, <1>3 DEF C!Shape
<1>5. saw[r] = C!Nothing
  BY <1>0 DEF C!PhaseInv, C!Logged
<1>6. C!PhaseInv(r)'
  BY <1>1, <1>2, <1>3, <1>5 DEF C!PhaseInv, C!Logged
<1>7. \A c \in listed[r] : c.first = first[r]
  BY DEF C!CacheInv
<1>8. \A c \in C!checkCached(r) : c \in listed[r] /\ c.second = second[r] /\ c.first = first[r]
  BY <1>7 DEF C!checkCached
<1>9. r \notin resumed => C!LookupInv(r)'
  <2> SUFFICES ASSUME r \notin resumed PROVE C!LookupInv(r)'
    OBVIOUS
  <2>1. C!Wanted(r)' = C!Wanted(r) /\ C!Versions(r)' = C!Versions(r)
    BY <1>1 DEF C!Wanted, C!Versions
  <2>2. job[r] = C!Wanted(r) /\ first[r] = job[r]
    BY <1>0 DEF C!LookupInv
  <2>3. DOMAIN second[r] = {C!Scope, info[r].path}
    BY <1>1, <2>2 DEF C!Wanted
  <2>4. ASSUME r \notin late PROVE second[r] = C!Versions(r)
    <3>1. second[r] = [p \in DOMAIN second[r] |-> mtime[p]]
      BY <1>0, <2>4 DEF C!LookupInv
    <3> QED
      BY <2>3, <3>1 DEF C!Versions
  <2>5. \A c \in hit'[r] : c.first = first'[r] /\ c.second = second'[r]
    BY <1>1, <1>2, <1>8
  <2> QED
    BY <1>1, <1>3, <1>5, <2>1, <2>2, <2>4, <2>5 DEF C!LookupInv
<1>10. \A c \in C!Rows' : c \in C!Rows
  BY <1>1, <1>2, <1>8 DEF C!Rows
<1>11. phase[r] \notin C!Logged
  BY <1>0 DEF C!Logged
<1> QED
  BY <1>1, <1>2, <1>3, <1>4, <1>5, <1>6, <1>7, <1>9, <1>10, <1>11, OneRun

LEMMA CacheReads ==
  ASSUME C!CacheInv, NEW r \in Runs, C!JobReads(r) PROVE C!CacheInv'
<1> DEFINE read == [p \in {C!Scope, job[r].path} |-> mtime[p]]
<1>0. /\ C!Shape /\ C!PhaseInv(r) /\ (r \notin resumed => C!LookupInv(r))
      /\ phase[r] = "running" /\ saw[r] = C!Nothing
  BY DEF C!CacheInv, C!JobReads
<1>1. /\ UNCHANGED <<info, job, phase, first, second, listed, hit, mtime, late, resumed, table>>
      /\ saw' = [saw EXCEPT ![r] = read]
  BY DEF C!JobReads, C!world, C!records
<1>2. read # C!Nothing
  <2>1. DOMAIN read = {C!Scope, job[r].path} /\ DOMAIN C!Nothing = {}
    BY DEF C!Nothing
  <2> QED
    BY <2>1
<1>3. r \notin resumed => read = C!Versions(r)
  BY <1>0 DEF C!LookupInv, C!Wanted, C!Versions
<1> HIDE DEF read
<1>4. C!Total(saw', Runs) /\ saw'[r] = read /\ \A q \in Runs \ {r} : saw'[q] = saw[q]
  <2>1. C!Total(saw, Runs)
    BY <1>0 DEF C!Shape
  <2> QED
    BY <1>1, <2>1 DEF C!Total
<1>5. C!Shape'
  BY <1>0, <1>1, <1>4 DEF C!Shape
<1>6. C!PhaseInv(r)'
  BY <1>0, <1>1, <1>4 DEF C!PhaseInv, C!Logged
<1>7. r \notin resumed => C!LookupInv(r)'
  <2>1. C!Wanted(r)' = C!Wanted(r) /\ C!Versions(r)' = C!Versions(r)
    BY <1>1 DEF C!Wanted, C!Versions
  <2> QED
    BY <1>0, <1>1, <1>2, <1>3, <1>4, <2>1 DEF C!LookupInv
<1>8. C!Rows' = C!Rows /\ \A c \in listed'[r] : c.first = first'[r]
  BY <1>1 DEF C!Rows, C!CacheInv
<1> QED
  BY <1>0, <1>1, <1>4, <1>5, <1>6, <1>7, <1>8, OneRun

\* The row that is recorded is what the job executed and read.
LEMMA CacheSucceeds ==
  ASSUME C!CacheInv, NEW r \in Runs, C!JobSucceeds(r) PROVE C!CacheInv'
<1>11. PICK new : new = [first |-> first[r], second |-> second[r], run |-> r, at |-> now]
  OBVIOUS
<1>0. /\ C!Shape /\ C!PhaseInv(r) /\ (r \notin resumed => C!LookupInv(r))
      /\ saw[r] # C!Nothing /\ phase[r] \in {"running", "again"}
      /\ phase' = [phase EXCEPT ![r] = "logging"]
  BY DEF C!CacheInv, C!JobSucceeds, C!Move
<1>1. /\ UNCHANGED <<info, job, first, second, listed, saw, hit, mtime, late, resumed>>
      /\ table' \subseteq table \cup {new}
  BY <1>11 DEF C!JobSucceeds, C!world, C!LogCache, C!CreateRunCache
<1>2. /\ phase' \in [Runs -> C!Phases] /\ phase'[r] = "logging"
      /\ \A q \in Runs \ {r} : phase'[q] = phase[q]
  BY <1>0 DEF C!Shape, C!Phases
<1>3. C!Shape'
  BY <1>0, <1>1, <1>2 DEF C!Shape
<1>4. C!PhaseInv(r)'
  BY <1>0, <1>1, <1>2 DEF C!PhaseInv, C!Logged
<1>5. C!Wanted(r)' = C!Wanted(r) /\ C!Versions(r)' = C!Versions(r)
  BY <1>1 DEF C!Wanted, C!Versions
<1>6. r \notin resumed => C!LookupInv(r)'
  <2>1. r \notin resumed => phase[r] = "running" /\ C!LookupInv(r)
    BY <1>0 DEF C!LookupInv
  <2> QED
    BY <1>0, <1>1, <1>2, <1>5, <2>1 DEF C!LookupInv
<1>7. C!RowInv(new)'
  <2>1. new.run = r /\ new.first = first[r] /\ new.second = second[r]
    BY <1>11
  <2>2. r \notin late \cup resumed => first[r] = C!Wanted(r) /\ second[r] = saw[r]
    BY <1>0 DEF C!LookupInv
  <2>3. phase'[r] \in C!Logged
    BY <1>2 DEF C!Logged
  <2> QED
    BY <1>0, <1>1, <1>5, <2>1, <2>2, <2>3 DEF C!RowInv
<1>8. \A c \in C!Rows' : c \in C!Rows \/ C!RowInv(c)'
  <2>1. \A c \in C!Rows' : c \in C!Rows \/ c = new
    BY <1>1 DEF C!Rows
  <2> QED
    BY <1>7, <2>1
<1>9. \A c \in listed'[r] : c.first = first'[r]
  BY <1>1 DEF C!CacheInv
<1>10. phase'[r] \in C!Logged
  BY <1>2 DEF C!Logged
<1> QED
  BY <1>0, <1>1, <1>2, <1>3, <1>4, <1>6, <1>8, <1>9, <1>10, OneRun

\* What happens in the world: rows go, and paths are written. What a run in flight found is old then.
LEMMA CacheWorld ==
  ASSUME C!CacheInv, UNCHANGED <<info, job, phase, first, second, listed, saw, hit, resumed>>,
         table' \subseteq table, late \subseteq late', C!Total(mtime', C!Paths),
         \/ mtime' = mtime
         \/ \A r \in Runs : phase[r] \in {"listed", "running"} /\ saw[r] = C!Nothing => r \in late'
  PROVE  C!CacheInv'
<1>1. C!Shape'
  BY DEF C!CacheInv, C!Shape
<1>2. ASSUME NEW r \in Runs PROVE C!PhaseInv(r)' /\ \A c \in listed'[r] : c.first = first'[r]
  BY DEF C!CacheInv, C!PhaseInv
<1>3. ASSUME NEW r \in Runs \ resumed PROVE C!LookupInv(r)'
  <2>1. C!LookupInv(r) /\ C!PhaseInv(r)
    BY DEF C!CacheInv
  <2>2. C!Wanted(r)' = C!Wanted(r)
    BY DEF C!Wanted
  <2>3. CASE mtime' = mtime
    <3>1. C!Versions(r)' = C!Versions(r)
      BY <2>3 DEF C!Versions
    <3>2. r \in late => r \in late'
      OBVIOUS
    <3> QED
      BY <2>1, <2>2, <2>3, <3>1, <3>2 DEF C!LookupInv
  <2>4. CASE phase[r] \in {"listed", "running"} /\ saw[r] = C!Nothing => r \in late'
    <3>1. phase[r] = "listed" => saw[r] = C!Nothing
      BY <2>1 DEF C!PhaseInv, C!Logged
    <3> QED
      BY <2>1, <2>2, <2>4, <3>1 DEF C!LookupInv
  <2> QED
    BY <2>3, <2>4
<1>4. ASSUME NEW c \in C!Rows' PROVE C!RowInv(c)'
  <2>1. c \in C!Rows
    BY DEF C!Rows
  <2>2. C!RowInv(c)
    BY <2>1 DEF C!CacheInv
  <2> QED
    BY <2>2 DEF C!RowInv, C!Wanted
<1> QED
  BY <1>1, <1>2, <1>3, <1>4 DEF C!CacheInv

\* A restart: the runs that were under way are rebuilt from their views; the others start over.
LEMMA CacheRestart == ASSUME C!CacheInv, C!Restart PROVE C!CacheInv'
<1>0. C!Shape
  BY DEF C!CacheInv
<1>1. PICK saved \in SUBSET Runs :
         /\ {r \in Runs : phase[r] \in {"running", "logging", "again", "done", "cached", "failed"}} \subseteq saved
         /\ job' = [r \in Runs |-> IF r \in saved THEN C!Rebuilt(r) ELSE job[r]]
         /\ resumed' = resumed \cup saved
  BY DEF C!Restart
<1>2. /\ UNCHANGED <<info, saw, hit, table, mtime, late>>
      /\ first' = [r \in Runs |-> C!Blank] /\ second' = [r \in Runs |-> C!Nothing]
      /\ listed' = [r \in Runs |-> {}]
  BY DEF C!Restart, C!records
<1>3. \A r \in Runs : /\ phase[r] \in C!Phases /\ phase'[r] \in C!Phases
                      /\ phase[r] = "listed" => phase'[r] = "ready"
                      /\ phase[r] = "logging" => phase'[r] = "again"
                      /\ phase[r] \notin {"listed", "logging"} => phase'[r] = phase[r]
  <2>1. phase' = [r \in Runs |-> IF phase[r] = "listed" THEN "ready"
                                 ELSE IF phase[r] = "logging" THEN "again" ELSE phase[r]]
    BY DEF C!Restart
  <2>2. \A r \in Runs : phase[r] \in C!Phases
    BY <1>0 DEF C!Shape
  <2> QED
    BY <2>1, <2>2 DEF C!Phases
<1>4. C!Shape'
  <2>1. phase' \in [Runs -> C!Phases]
    <3>1. phase' = [r \in Runs |-> phase'[r]]
      BY DEF C!Restart
    <3> QED
      BY <1>3, <3>1
  <2>2. C!Total(job', Runs) /\ C!Total(first', Runs) /\ C!Total(second', Runs) /\ C!Total(listed', Runs)
    BY <1>1, <1>2 DEF C!Total
  <2> QED
    BY <1>0, <1>2, <2>1, <2>2 DEF C!Shape
<1>5. ASSUME NEW r \in Runs PROVE C!PhaseInv(r)' /\ \A c \in listed'[r] : c.first = first'[r]
  <2>1. C!PhaseInv(r)
    BY DEF C!CacheInv
  <2>2. listed'[r] = {} /\ saw'[r] = saw[r] /\ hit'[r] = hit[r]
    BY <1>2
  <2>3. C!PhaseInv(r)'
    BY <1>3, <2>1, <2>2 DEF C!PhaseInv, C!Logged
  <2> QED
    BY <2>2, <2>3
<1>6. ASSUME NEW r \in Runs \ resumed' PROVE C!LookupInv(r)'
  <2>1. r \notin saved /\ r \notin resumed /\ job'[r] = job[r]
    BY <1>1
  <2>2. phase[r] \in {"ready", "listed"}
    BY <1>1, <1>3, <2>1 DEF C!Phases
  <2>3. phase'[r] = "ready"
    BY <1>3, <2>2
  <2>4. C!LookupInv(r) /\ C!PhaseInv(r)
    BY <2>1 DEF C!CacheInv
  <2>5. hit'[r] = {}
    BY <1>2, <2>2, <2>4 DEF C!PhaseInv
  <2>6. job'[r] = C!Wanted(r)'
    BY <1>2, <2>1, <2>4 DEF C!LookupInv, C!Wanted
  <2> QED
    BY <2>3, <2>5, <2>6 DEF C!LookupInv
<1>7. ASSUME NEW c \in C!Rows' PROVE C!RowInv(c)'
  <2>1. c \in C!Rows
    BY <1>2 DEF C!Rows
  <2>2. C!RowInv(c)
    BY <2>1 DEF C!CacheInv
  <2>3. c.run \in Runs /\ phase'[c.run] \in C!Logged
    BY <1>3, <2>2 DEF C!RowInv, C!Logged
  <2>4. c.run \notin resumed' => c.run \notin resumed
    BY <1>1
  <2>5. C!Wanted(c.run)' = C!Wanted(c.run)
    BY <1>2 DEF C!Wanted
  <2> QED
    BY <1>2, <2>2, <2>3, <2>4, <2>5 DEF C!RowInv
<1> QED
  BY <1>4, <1>5, <1>6, <1>7 DEF C!CacheInv

LEMMA CacheNext == ASSUME C!CacheInv, C!Next PROVE C!CacheInv'
<1>0. C!Total(mtime, C!Paths)
  BY DEF C!CacheInv, C!Shape
<1>1. ASSUME NEW r \in Runs, C!ListCacheCb(r) \/ C!Execute(r) \/ C!JobReads(r) \/ C!JobSucceeds(r)
      PROVE  C!CacheInv'
  BY <1>1, CacheLookup, CacheExecute, CacheReads, CacheSucceeds
<1>2. ASSUME NEW r \in Runs, NEW p \in C!Paths, C!ModTime(r, p) PROVE C!CacheInv'
  BY <1>2, CacheModTime
<1>3. ASSUME NEW r \in Runs, C!CheckFails(r) PROVE C!CacheInv'
  BY <1>3, CacheMoves DEF C!CheckFails, C!records, C!world, C!Phases
<1>4. ASSUME NEW r \in Runs, C!StepDone(r) PROVE C!CacheInv'
  BY <1>4, CacheMoves DEF C!StepDone, C!Move, C!world, C!Phases
<1>5. ASSUME NEW r \in Runs, C!JobFails(r) PROVE C!CacheInv'
  BY <1>5, CacheMoves DEF C!JobFails, C!Move, C!records, C!world, C!Phases
<1>6. ASSUME NEW c \in table, C!DeleteRunCache(c) PROVE C!CacheInv'
  BY <1>0, <1>6, CacheWorld DEF C!DeleteRunCache, C!step, C!world
<1>7. ASSUME NEW e \in events, C!DeleteArtifactEvent(e) PROVE C!CacheInv'
  BY <1>0, <1>7, CacheWorld DEF C!DeleteArtifactEvent, C!step, C!world
<1>8. ASSUME NEW p \in C!Paths, C!Write(p) PROVE C!CacheInv'
  <2>1. C!Total(mtime', C!Paths)
    BY <1>0, <1>8 DEF C!Write, C!Total
  <2> QED
    BY <1>8, <2>1, CacheWorld DEF C!Write, C!step, C!records
<1>9. CASE C!Tick
  BY <1>0, <1>9, CacheWorld DEF C!Tick, C!step, C!records
<1>10. CASE C!Restart
  BY <1>10, CacheRestart
<1> QED
  BY <1>1, <1>2, <1>3, <1>4, <1>5, <1>6, <1>7, <1>8, <1>9, <1>10 DEF C!Next

\* Runs that share the cache, expiry, crashes and deleted records included: a step is only skipped
\* for an equal one that succeeded on what this one found, and the cache holds only results of jobs
\* that read their inputs and succeeded (checkCached(), LogCache(), SetWorkflowRuntime()).
THEOREM CacheStaysSound == Spec => []CacheIsSound
<1> DEFINE Inv == which = "cache" => C!CacheInv
<1>1. Init => Inv
  BY CacheInit DEF Init
<1>2. Inv /\ [Next]_all => Inv'
  <2> SUFFICES ASSUME Inv, [Next]_all PROVE Inv'
    OBVIOUS
  <2>1. CASE UNCHANGED all
    <3>1. UNCHANGED which /\ UNCHANGED <<info, job, phase, first, second, listed, saw, hit, resumed,
                                         table, late, mtime>>
      BY <2>1 DEF all
    <3> QED
      BY <3>1, CacheWorld DEF C!CacheInv, C!Shape
  <2>2. CASE which = "cache" /\ C!Next /\ UNCHANGED which
    BY <2>2, CacheNext
  <2>3. CASE which # "cache" /\ UNCHANGED which
    BY <2>3
  <2> QED
    BY <2>1, <2>2, <2>3 DEF Next
<1>3. Inv => CacheIsSound
  <2> SUFFICES ASSUME C!CacheInv PROVE C!CacheIsSound
    BY DEF CacheIsSound
  <2>1. C!RowsAreEarned
    BY DEF C!RowsAreEarned, C!CacheInv, C!Rows, C!RowInv, C!Logged
  <2>2. ASSUME NEW r \in Runs \ (late \cup resumed), NEW c \in hit[r], c.run \notin resumed \cup late
        PROVE  C!Produced(c) = [image |-> info[r].image, read |-> second[r]]
    <3>1. C!RowInv(c)
      BY DEF C!CacheInv, C!Rows
    <3>2. C!LookupInv(r) /\ C!PhaseInv(r) /\ phase[r] = "cached"
      BY DEF C!CacheInv, C!PhaseInv
    <3>3. c.second = saw[c.run] /\ c.second = second[r]
      BY <2>2, <3>1, <3>2 DEF C!RowInv, C!LookupInv
    <3>4. C!Wanted(c.run) = C!Wanted(r)
      BY <2>2, <3>1, <3>2 DEF C!RowInv, C!LookupInv
    <3>5. info[c.run].image = info[r].image
      BY <3>4 DEF C!Wanted
    <3> QED
      BY <3>3, <3>5 DEF C!Produced
  <2> QED
    BY <2>1, <2>2 DEF C!CacheIsSound, C!HitsAreSound, C!Sound
<1> QED
  BY <1>1, <1>2, <1>3, PTL DEF Spec

-----------------------------------------------------------------------------
(* The job that is created *)

LEMMA WrapIsInt == ASSUME JobAssumption, NEW n \in Int PROVE J!Wrap(n) \in Int
<1>1. /\ 2 ^ (Width - 1) \in Int /\ 2 ^ Width \in Nat \ {0}
  BY DEF JobAssumption
<1> QED
  BY <1>1 DEF J!Wrap

LEMMA ParsedIsInt ==
  ASSUME JobAssumption, NEW n \in Int, NEW a \in J!Asked PROVE J!Parsed(n, a) \in Int
<1>1. CASE a.set
  <2>1. a \in [set : {TRUE}, n : Replicas]
    <3>1. a \in {J!Absent} \cup [set : {TRUE}, n : Replicas]
      BY DEF J!Asked
    <3>2. J!Absent.set = FALSE
      BY DEF J!Absent
    <3> QED
      BY <1>1, <3>1, <3>2
  <2>2. a.n \in Int
    BY <2>1 DEF JobAssumption
  <2> QED
    BY <1>1, <2>2, WrapIsInt DEF J!Parsed
<1>2. CASE ~ a.set
  BY <1>2 DEF J!Parsed
<1> QED
  BY <1>1, <1>2

Pick(s) == CHOOSE x \in s : TRUE

\* The fold over at most two tasks takes them one after the other.
LEMMA PodsSteps ==
  ASSUME DOMAIN tasks \subseteq {1, 2}
  PROVE  \E h : /\ J!Pods = h[DOMAIN tasks]
                /\ \A s \in SUBSET (DOMAIN tasks) :
                     h[s] = IF s = {} THEN 0 ELSE h[s \ {Pick(s)}] + tasks[Pick(s)].replicas
<1> DEFINE S == DOMAIN tasks
           rep(x) == tasks[x].replicas
           g == [s \in SUBSET S |->
                   IF s = {} THEN 0
                   ELSE IF s \ {Pick(s)} = {} THEN 0 + rep(Pick(s))
                   ELSE (0 + rep(Pick(s \ {Pick(s)}))) + rep(Pick(s))]
<1>0. ASSUME NEW s \in SUBSET S, s # {}
      PROVE  s \ {Pick(s)} # {} => (s \ {Pick(s)}) \ {Pick(s \ {Pick(s)})} = {}
  <2> DEFINE t == s \ {Pick(s)}
  <2>1. Pick(s) \in s
    BY <1>0 DEF Pick
  <2>2. t # {} => Pick(t) \in t
    BY DEF Pick
  <2>3. \A x, y \in t : x = y
    BY <2>1
  <2> QED
    BY <2>1, <2>2, <2>3
<1>1. ASSUME NEW s \in SUBSET S, s # {}
      PROVE  g[s] = g[s \ {Pick(s)}] + rep(Pick(s))
  <2>1. s \ {Pick(s)} \in SUBSET S
    OBVIOUS
  <2>2. s \ {Pick(s)} # {} => (s \ {Pick(s)}) \ {Pick(s \ {Pick(s)})} = {}
    BY <1>0, <1>1
  <2> HIDE DEF rep
  <2>3. g[s \ {Pick(s)}] = IF s \ {Pick(s)} = {} THEN 0 ELSE 0 + rep(Pick(s \ {Pick(s)}))
    BY <2>1, <2>2
  <2>4. g[s] = IF s \ {Pick(s)} = {} THEN 0 + rep(Pick(s))
               ELSE (0 + rep(Pick(s \ {Pick(s)}))) + rep(Pick(s))
    BY <1>1
  <2> QED
    BY <2>3, <2>4
<1>2. g[{}] = 0
  BY {} \in SUBSET S
<1>3. g = [s \in SUBSET S |-> IF s = {} THEN 0 ELSE g[s \ {Pick(s)}] + tasks[Pick(s)].replicas]
  <2>1. \A s \in SUBSET S : g[s] = IF s = {} THEN 0 ELSE g[s \ {Pick(s)}] + tasks[Pick(s)].replicas
    BY <1>1, <1>2
  <2>2. g = [s \in SUBSET S |-> g[s]]
    OBVIOUS
  <2> HIDE DEF g
  <2> QED
    BY <2>1, <2>2
<1> HIDE DEF g
<1> DEFINE Step(h) == [s \in SUBSET (DOMAIN tasks) |->
                         IF s = {} THEN 0 ELSE h[s \ {Pick(s)}] + tasks[Pick(s)].replicas]
           iter == CHOOSE h : h = Step(h)
<1>4. g = Step(g)
  BY <1>3
<1>5. J!Pods = iter[DOMAIN tasks]
  BY Zenon DEF J!Pods, J!FoldSeq, J!FoldFunction, J!FoldFunctionOnSet, J!MapThenFoldSet, Pick
<1>6. iter = Step(iter)
  <2> HIDE DEF Step
  <2> QED
    BY <1>4
<1> HIDE DEF iter
<1> QED
  BY <1>5, <1>6

\* The pods of one task and of two.
PodsCounted ==
  /\ DOMAIN tasks = {1} /\ tasks[1].replicas \in Int => J!Pods = tasks[1].replicas
  /\ DOMAIN tasks = {1, 2} /\ tasks[1].replicas \in Int /\ tasks[2].replicas \in Int
       => J!Pods = tasks[1].replicas + tasks[2].replicas

LEMMA PodsAreCounted == PodsCounted
<1>1. ASSUME DOMAIN tasks = {1}, tasks[1].replicas \in Int PROVE J!Pods = tasks[1].replicas
  <2>1. PICK h : /\ J!Pods = h[{1}]
                 /\ \A s \in SUBSET {1} :
                       h[s] = IF s = {} THEN 0 ELSE h[s \ {Pick(s)}] + tasks[Pick(s)].replicas
    BY <1>1, PodsSteps
  <2>2. Pick({1}) = 1 /\ {1} \ {1} = {} /\ {} \in SUBSET {1}
    BY DEF Pick
  <2>3. h[{}] = 0
    BY <2>1, <2>2
  <2>4. h[{1}] = h[{}] + tasks[1].replicas
    BY <2>1, <2>2
  <2> QED
    BY <1>1, <2>1, <2>3, <2>4
<1>2. ASSUME DOMAIN tasks = {1, 2}, tasks[1].replicas \in Int, tasks[2].replicas \in Int
      PROVE  J!Pods = tasks[1].replicas + tasks[2].replicas
  <2>1. PICK h : /\ J!Pods = h[{1, 2}]
                 /\ \A s \in SUBSET {1, 2} :
                       h[s] = IF s = {} THEN 0 ELSE h[s \ {Pick(s)}] + tasks[Pick(s)].replicas
    BY <1>2, PodsSteps
  <2>2. /\ Pick({1}) = 1 /\ Pick({2}) = 2 /\ Pick({1, 2}) \in {1, 2}
        /\ {1} \ {1} = {} /\ {2} \ {2} = {} /\ {1, 2} \ {1} = {2} /\ {1, 2} \ {2} = {1}
        /\ {1} \in SUBSET {1, 2} /\ {2} \in SUBSET {1, 2} /\ {} \in SUBSET {1, 2}
        /\ {1, 2} \in SUBSET {1, 2} /\ {1} # {} /\ {2} # {} /\ {1, 2} # {}
    BY DEF Pick
  <2>3. h[{}] = 0
    BY <2>1, <2>2
  <2>4. h[{1}] = tasks[1].replicas
    <3>1. h[{1}] = h[{1} \ {Pick({1})}] + tasks[Pick({1})].replicas
      BY <2>1, <2>2
    <3>2. h[{1}] = h[{}] + tasks[1].replicas
      BY <2>2, <3>1
    <3> QED
      BY <1>2, <2>3, <3>2
  <2>5. h[{2}] = tasks[2].replicas
    <3>1. h[{2}] = h[{2} \ {Pick({2})}] + tasks[Pick({2})].replicas
      BY <2>1, <2>2
    <3>2. h[{2}] = h[{}] + tasks[2].replicas
      BY <2>2, <3>1
    <3> QED
      BY <1>2, <2>3, <3>2
  <2>6. h[{1, 2}] = h[{1, 2} \ {Pick({1, 2})}] + tasks[Pick({1, 2})].replicas
    BY <2>1, <2>2
  <2>7. CASE Pick({1, 2}) = 1
    <3>1. h[{1, 2}] = h[{1, 2} \ {1}] + tasks[1].replicas
      BY <2>6, <2>7
    <3>2. {1, 2} \ {1} = {2}
      BY <2>2
    <3>3. h[{1, 2}] = h[{2}] + tasks[1].replicas
      BY <3>1, <3>2
    <3>4. PICK one, two : one = tasks[1].replicas /\ two = tasks[2].replicas
      OBVIOUS
    <3>5. one \in Int /\ two \in Int /\ h[{1, 2}] = two + one
      BY <1>2, <2>5, <3>3, <3>4
    <3>6. h[{1, 2}] = one + two
      BY <3>5
    <3> QED
      BY <2>1, <3>4, <3>6
  <2>8. CASE Pick({1, 2}) = 2
    <3>1. h[{1, 2}] = h[{1, 2} \ {2}] + tasks[2].replicas
      BY <2>6, <2>8
    <3>2. {1, 2} \ {2} = {1}
      BY <2>2
    <3>3. h[{1, 2}] = h[{1}] + tasks[2].replicas
      BY <3>1, <3>2
    <3> QED
      BY <2>1, <2>4, <3>3
  <2> QED
    BY <2>2, <2>7, <2>8
<1> QED
  BY <1>1, <1>2 DEF PodsCounted

LEMMA PodsAreCountedNext == PodsCounted'
BY PodsAreCounted, PTL

\* What a file holds, the default one of the mode or the user's (getJobYamlContent()).
LEMMA TaskFields ==
  ASSUME NEW M, NEW n \in Int, NEW m \in M, NEW t,
         t = [replicas |-> n, mounts |-> m, volume |-> FALSE, label |-> FALSE]
  PROVE  /\ t \in [replicas : Int, mounts : M, volume : BOOLEAN, label : BOOLEAN]
         /\ t.replicas = n /\ t.mounts = m /\ t.volume = FALSE
OBVIOUS

LEMMA OneIsSeq == ASSUME NEW S, NEW f \in [1..1 -> S] PROVE f \in Seq(S)
<1>1. 1 \in Nat
  OBVIOUS
<1> QED
  BY <1>1, SeqDef, Zenon

LEMMA TaskIsPlain ==
  ASSUME NEW n \in Int
  PROVE  /\ J!Task(n, 1) \in J!FileTask /\ J!Task(n, 1).replicas = n /\ Len(J!Task(n, 1).mounts) = 1
         /\ J!Task(n, 1).mounts # <<>> /\ J!Task(n, 1).volume = FALSE
<1> DEFINE f == [i \in 1..1 |-> FALSE]
           t == J!Task(n, 1)
<1>1. f \in Seq({FALSE})
  <2>1. f \in [1..1 -> {FALSE}]
    OBVIOUS
  <2> HIDE DEF f
  <2> QED
    BY <2>1, OneIsSeq
<1>2. Len(f) = 1 /\ f # <<>>
  <2>1. DOMAIN f = 1..1
    OBVIOUS
  <2> HIDE DEF f
  <2> QED
    BY <1>1, <2>1
<1>3. t = [replicas |-> n, mounts |-> f, volume |-> FALSE, label |-> FALSE]
  BY DEF J!Task
<1> HIDE DEF f, t
<1>4. /\ t \in [replicas : Int, mounts : Seq({FALSE}), volume : BOOLEAN, label : BOOLEAN]
      /\ t.replicas = n /\ t.mounts = f /\ t.volume = FALSE
  <2> DEFINE M == Seq({FALSE})
  <2>1. f \in M
    BY <1>1
  <2> HIDE DEF M
  <2>2. /\ t \in [replicas : Int, mounts : M, volume : BOOLEAN, label : BOOLEAN]
        /\ t.replicas = n /\ t.mounts = f /\ t.volume = FALSE
    BY <1>3, <2>1, TaskFields
  <2> QED
    BY <2>2 DEF M
<1> QED
  BY <1>2, <1>4 DEF t, J!FileTask

LEMMA FileIsPlain ==
  ASSUME JobAssumption, J!PatchInv
  PROVE  /\ J!getJobYamlContent.tasks \in Seq(J!FileTask)
         /\ own = <<>> => /\ J!getJobYamlContent.tasks = J!Default[mode]
                          /\ J!getJobYamlContent.min = J!DefaultMin[mode]
<1>1. mode \in {"pod", "ps", "collective", "spark"}
  BY DEF J!PatchInv, JobAssumption
<1>2. J!Default[mode] \in Seq(J!FileTask)
  <2>1. J!Task(0, 1) \in J!FileTask /\ J!Task(1, 1) \in J!FileTask /\ J!Task(2, 1) \in J!FileTask
    <3>1. \A n \in Int : J!Task(n, 1) \in J!FileTask
      BY TaskIsPlain
    <3> QED
      BY <3>1
  <2>2. /\ J!Default["pod"] = <<J!Task(1, 1)>> /\ J!Default["ps"] = <<J!Task(1, 1), J!Task(2, 1)>>
        /\ J!Default["collective"] = <<J!Task(2, 1)>>
        /\ J!Default["spark"] = <<J!Task(0, 1), J!Task(0, 1)>>
    BY DEF J!Default
  <2>3. \A t1, t2 \in J!FileTask : <<t1>> \in Seq(J!FileTask) /\ <<t1, t2>> \in Seq(J!FileTask)
    OBVIOUS
  <2> QED
    BY <1>1, <2>1, <2>2, <2>3, Zenon
<1>3. own # <<>> => own \in Seq(J!FileTask)
  BY DEF J!PatchInv, JobAssumption
<1> QED
  BY <1>2, <1>3 DEF J!getJobYamlContent

\* A task that is filled has the volume that its container mounts (fillContainerInTask(),
\* appendVolumeIfAbsent()).
Filled(t) == J!appendVolumeIfAbsent(J!fillContainerInTask(J!Labelled(t)))

LEMMA FilledHasVolume ==
  ASSUME NEW t \in J!FileTask PROVE Filled(t).replicas = t.replicas /\ Filled(t).volume = TRUE
<1> DEFINE m == J!Labelled(t)
           p == J!fillContainerInTask(m)
<1>1. m.replicas = t.replicas /\ m \in J!FileTask
  BY DEF J!Labelled, J!FileTask
<1> HIDE DEF m
<1>2. DOMAIN p = {"replicas", "mounts", "volume", "label"} /\ p.replicas = m.replicas
  BY <1>1 DEF J!fillContainerInTask, J!FileTask
<1> HIDE DEF p
<1>3. J!appendVolumeIfAbsent(p).replicas = p.replicas /\ J!appendVolumeIfAbsent(p).volume = TRUE
  BY <1>2 DEF J!appendVolumeIfAbsent
<1> QED
  BY <1>1, <1>2, <1>3 DEF p, m, Filled

LEMMA ReplicasSet ==
  ASSUME NEW t \in J!FileTask, NEW n \in Int
  PROVE  [t EXCEPT !.replicas = n] \in J!FileTask /\ [t EXCEPT !.replicas = n].replicas = n
BY DEF J!FileTask

LEMMA FieldsOf ==
  ASSUME NEW t \in J!FileTask PROVE t.replicas \in Int /\ t.mounts \in Seq({FALSE})
BY DEF J!FileTask

LEMMA AtLeast ==
  ASSUME JobAssumption, NEW n \in Int, NEW a \in J!Asked, NEW least \in Nat \ {0}
  PROVE  /\ J!OrDefault(n, a, least) \in Int /\ J!OrDefault(n, a, least) > 0
         /\ J!Parsed(n, a) \in Int /\ J!Parsed(n, a) <= J!OrDefault(n, a, least)
<1>1. J!Parsed(n, a) \in Int
  BY ParsedIsInt
<1> QED
  BY <1>1 DEF J!OrDefault

\* A pod's task has at least one replica.
LEMMA PodTask ==
  ASSUME NEW t \in J!FileTask, t.mounts # <<>>
  PROVE  /\ J!fillTaskInPodMode(t).volume = TRUE
         /\ J!fillTaskInPodMode(t).replicas = IF t.replicas <= 0 THEN 1 ELSE t.replicas
<1> DEFINE k == IF t.replicas <= 0 THEN 1 ELSE t.replicas
           n == [t EXCEPT !.replicas = k]
<1>1. t.replicas \in Int
  BY FieldsOf
<1>2. J!OrDefault(t.replicas, J!Absent, 1) = k
  BY <1>1 DEF J!OrDefault, J!Parsed, J!Absent
<1>3. k \in Int
  BY <1>1
<1>4. J!fillTaskInPodMode(t) = Filled(n)
  BY <1>2 DEF J!fillTaskInPodMode, Filled
<1> HIDE DEF k
<1>5. n \in J!FileTask /\ n.replicas = k
  BY <1>3, ReplicasSet
<1> QED
  BY <1>4, <1>5, FilledHasVolume DEF k

\* Each of the patches leaves tasks that can start, or an error.
LEMMA PodCanStart ==
  ASSUME JobAssumption, J!PatchInv, at = "patch", mode = "pod", UNCHANGED <<mode, own>>,
         J!fillPodJobSpec, ~ failed'
  PROVE  J!CanStart'
<1>1. tasks \in Seq(J!FileTask) /\ (own = <<>> => tasks = <<J!Task(1, 1)>> /\ min = 1)
  BY FileIsPlain DEF J!PatchInv, J!Default, J!DefaultMin
<1>2. \A i \in DOMAIN tasks : tasks[i].mounts # <<>>
  BY DEF J!fillPodJobSpec
<1>3. tasks' = [i \in DOMAIN tasks |-> J!fillTaskInPodMode(tasks[i])] /\ min' = min
  BY <1>2 DEF J!fillPodJobSpec
<1>4. DOMAIN tasks' = DOMAIN tasks
  BY <1>3
<1>5. \A i \in DOMAIN tasks' :
        /\ tasks'[i].volume = TRUE
        /\ tasks'[i].replicas = IF tasks[i].replicas <= 0 THEN 1 ELSE tasks[i].replicas
  <2> SUFFICES ASSUME NEW i \in DOMAIN tasks
               PROVE  /\ tasks'[i].volume = TRUE
                      /\ tasks'[i].replicas = IF tasks[i].replicas <= 0 THEN 1 ELSE tasks[i].replicas
    BY <1>4
  <2>1. tasks[i] \in J!FileTask
    BY <1>1, SeqFields
  <2>2. tasks'[i] = J!fillTaskInPodMode(tasks[i])
    BY <1>3
  <2> QED
    BY <1>2, <2>1, <2>2, PodTask
<1>6. \A i \in DOMAIN tasks' : tasks'[i].replicas \in Int /\ tasks'[i].replicas > 0
  <2>1. \A i \in DOMAIN tasks : tasks[i].replicas \in Int
    BY <1>1, SeqFields, FieldsOf
  <2> QED
    BY <1>4, <1>5, <2>1
<1>7. ASSUME own = <<>> PROVE min' <= J!Pods'
  <2>1. DOMAIN tasks = {1} /\ tasks[1] = J!Task(1, 1) /\ min = 1
    <3>1. \A t : DOMAIN <<t>> = {1} /\ <<t>>[1] = t
      OBVIOUS
    <3> QED
      BY <1>1, <1>7, <3>1
  <2>2. J!Pods' = tasks'[1].replicas
    BY <1>4, <1>6, <2>1, PodsAreCountedNext DEF PodsCounted
  <2> QED
    BY <1>3, <1>4, <1>6, <2>1, <2>2
<1> QED
  BY <1>5, <1>6, <1>7 DEF J!CanStart

LEMMA CollectiveCanStart ==
  ASSUME JobAssumption, J!PatchInv, at = "patch", mode = "collective", UNCHANGED <<mode, own>>,
         J!fillCollectiveJobSpec, ~ failed'
  PROVE  J!CanStart'
<1> DEFINE a == ask["first"]
           k == J!OrDefault(tasks[1].replicas, a, 2)
           n == [tasks[1] EXCEPT !.replicas = k]
<1>1. tasks \in Seq(J!FileTask) /\ (own = <<>> => tasks = <<J!Task(2, 1)>> /\ min = 2)
  BY FileIsPlain DEF J!PatchInv, J!Default, J!DefaultMin
<1>2. /\ min' = J!Parsed(min, a) /\ tasks' = J!fillTaskInCollectiveMode
      /\ J!fillTaskInCollectiveMode # <<>>
  BY DEF J!fillCollectiveJobSpec
<1>3. Len(tasks) = 1
  BY <1>2 DEF J!fillTaskInCollectiveMode
<1>4. tasks' = <<Filled(n)>>
  BY <1>2, <1>3 DEF J!fillTaskInCollectiveMode, Filled
<1>5. a \in J!Asked
  BY DEF J!PatchInv
<1>6. tasks[1] \in J!FileTask /\ tasks[1].replicas \in Int
  BY <1>1, <1>3, SeqFields, FieldsOf
<1>7. k \in Int /\ k > 0 /\ J!Parsed(tasks[1].replicas, a) <= k
  <2>1. 2 \in Nat \ {0}
    OBVIOUS
  <2> QED
    BY <1>5, <1>6, <2>1, AtLeast
<1> HIDE DEF k
<1>8. n \in J!FileTask /\ n.replicas = k
  BY <1>6, <1>7, ReplicasSet
<1>9. DOMAIN tasks' = {1} /\ tasks'[1].volume = TRUE /\ tasks'[1].replicas = k
  <2>1. \A t : DOMAIN <<t>> = {1} /\ <<t>>[1] = t
    OBVIOUS
  <2> HIDE DEF n
  <2>2. DOMAIN tasks' = {1} /\ tasks'[1] = Filled(n)
    BY <1>4, <2>1
  <2> QED
    BY <1>8, <2>2, FilledHasVolume
<1>10. ASSUME own = <<>> PROVE min' <= J!Pods'
  <2>1. tasks[1] = J!Task(2, 1) /\ min = 2
    BY <1>1, <1>10
  <2>2. tasks[1].replicas = 2
    <3>1. \A i \in Int : J!Task(i, 1).replicas = i
      BY TaskIsPlain
    <3> QED
      BY <2>1, <3>1
  <2>3. J!Pods' = k
    BY <1>7, <1>9, PodsAreCountedNext DEF PodsCounted
  <2> QED
    BY <1>2, <1>7, <2>1, <2>2, <2>3
<1> QED
  BY <1>7, <1>9, <1>10 DEF J!CanStart

LEMMA SparkCanStart ==
  ASSUME JobAssumption, J!PatchInv, at = "patch", mode = "spark", UNCHANGED <<mode, own>>,
         J!patchSparkAppVariable
  PROVE  J!CanStart'
<1> DEFINE k == J!OrDefault(0, ask["first"], 1)
<1>1. ask["first"] \in J!Asked
  BY DEF J!PatchInv
<1>2. k \in Int /\ k > 0
  <2>1. 0 \in Int /\ 1 \in Nat \ {0}
    OBVIOUS
  <2> QED
    BY <1>1, <2>1, AtLeast
<1>3. tasks' = <<Filled(J!Task(1, 1)), Filled(J!Task(k, 1))>> /\ min' = min
  BY DEF J!patchSparkAppVariable, J!patchSparkSpecDriver, J!patchSparkSpecExecutor, Filled
<1> HIDE DEF k
<1>4. \A i \in Int : J!Task(i, 1) \in J!FileTask /\ J!Task(i, 1).replicas = i
  BY TaskIsPlain
<1>5. \A i \in Int : Filled(J!Task(i, 1)).replicas = i /\ Filled(J!Task(i, 1)).volume = TRUE
  BY <1>4, FilledHasVolume
<1>6. DOMAIN tasks' = {1, 2} /\ tasks'[1] = Filled(J!Task(1, 1)) /\ tasks'[2] = Filled(J!Task(k, 1))
  <2>1. \A t, u : DOMAIN <<t, u>> = {1, 2} /\ <<t, u>>[1] = t /\ <<t, u>>[2] = u
    OBVIOUS
  <2> QED
    BY <1>3, <2>1
<1>7. /\ tasks'[1].replicas = 1 /\ tasks'[2].replicas = k
      /\ tasks'[1].volume = TRUE /\ tasks'[2].volume = TRUE
  BY <1>2, <1>5, <1>6
<1>8. J!Pods' = 1 + k
  BY <1>2, <1>6, <1>7, PodsAreCountedNext DEF PodsCounted
<1>9. own = <<>> => min = 0
  BY FileIsPlain DEF J!PatchInv, J!DefaultMin
<1>10. \A i \in DOMAIN tasks' : tasks'[i].volume = TRUE /\ tasks'[i].replicas > 0
  BY <1>2, <1>6, <1>7
<1>11. own = <<>> => min' <= J!Pods'
  BY <1>2, <1>3, <1>8, <1>9
<1> QED
  BY <1>10, <1>11 DEF J!CanStart

\* The pods are those of the tasks: while these stay, so do they.
PodsOf(T) == J!FoldSeq(LAMBDA t, n : n + t.replicas, 0, T)
PodsAreOfTasks == J!Pods = PodsOf(tasks)

LEMMA PodsOfTasks == PodsAreOfTasks
BY Zenon DEF PodsAreOfTasks, PodsOf, J!Pods

LEMMA PodsOfTasksNext == PodsAreOfTasks'
BY PodsOfTasks, PTL

LEMMA SamePods == ASSUME UNCHANGED <<tasks, min, own>>, J!CanStart PROVE J!CanStart'
<1>1. J!Pods' = J!Pods
  BY PodsOfTasks, PodsOfTasksNext DEF PodsAreOfTasks
<1> QED
  BY <1>1 DEF J!CanStart

LEMMA JobInit == ASSUME J!Init PROVE J!PatchInv
BY DEF J!Init, J!PatchInv

LEMMA JobNext == ASSUME JobAssumption, J!PatchInv, J!Next PROVE J!PatchInv'
<1>1. CASE J!Patch
  <2>1. /\ at = "patch" /\ at' = "submit" /\ UNCHANGED <<mode, ask, own>>
    BY <1>1 DEF J!Patch, J!Go, J!conf
  <2>2. ASSUME ~ failed', mode # "ps" PROVE J!CanStart'
    BY <1>1, <2>1, <2>2, PodCanStart, CollectiveCanStart, SparkCanStart DEF J!Patch
  <2> QED
    BY <2>1, <2>2 DEF J!PatchInv
<1>2. CASE J!createJobFromYaml
  BY <1>2 DEF J!createJobFromYaml, J!conf, J!PatchInv, J!getJobYamlContent
<1>3. ASSUME UNCHANGED <<mode, ask, own, tasks, min, failed>>, at' # "patch" \/ at = "patch",
             at' \in {"submit", "start", "created"} => at \in {"submit", "start", "created"}
      PROVE  J!PatchInv'
  <2>1. J!CanStart => J!CanStart'
    BY <1>3, SamePods
  <2> QED
    BY <1>3, <2>1 DEF J!PatchInv, J!getJobYamlContent
<1>4. CASE J!ValidateJob \/ J!getNamespaceByQueueName \/ J!createFSClaims
  BY <1>3, <1>4 DEF J!ValidateJob, J!getNamespaceByQueueName, J!createFSClaims, J!conf, J!object
<1>5. CASE J!persistAndExecuteJob \/ J!StartJob \/ J!DeleteQueue \/ J!DeleteFs
  BY <1>3, <1>5 DEF J!persistAndExecuteJob, J!StartJob, J!DeleteQueue, J!DeleteFs, J!conf, J!object
<1> QED
  BY <1>1, <1>2, <1>4, <1>5 DEF J!Next

\* A job that is created without an error outside ps mode can start: whatever the template and the
\* numbers asked for, a container that mounts the file system is in a pod that has the volume, and
\* the scheduler does not wait for more pods than there are (patchVCJobVariable(),
\* patchSparkAppVariable()).
THEOREM CreatedPodsCanStart == Spec => []PodsCanStart
<1> DEFINE Inv == which = "job" => J!PatchInv
<1>1. Init => Inv
  BY JobInit DEF Init
<1>2. Inv /\ [Next]_all => Inv'
  <2> SUFFICES ASSUME Inv, [Next]_all PROVE Inv'
    OBVIOUS
  <2>1. CASE UNCHANGED all
    <3>1. UNCHANGED which /\ UNCHANGED <<mode, ask, own, at, tasks, min, failed>>
      BY <2>1 DEF all
    <3>2. J!CanStart => J!CanStart'
      BY <3>1, SamePods
    <3> QED
      BY <3>1, <3>2 DEF J!PatchInv, J!getJobYamlContent
  <2>2. CASE which = "job" /\ J!Next /\ UNCHANGED which
    BY <2>2, JobNext, JobAssumption
  <2>3. CASE which # "job" /\ UNCHANGED which
    BY <2>3
  <2> QED
    BY <2>1, <2>2, <2>3 DEF Next
<1>3. Inv => PodsCanStart
  BY DEF PodsCanStart, J!PodsCanStart, J!Created, J!PatchInv
<1> QED
  BY <1>1, <1>2, <1>3, PTL DEF Spec
=============================================================================
