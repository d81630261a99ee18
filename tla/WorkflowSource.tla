--------------------------- MODULE WorkflowSource ---------------------------
(***************************************************************************)
(* pkg/pipeline/workflow.go, common.go and NewStep of step.go: how a run's *)
(* yaml becomes a workflow.  The steps the entry needs are collected, they *)
(* are sorted, the run's parameters are written over the yaml's, every     *)
(* reference is checked, and the steps are built in the sorted order, each *)
(* writing its resolved values back into the source the later ones read.   *)
(*                                                                         *)
(* Every loop over a Go map visits it in an arbitrary order, so each of    *)
(* them is a step of this module that picks the next name.  A value is a   *)
(* record: kind "lit" with the step whose name it spells ("" is text       *)
(* without one), "sys" for {{PF_STEP_NAME}}, "ref" for {{step.p}}, "dict"  *)
(* for {type: string, default: ...}; every step has at most one parameter. *)
(***************************************************************************)
EXTENDS Naturals, Sequences, FiniteSets, SequencesExt

CONSTANTS Steps,          \* names a yaml may define or mention
          Values,         \* the values a parameter may have in the yaml
          Overrides       \* the run's parameter: records [step, val], step "" when the name has no dot

None == [kind |-> "none"]                \* no such key in Parameters
Lit(s) == [kind |-> "lit", step |-> s]
Sys == [kind |-> "sys"]
Ref(s) == [kind |-> "ref", step |-> s]
Dict(v) == [kind |-> "dict", default |-> v]

VARIABLES deps,           \* [defined -> SUBSET Steps], GetDeps() of every entry point
          yaml,           \* Source.EntryPoints as written: [defined -> Values or None]
          entry,          \* the run's entry, "" for all
          params,         \* the run's parameters, at most one
          source,         \* Source.EntryPoints as it is now, written in place
          asked,          \* history: source once the run's parameter was written over it
          runSteps,       \* getRunSteps()
          pending,        \* names whose recursiveGetRunSteps call is still to be made
          unsorted, pass, moved, sorted,   \* topologicalSort: what is left, this pass
          todo,           \* steps checkSteps or the build still visits
          phase           \* where NewWorkflow is; "ready" and "refused" are its results
vars == <<deps, yaml, entry, params, source, asked, runSteps, pending, unsorted, pass, moved, sorted, todo, phase>>
given == <<deps, yaml, entry, params>>
sorting == <<unsorted, pass, moved, sorted>>

Defined == DOMAIN deps

\* getRunSteps: every step, or those a recursive call from the entry adds.
getRunSteps == IF entry = "" THEN [run |-> Defined, calls |-> {}] ELSE [run |-> {}, calls |-> {entry}]

Init == /\ \E D \in (SUBSET Steps) \ {{}} : /\ deps \in [D -> SUBSET Steps]
                                          /\ yaml \in [D -> Values \cup {None}]
        /\ entry \in {""} \cup Steps
        /\ params \in SUBSET Overrides /\ Cardinality(params) <= 1
        /\ source = yaml /\ asked = yaml
        /\ runSteps = getRunSteps.run /\ pending = getRunSteps.calls
        /\ unsorted = {} /\ pass = {} /\ moved = FALSE /\ sorted = <<>> /\ todo = {}
        /\ phase = "collect"

(***************************************************************************)
(* getRunSteps: one recursive call per pending name.                       *)
(***************************************************************************)
recursiveGetRunSteps(s) ==
    /\ phase = "collect" /\ s \in pending
    /\ LET new == s \in Defined \ runSteps
       IN /\ runSteps' = runSteps \cup (IF new THEN {s} ELSE {})
          /\ pending' = (pending \ {s}) \cup (IF new THEN deps[s] \ {s} ELSE {})
    /\ UNCHANGED <<given, asked, source, sorting, todo, phase>>

\* validate(): an entry the yaml does not define is refused first.
Validate == /\ phase = "collect" /\ pending = {}
            /\ phase' = IF entry \in {""} \cup Defined THEN "sort" ELSE "refused"
            /\ unsorted' = runSteps /\ pass' = runSteps
            /\ UNCHANGED <<given, asked, source, runSteps, pending, moved, sorted, todo>>

(***************************************************************************)
(* topologicalSort, called by checkRunYaml and by newWorkflowRuntime: a    *)
(* pass visits what is left; a step none of whose parents is left moves to *)
(* the result at once, so later steps of the same pass see it gone.        *)
(***************************************************************************)
After == [sort |-> "override", again |-> "build"]

\* Mutant: only the parents this pass has yet to visit hold a step back.
ResolvedSoFar(s) == deps[s] \cap pass = {}
Resolved(s) == deps[s] \cap unsorted = {}

VisitNode(s) == /\ phase \in DOMAIN After /\ s \in pass
                /\ pass' = pass \ {s}
                /\ IF Resolved(s)
                   THEN unsorted' = unsorted \ {s} /\ sorted' = Append(sorted, s) /\ moved' = TRUE
                   ELSE UNCHANGED <<unsorted, sorted, moved>>
                /\ UNCHANGED <<given, asked, source, runSteps, pending, todo, phase>>

EndPass == /\ phase \in DOMAIN After /\ pass = {}
           /\ phase' = CASE unsorted = {} -> After[phase] [] unsorted # {} /\ moved -> phase [] OTHER -> "cyclic"
           /\ pass' = unsorted /\ moved' = FALSE
           /\ UNCHANGED <<given, asked, source, runSteps, pending, unsorted, sorted, todo>>

(***************************************************************************)
(* checkParams: a dotted name overrides that step's parameter, a bare one  *)
(* the parameter of the first step the map yields that has it.             *)
(***************************************************************************)
Holders(o) == {s \in Defined : (o.step = "" \/ o.step = s) /\ source[s] # None}

replaceRunParam ==
    /\ phase = "override"
    /\ \/ params = {} /\ source' = source /\ phase' = "check"
       \/ \E o \in params :
             \/ Holders(o) = {} /\ phase' = "refused" /\ source' = source
             \/ \E s \in Holders(o) : source' = [source EXCEPT ![s] = o.val] /\ phase' = "check"
    /\ todo' = runSteps /\ asked' = source'
    /\ UNCHANGED <<given, runSteps, pending, sorting>>

(***************************************************************************)
(* StepParamSolver.  A reference may only name a dependency; its value is  *)
(* resolved recursively, with the system parameters of the step the        *)
(* solver was made for.  A dict stands for its default, taken as it is.    *)
(***************************************************************************)
Error == [kind |-> "error"]

checkDictParam(v) == v.default

\* (A dependency the solver does not know is a nil pointer: the request ends there as well.)
refParamExist(known, at, s) == s \in deps[at] \cap known /\ source[s] # None

\* `value' gives the values of the steps v may refer to.
resolveRefParam(known, me, at, v, replace, value) ==
    CASE v.kind = "sys" -> IF replace THEN Lit(me) ELSE v
      [] v.kind = "ref" -> IF ~refParamExist(known, at, v.step) THEN Error
                           ELSE IF value[v.step] # Error /\ ~replace THEN v ELSE value[v.step]
      [] OTHER -> v

checkParamValue(known, me, at, replace, value) ==
    IF source[at].kind = "dict" THEN checkDictParam(source[at])
    ELSE resolveRefParam(known, me, at, source[at], replace, value)

Solve(s, known, replace) ==
    LET value[at \in known] == checkParamValue(known, s, at, replace, value)
    IN  value[s]

\* checkSteps: nothing is replaced, but a dict already becomes its default.
checkSteps(s) == /\ phase = "check" /\ s \in todo
                 /\ LET v == Solve(s, runSteps, FALSE)
                    IN IF v = Error THEN phase' = "refused" /\ UNCHANGED <<source, todo>>
                       ELSE source' = [source EXCEPT ![s] = v] /\ todo' = todo \ {s} /\ phase' = phase
                 /\ UNCHANGED <<given, asked, runSteps, pending, sorting>>

\* newWorkflowRuntime: the same graph is sorted again, then NewStep goes in that order.
newWorkflowRuntime ==
    /\ phase = "check" /\ todo = {}
    /\ phase' = "again" /\ unsorted' = runSteps /\ pass' = runSteps /\ sorted' = <<>> /\ moved' = FALSE
    /\ UNCHANGED <<given, asked, source, runSteps, pending, todo>>

\* Mutant: the solver knows this step only.
updateJobAlone(s) == Solve(s, {s}, TRUE)
\* updateJob: the solver knows the steps built so far and this one.
updateJob(s) == Solve(s, runSteps \ Range(Tail(sorted)), TRUE)

NewStep(s) == /\ phase = "build" /\ sorted # <<>> /\ s = Head(sorted)
              /\ LET v == updateJob(s)
                 IN IF v = Error THEN phase' = "refused" /\ UNCHANGED <<source, sorted>>
                    ELSE source' = [source EXCEPT ![s] = v] /\ sorted' = Tail(sorted) /\ phase' = phase
              /\ UNCHANGED <<given, asked, runSteps, pending, unsorted, pass, moved, todo>>

NewWorkflow == /\ phase = "build" /\ sorted = <<>> /\ phase' = "ready"
               /\ UNCHANGED <<given, asked, source, runSteps, pending, sorting, todo>>

Next == \/ \E s \in Steps : recursiveGetRunSteps(s) \/ VisitNode(s) \/ checkSteps(s) \/ NewStep(s)
        \/ Validate \/ EndPass \/ replaceRunParam \/ newWorkflowRuntime \/ NewWorkflow

Spec == Init /\ [][Next]_vars

-----------------------------------------------------------------------------
\* A set of steps each of which waits for another of the set: a cycle, and only then.
Circular == \E C \in (SUBSET runSteps) \ {{}} : \A s \in C : deps[s] \cap C # {}

\* The steps that are built are those the entry needs, and each comes after every step it
\* depends on, whatever order the maps were visited in (topologicalSort).
SortedByNeed ==
    phase \in {"override", "build"} =>
        /\ \A i, j \in 1 .. Len(sorted) : i <= j => sorted[j] \notin deps[sorted[i]]
        /\ \A s \in runSteps : deps[s] \cap Defined \subseteq runSteps
        /\ entry # "" => \A s \in runSteps \ {entry} : \E r \in runSteps : s \in deps[r]

\* "workflow is not acyclic" is answered exactly when the steps to run contain a cycle.
CyclesAreRefused == /\ phase = "cyclic" => Circular
                    /\ phase \in {"override", "check", "build", "ready"} => ~Circular

\* The order of the steps is sound, whatever order the maps were visited in.
SortIsSound == SortedByNeed /\ CyclesAreRefused

\* A dictionary stands for its default, a system parameter for the step that wrote it, and a
\* reference for what the dependency's parameter stands for.
Plain(v) == IF v.kind = "dict" THEN v.default ELSE v

StandsFor(s) == LET v == Plain(asked[s])
                IN  IF v.kind = "sys" THEN Lit(s) ELSE IF v.kind = "ref" THEN source[v.step] ELSE v

\* A reference to no dependency, or to one without a parameter.
Broken(s) == LET v == Plain(asked[s])
             IN  v.kind = "ref" /\ (v.step \notin deps[s] \cap Defined \/ asked[v.step] = None)

\* The values the steps run with are the yaml's: building a step never writes its own name into
\* a value another step wrote, though the solver only knows the step it was made for. (There are
\* no cycles by then, so no other values are related like these.)
ValuesKeepTheirStep == phase = "ready" => \A s \in runSteps : source[s] = StandsFor(s)

\* Whether a workflow is accepted is decided by the yaml and its parameter, not by the order in
\* which checkSteps and the build happened to visit it.
OrderDecidesNothing ==
    /\ phase = "ready" => \A s \in runSteps : ~Broken(s)
    /\ phase = "refused" => \/ entry \notin {""} \cup Defined
                            \/ \E o \in params : \A s \in Defined : (o.step = s \/ o.step = "") => yaml[s] = None
                            \/ \E s \in runSteps : Broken(s)

\* What a run's parameters become depends on the yaml alone (Solve, updateJob).
ParamsAreSound == ValuesKeepTheirStep /\ OrderDecidesNothing

\* Not true of the code: a name in deps that no entry point defines passes every check
\* (isDepsReady then reads a step that is not there).
DependenciesExist == phase = "ready" => \A s \in runSteps : deps[s] \subseteq Defined
-----------------------------------------------------------------------------
(* The invariant behind SortIsSound *)

\* What the variables hold, until the steps are built.
Shape ==
    /\ Defined \subseteq Steps /\ deps \in [Defined -> SUBSET Steps]
    /\ runSteps \subseteq Defined /\ pending \subseteq Steps
    /\ pass \subseteq unsorted /\ unsorted \subseteq runSteps /\ sorted \in Seq(runSteps)
    /\ phase \in {"collect", "sort", "override", "check", "again", "build", "ready", "refused", "cyclic"}

\* The steps collected are closed under dependencies but for the calls still to be made, and
\* each of them, but the entry, is a dependency of one.
CollectedByNeed ==
    /\ phase = "collect" \/ pending = {}
    /\ \A s \in runSteps : deps[s] \cap Defined \subseteq runSteps \cup pending
    /\ entry # "" => \A s \in (runSteps \cup pending) \ {entry} : \E r \in runSteps : s \in deps[r]

\* What is sorted comes after what it depends on, and depends on nothing that is left.
Ordered == /\ \A i, j \in 1 .. Len(sorted) : i <= j => sorted[j] \notin deps[sorted[i]]
           /\ \A i, j \in 1 .. Len(sorted) : i # j => sorted[i] # sorted[j]

Sorting == /\ unsorted = runSteps \ Range(sorted)
           /\ \A i \in 1 .. Len(sorted) : deps[sorted[i]] \cap unsorted = {}
           /\ moved \/ \A s \in unsorted \ pass : ~Resolved(s)

SortInv ==
    /\ Shape /\ CollectedByNeed /\ CyclesAreRefused
    /\ phase = "collect" => sorted = <<>> /\ ~moved
    /\ phase \in DOMAIN After \cup {"override", "check", "build"} => Ordered
    /\ phase \in DOMAIN After => Sorting
    /\ phase \in {"override", "check"} => Range(sorted) = runSteps
    /\ phase = "again" => ~Circular

-----------------------------------------------------------------------------
(* The invariant behind ParamsAreSound *)

Plains == {Sys} \cup [kind : {"lit", "ref"}, step : Steps \cup {""}]
Written == Plains \cup {Dict(v) : v \in Plains}

Built == runSteps \ Range(sorted)

\* Nothing was written before the run's parameter; then a checked step has no dictionary.
CheckedInv ==
    /\ source \in [Defined -> Written \cup {None}] /\ asked \in [Defined -> Written \cup {None}]
    /\ params \subseteq Overrides
    /\ phase \in {"collect", "sort", "override"} => source = yaml
    /\ phase = "check" => /\ todo \subseteq runSteps
                          /\ \A s \in runSteps : source[s] = asked[s] \/ source[s] = Plain(asked[s])
                          /\ \A s \in runSteps \ todo : source[s] = Plain(asked[s])
    /\ phase = "again" => \A s \in runSteps : source[s] = Plain(asked[s])

\* A step is built after its dependencies, and has a text then, or no parameter, as was asked.
BuiltInv ==
    phase \in {"build", "ready"} =>
        /\ \A s \in runSteps \ Built : source[s] = Plain(asked[s])
        /\ \A s \in Built : /\ deps[s] \cap Defined \subseteq Built /\ ~Broken(s)
                            /\ source[s] = StandsFor(s) /\ source[s].kind \in {"lit", "none"}
                            /\ source[s] = None <=> asked[s] = None
        /\ phase = "ready" => Built = runSteps

ParamInv == CheckedInv /\ BuiltInv /\ OrderDecidesNothing
=============================================================================
