----------------------------- MODULE MCWorkflow ------------------------------
(* Small workflows for the model checker: two independent steps, a chain of *)
(* two, and a join of two steps into a third.                               *)
EXTENDS WorkflowRefinement, TLC
CONSTANTS a, b, c
AB == {a, b}
ABC == {a, b, c}
Independent == [s \in AB |-> {}]
Chain == [s \in AB |-> IF s = b THEN {a} ELSE {}]
\* The two steps of Independent, and the first two of Join, are alike.
Swap == Permutations(AB)
Join == [s \in ABC |-> IF s = c THEN {a, b} ELSE {}]
=============================================================================
