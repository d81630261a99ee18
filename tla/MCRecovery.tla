----------------------------- MODULE MCRecovery ------------------------------
(* Two steps, in a chain or independent, and a server that dies now and then. *)
(* In half of the behaviours nothing is cached and a user stops the run.      *)
EXTENDS RunRecovery, TLC
CONSTANTS a, b
VARIABLE stopped   \* which half it is
AB == {a, b}
Independent == [s \in AB |-> {}]
Chain == [s \in AB |-> IF s = b THEN {a} ELSE {}]

U == INSTANCE RunRecovery
       WITH CacheEnabled <- FALSE, MaxCrashes <- 1, Env <- {"userStop"}

MCInit == stopped \in BOOLEAN /\ RecoveryInit

MCNext ==
  /\ \/ ~stopped /\ RecoveryNext
     \/ stopped /\ U!RecoveryNext
  /\ UNCHANGED stopped

MCSpec == MCInit /\ [][MCNext]_<<recoveryVars, stopped>>
=============================================================================
