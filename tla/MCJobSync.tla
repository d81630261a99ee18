------------------------------ MODULE MCJobSync ------------------------------
(* Instances of JobSync for TLC: a Volcano job with failing calls, or a Spark *)
(* application whose reads fail as often as there are retries.                *)
EXTENDS JobSync

VARIABLE spark   \* which of the two it is

CallErrs == {"startErr", "getErr", "saveErr"}
CommitGetErrs == {"commitErr", "getErr"}
SaveErrs == {"saveErr"}
NoFaults == {}

K == INSTANCE JobSync
       WITH Kind <- "spark", Faults <- CommitGetErrs, MaxFaults <- 3,
            MaxChanges <- 2, MaxPodEvents <- 0

MCInit == spark \in BOOLEAN /\ Init

MCNext ==
  /\ \/ spark /\ K!Next
     \/ ~spark /\ Next
  /\ UNCHANGED spark

\* FairSpec for the Spark application.
MCSpec ==
  /\ MCInit /\ [][MCNext]_<<vars, spark>>
  /\ WF_vars(spark /\ (K!Commit \/ K!CommitErr))
  /\ WF_vars(spark /\ K!Worker)
  /\ \A item \in K!Items : WF_vars(spark /\ K!Ripe(item))

\* EndIsRecorded, for the Spark application: one failing Save() is enough to
\* break it.
SparkEndIsRecorded ==
  spark /\ submit = "done" /\ (phase \in EndPhases \/ ~there)
    ~> row \in Immutable
=============================================================================
