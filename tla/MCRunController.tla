--------------------------- MODULE MCRunController ---------------------------
(* Instances of RunController for TLC: several requests and the image handler, *)
(* or a longer series of requests, one at a time.                              *)
EXTENDS RunController

CONSTANTS r1, r2, g1,
  MaxSeries       \* bound on the engines of requests that come one at a time
VARIABLE single   \* whether requests come one at a time

One == {r1}
Two == {r1, r2}
NoImages == {}
Image == {g1}
AnyFault == FaultKinds
NoFault == {}
NotDbErr == FaultKinds \ {"dbErr"}

\* r2 and g1 stay idle: nothing is to be done for the image.
Q == INSTANCE RunController
       WITH Requests <- One, Images <- {r2, g1}, MaxWf <- MaxSeries, Tar <- FALSE,
            Faults <- NotDbErr

ASSUME SeriesAssumption == MaxSeries \in Nat

MCInit == single \in BOOLEAN /\ IF single THEN Q!Init ELSE Init

\* Of the series a state in which a final status was lost has no successors: what
\* is checked of it claims nothing from there on.
MCNext ==
  /\ \/ single /\ ~revived /\ Q!Next
     \/ ~single /\ Next
  /\ UNCHANGED single

\* FairSpec of the concurrent requests.
MCSpec ==
  /\ MCInit /\ [][MCNext]_<<vars, single>>
  /\ \A t \in Threads : WF_vars(~single /\ Proceed(t))

\* One request at a time: StopRun() can reach the engine at work, and none is
\* at work for a deleted run (LiveIsStoppable, DeletedRunIsOver); unless a Stop()
\* wrote over a final status, after which the old engine may call back once more.
EnginesAreReachable == single /\ ~revived => Q!LiveIsStoppable /\ Q!DeletedRunIsOver

\* StopIsForGood, for concurrent requests: what StopRun() cancels stays so.
StopStays ==
  \A t \in Requests, i \in Wfs :
    ~single /\ pc[t] = "stopWf" /\ mine[t] = i ~> [](wf[i].cancelled \/ wf[i].ended)
=============================================================================
