------------------------ MODULE WorkflowRuntimeProofs ------------------------
(***************************************************************************)
(* Proofs about the pipeline engine for any finite set of steps, any       *)
(* dependencies, any parallelism and any environment.  IInv of             *)
(* WorkflowRuntime is shown inductive together with TypeOK; the safety     *)
(* properties follow from it, and that the engine implements the abstract  *)
(* run.  Last, a run that outlives its server, with any number of crashes: *)
(* RInv of RunRecovery is inductive together with RecoveryTypeOK, and what *)
(* a restart promises follows from it.                                     *)
(***************************************************************************)
EXTENDS WorkflowRefinement, RunRecovery, FiniteSetTheorems, TLAPS

\* No step overwrites a lasting job status.
StatusStable ==
  \A s \in Steps : jobStatus[s] \in Lasting => jobStatus'[s] = jobStatus[s]

-----------------------------------------------------------------------------
(* Type correctness *)

\* Giving a slot back (DecConcurrentJobs) keeps the count within the
\* capacity.
LEMMA ReleaseType == ASSUME TypeOK, Release PROVE slots' \in 0..Parallelism
<1>1. slots \in 0..Parallelism
  BY DEF TypeOK
<1>. QED
  BY <1>1, ParallelismAssumption DEF Release

\* Every step of the engine keeps the types. The invariant is needed for what
\* a poll may put in the channel of Step.Watch().
LEMMA NextTypeOK == TypeOK /\ IInv /\ [Next]_vars => TypeOK'
<1> SUFFICES ASSUME TypeOK, IInv, [Next]_vars PROVE TypeOK'
  OBVIOUS
<1> USE DEF runVars, stepVars, watchVars
<1>1. CASE UNCHANGED vars
  BY <1>1 DEF TypeOK, vars
<1>2. CASE StartBegin
  BY <1>2 DEF TypeOK, StartBegin, RunStatus, ListenPc
<1>3. CASE StartListen
  BY <1>3 DEF TypeOK, StartListen, ListenPc
<1>4. CASE ListenRecv
  <2>1. events \in 0..Parallelism
    BY DEF TypeOK
  <2>2. events' \in 0..Parallelism
    BY <1>4, <2>1, ParallelismAssumption DEF ListenRecv
  <2>. QED
    BY <1>4, <2>2 DEF TypeOK, ListenRecv, ListenPc
<1>5. CASE ListenDecide
  BY <1>5 DEF TypeOK, ListenDecide, Verdict, Blank, ListenPc, Final, Tally
<1>6. CASE ListenAssign
  BY <1>6 DEF TypeOK, ListenAssign, ListenPc, RunStatus
<1>7. CASE ListenContinue
  BY <1>7 DEF TypeOK, ListenContinue, Blank, ListenPc, Tally
<1>8. CASE ListenCallback
  BY <1>8 DEF TypeOK, ListenCallback, RuntimeView, RuntimeViews, ListenPc
<1>9. CASE ListenCallbackLost
  BY <1>9 DEF TypeOK, ListenCallbackLost, ListenPc
<1>10. CASE ListenCheck
  BY <1>10 DEF TypeOK, ListenCheck, ListenPc
<1>11. CASE StopCheck
  BY <1>11 DEF TypeOK, StopCheck, StopPc
<1>12. CASE StopCancel
  BY <1>12 DEF TypeOK, StopCancel, StopPc
<1>13. CASE StopMark
  BY <1>13 DEF TypeOK, StopMark, StopPc, RunStatus
<1>14. ASSUME NEW s \in Steps, StartStep(s) PROVE TypeOK'
  BY <1>14 DEF TypeOK, StartStep, ExecPc, Tally
<1>15. ASSUME NEW s \in Steps, SendReady(s) PROVE TypeOK'
  BY <1>15 DEF TypeOK, SendReady, Tally
<1>16. ASSUME NEW s \in Steps, ListenScan(s) PROVE TypeOK'
  BY <1>16 DEF TypeOK, ListenScan, Look, Tally
<1>17. ASSUME NEW s \in Steps, ExecCancelled(s) PROVE TypeOK'
  BY <1>17 DEF TypeOK, ExecCancelled, EndStep, ExecPc, JobStatus
<1>18. ASSUME NEW s \in Steps, ExecReady(s) PROVE TypeOK'
  BY <1>18 DEF TypeOK, ExecReady, ExecPc
<1>19. ASSUME NEW s \in Steps, ExecAcquire(s) PROVE TypeOK'
  <2>1. slots \in 0..Parallelism
    BY DEF TypeOK
  <2>2. slots' \in 0..Parallelism
    BY <1>19, <2>1, ParallelismAssumption DEF ExecAcquire
  <2>. QED
    BY <1>19, <2>2 DEF TypeOK, ExecAcquire, ExecPc
<1>20. ASSUME NEW s \in Steps, ExecAbort(s) PROVE TypeOK'
  BY <1>20, ReleaseType DEF TypeOK, ExecAbort, EndStep, ExecPc, JobStatus
<1>21. ASSUME NEW s \in Steps, ExecProceed(s) PROVE TypeOK'
  BY <1>21 DEF TypeOK, ExecProceed, ExecPc
<1>22. ASSUME NEW s \in Steps, ExecCacheErr(s) PROVE TypeOK'
  BY <1>22, ReleaseType DEF TypeOK, ExecCacheErr, EndStep, ExecPc, JobStatus, Ended
<1>23. ASSUME NEW s \in Steps, ExecCacheHit(s) PROVE TypeOK'
  BY <1>23, ReleaseType DEF TypeOK, ExecCacheHit, EndStep, ExecPc, JobStatus
<1>24. ASSUME NEW s \in Steps, ExecCacheMiss(s) PROVE TypeOK'
  BY <1>24 DEF TypeOK, ExecCacheMiss, ExecPc
<1>25. ASSUME NEW s \in Steps, ExecSubmitErr(s) PROVE TypeOK'
  BY <1>25 DEF TypeOK, ExecSubmitErr, EndStep, ExecPc, JobStatus, Ended
<1>26. ASSUME NEW s \in Steps, ExecSubmit(s) PROVE TypeOK'
  BY <1>26 DEF TypeOK, ExecSubmit, ExecPc, JobWatchPc, StopperPc, PolledStatus
<1>27. ASSUME NEW s \in Steps, ExecSend(s) PROVE TypeOK'
  <2>1. events \in 0..Parallelism
    BY DEF TypeOK
  <2>2. events' \in 0..Parallelism
    BY <1>27, <2>1, ParallelismAssumption DEF ExecSend
  <2>. QED
    BY <1>27, <2>2 DEF TypeOK, ExecSend, ExecPc
<1>28. ASSUME NEW s \in Steps, WatchRecv(s) PROVE TypeOK'
  BY <1>28, ReleaseType DEF TypeOK, WatchRecv, ExecPc
<1>29. ASSUME NEW s \in Steps, WatchForward(s) PROVE TypeOK'
  <2>1. events \in 0..Parallelism
    BY DEF TypeOK
  <2>2. events' \in 0..Parallelism
    BY <1>29, <2>1, ParallelismAssumption DEF WatchForward
  <2>. QED
    BY <1>29, <2>2 DEF TypeOK, WatchForward, ExecPc
<1>30. ASSUME NEW s \in Steps, JobPoll(s) PROVE TypeOK'
  BY <1>30 DEF TypeOK, IInv, StepInv, JobPoll, JobWatchPc, PolledStatus
<1>31. ASSUME NEW s \in Steps, JobAssign(s) PROVE TypeOK'
  BY <1>31 DEF TypeOK, JobAssign, JobWatchPc, PolledStatus, JobStatus
<1>32. ASSUME NEW s \in Steps, JobPollMessage(s) PROVE TypeOK'
  BY <1>32 DEF TypeOK, IInv, StepInv, JobPollMessage, PolledStatus
<1>33. ASSUME NEW s \in Steps, JobPollErr(s) PROVE TypeOK'
  BY <1>33 DEF TypeOK, JobPollErr
<1>34. ASSUME NEW s \in Steps, StopJobBegin(s) PROVE TypeOK'
  BY <1>34 DEF TypeOK, StopJobBegin, StopperPc
<1>35. ASSUME NEW s \in Steps, StopJobOk(s) PROVE TypeOK'
  BY <1>35 DEF TypeOK, StopJobOk, StopperPc
<1>36. ASSUME NEW s \in Steps, StopJobErr(s) PROVE TypeOK'
  BY <1>36 DEF TypeOK, StopJobErr, StopperPc
<1>37. ASSUME NEW s \in Steps, StopJobReport(s) PROVE TypeOK'
  <2>1. events \in 0..Parallelism
    BY DEF TypeOK
  <2>2. events' \in 0..Parallelism
    BY <1>37, <2>1, ParallelismAssumption DEF StopJobReport
  <2>. QED
    BY <1>37, <2>2 DEF TypeOK, StopJobReport, StopperPc
<1>38. ASSUME NEW s \in Steps, ExtRun(s) PROVE TypeOK'
  BY <1>38 DEF TypeOK, ExtRun, ExtSet, PolledStatus
<1>39. ASSUME NEW s \in Steps, ExtSucceed(s) PROVE TypeOK'
  BY <1>39 DEF TypeOK, ExtSucceed, ExtSet, PolledStatus, Ended
<1>40. ASSUME NEW s \in Steps, ExtFail(s) PROVE TypeOK'
  BY <1>40 DEF TypeOK, ExtFail, ExtSet, PolledStatus, Ended
<1>41. ASSUME NEW s \in Steps, ExtTerminate(s) PROVE TypeOK'
  BY <1>41 DEF TypeOK, ExtTerminate, ExtSet, PolledStatus, Ended
<1>42. ASSUME NEW s \in Steps, ExtKill(s) PROVE TypeOK'
  BY <1>42 DEF TypeOK, ExtKill, ExtSet, PolledStatus, Ended
<1>. QED
  BY <1>1, <1>2, <1>3, <1>4, <1>5, <1>6, <1>7, <1>8, <1>9, <1>10, <1>11, <1>12,
     <1>13, <1>14, <1>15, <1>16, <1>17, <1>18, <1>19, <1>20, <1>21, <1>22, <1>23,
     <1>24, <1>25, <1>26, <1>27, <1>28, <1>29, <1>30, <1>31, <1>32, <1>33, <1>34,
     <1>35, <1>36, <1>37, <1>38, <1>39, <1>40, <1>41, <1>42
     DEF Next, Scheduler, Listen, Stop, Execute, JobWatch, StopJob, External

-----------------------------------------------------------------------------
(* The inductive invariant *)

\* No goroutine of the engine assigns over a lasting job status: Execute()
\* writes one only before the step has any, and PaddleFlowJob.Watch() assigns
\* no more once it has seen the end.
LEMMA NextStatusStable == ASSUME TypeOK, IInv, Next PROVE StatusStable
<1>1. jobStatus \in [Steps -> JobStatus] /\ exec \in [Steps -> ExecPc]
  BY DEF TypeOK
<1>2. ASSUME NEW s \in Steps, exec[s] \in Unstarted, NEW st, EndStep(s, st)
      PROVE StatusStable
  <2>1. jobStatus[s] = ""
    BY <1>2 DEF IInv, StepInv
  <2>. QED
    BY <1>1, <1>2, <2>1 DEF EndStep, StatusStable, Lasting, Ended
<1>3. ASSUME NEW s \in Steps, JobAssign(s) PROVE StatusStable
  <2>1. jobStatus[s] \notin Lasting
    BY <1>3 DEF IInv, StepInv, WatchInv, JobAssign, Lasting, Ended
  <2>. QED
    BY <1>1, <1>3, <2>1 DEF JobAssign, StatusStable
<1>4. ASSUME NEW s \in Steps,
             ExecCancelled(s) \/ ExecAbort(s) \/ ExecCacheErr(s)
               \/ ExecCacheHit(s) \/ ExecSubmitErr(s)
      PROVE StatusStable
  BY <1>2, <1>4 DEF ExecCancelled, ExecAbort, ExecCacheErr, ExecCacheHit,
                    ExecSubmitErr, Unstarted
<1>5. ASSUME UNCHANGED jobStatus PROVE StatusStable
  BY <1>5 DEF StatusStable
<1>. QED
  BY <1>3, <1>4, <1>5, ZenonT(60)
     DEF Next, Scheduler, Listen, Stop, Execute, JobWatch, StopJob, External, stepVars,
         StartBegin, StartListen, ListenRecv, ListenDecide, ListenAssign,
         ListenContinue, ListenCallback, ListenCallbackLost, ListenCheck, StopCheck,
         StopCancel, StopMark, StartStep, SendReady, ListenScan, ExecReady,
         ExecAcquire, ExecProceed, ExecCacheMiss, ExecSubmit, ExecSend, WatchRecv,
         WatchForward, JobPoll, JobPollMessage, JobPollErr, StopJobBegin, StopJobOk,
         StopJobErr, StopJobReport, ExtRun, ExtSucceed, ExtFail, ExtTerminate,
         ExtKill, ExtSet

\* Dependencies that were satisfied stay satisfied.
LEMMA DepsStable ==
  ASSUME StatusStable, NEW s \in Steps, isDepsReady(s)
  PROVE  isDepsReady(s)'
BY DepsAssumption DEF StatusStable, isDepsReady, Lasting, Ended

\* Every step of the engine preserves the relations between the goroutines,
\* flags and job of one step.
LEMMA NextStepInv ==
  ASSUME TypeOK, IInv, Next, NEW u \in Steps
  PROVE  StepInv(u)' /\ WatchInv(u)'
<1>1. /\ exec \in [Steps -> ExecPc] /\ done \in [Steps -> BOOLEAN]
      /\ submitted \in [Steps -> BOOLEAN] /\ ready \in [Steps -> BOOLEAN]
      /\ jobStatus \in [Steps -> JobStatus] /\ jw \in [Steps -> JobWatchPc]
      /\ got \in [Steps -> PolledStatus]
      /\ ch \in [Steps -> {"empty", "watchErr"} \cup PolledStatus]
      /\ ext \in [Steps -> {"none"} \cup PolledStatus]
  BY DEF TypeOK
<1>2. StepInv(u) /\ WatchInv(u) /\ SeenInv(u)
  BY DEF IInv
<1>3. isDepsReady(u) => isDepsReady(u)'
  BY NextStatusStable, DepsStable
<1> DEFINE Same == /\ exec'[u] = exec[u] /\ done'[u] = done[u]
                   /\ submitted'[u] = submitted[u] /\ ready'[u] = ready[u]
                   /\ jobStatus'[u] = jobStatus[u] /\ jw'[u] = jw[u]
                   /\ got'[u] = got[u] /\ ch'[u] = ch[u] /\ ext'[u] = ext[u]
<1>4. ASSUME Same PROVE StepInv(u)' /\ WatchInv(u)'
  <2>1. StepInv(u)'
    BY <1>2, <1>3, <1>4 DEF StepInv
  <2>2. WatchInv(u)'
    BY <1>2, <1>4 DEF WatchInv
  <2>. QED
    BY <2>1, <2>2
<1>5. ASSUME UNCHANGED <<stepVars, watchVars, ext>> PROVE Same
  BY <1>5 DEF stepVars, watchVars
<1>6. ASSUME NEW s \in Steps, s # u, StartStep(s) \/ SendReady(s) PROVE Same
  BY <1>1, <1>6 DEF StartStep, SendReady, watchVars
<1>7. ASSUME NEW s \in Steps, s # u, Execute(s) PROVE Same
  BY <1>1, <1>7 DEF Execute, ExecCancelled, ExecReady, ExecAcquire, ExecAbort,
     ExecProceed, ExecCacheErr, ExecCacheHit, ExecCacheMiss, ExecSubmitErr,
     ExecSubmit, ExecSend, WatchRecv, WatchForward, EndStep, watchVars
<1>8. ASSUME NEW s \in Steps, s # u, JobWatch(s) \/ External(s) PROVE Same
  BY <1>1, <1>8 DEF JobWatch, JobPoll, JobAssign, JobPollMessage, JobPollErr,
     External, ExtRun, ExtSucceed, ExtFail, ExtTerminate, ExtKill, ExtSet,
     stepVars, watchVars
<1> HIDE DEF Same
<1>9. ASSUME StartStep(u) PROVE StepInv(u)' /\ WatchInv(u)'
  <2>1. StepInv(u)'
    BY <1>1, <1>2, <1>3, <1>9
       DEF StartStep, StepInv, Unstarted, Ended, stepVars, watchVars
  <2>2. WatchInv(u)'
    BY <1>1, <1>2, <1>9
       DEF StartStep, StepInv, WatchInv, Unstarted, Ended, stepVars, watchVars
  <2>. QED
    BY <2>1, <2>2
<1>10. ASSUME SendReady(u) PROVE StepInv(u)' /\ WatchInv(u)'
  <2>1. StepInv(u)'
    BY <1>1, <1>2, <1>3, <1>10
       DEF SendReady, StepInv, SeenInv, Unstarted, Ended, stepVars, watchVars
  <2>2. WatchInv(u)'
    BY <1>1, <1>2, <1>10
       DEF SendReady, StepInv, SeenInv, WatchInv, Unstarted, Ended, stepVars, watchVars
  <2>. QED
    BY <2>1, <2>2
<1>11. ASSUME ExecCancelled(u) PROVE StepInv(u)' /\ WatchInv(u)'
  <2>1. StepInv(u)'
    BY <1>1, <1>2, <1>3, <1>11
       DEF ExecCancelled, EndStep, StepInv, Unstarted, Ended, stepVars, watchVars
  <2>2. WatchInv(u)'
    BY <1>1, <1>2, <1>11
       DEF ExecCancelled, EndStep, StepInv, WatchInv, Unstarted, Ended, stepVars,
           watchVars
  <2>. QED
    BY <2>1, <2>2
<1>12. ASSUME ExecReady(u) PROVE StepInv(u)' /\ WatchInv(u)'
  <2>1. StepInv(u)'
    BY <1>1, <1>2, <1>3, <1>12
       DEF ExecReady, StepInv, Unstarted, Ended, stepVars, watchVars
  <2>2. WatchInv(u)'
    BY <1>1, <1>2, <1>12
       DEF ExecReady, StepInv, WatchInv, Unstarted, Ended, stepVars, watchVars
  <2>. QED
    BY <2>1, <2>2
<1>13. ASSUME ExecAcquire(u) PROVE StepInv(u)' /\ WatchInv(u)'
  <2>1. StepInv(u)'
    BY <1>1, <1>2, <1>3, <1>13
       DEF ExecAcquire, StepInv, Unstarted, Ended, stepVars, watchVars
  <2>2. WatchInv(u)'
    BY <1>1, <1>2, <1>13
       DEF ExecAcquire, StepInv, WatchInv, Unstarted, Ended, stepVars, watchVars
  <2>. QED
    BY <2>1, <2>2
<1>14. ASSUME ExecAbort(u) PROVE StepInv(u)' /\ WatchInv(u)'
  <2>1. StepInv(u)'
    BY <1>1, <1>2, <1>3, <1>14
       DEF ExecAbort, EndStep, StepInv, Unstarted, Ended, stepVars, watchVars
  <2>2. WatchInv(u)'
    BY <1>1, <1>2, <1>14
       DEF ExecAbort, EndStep, StepInv, WatchInv, Unstarted, Ended, stepVars, watchVars
  <2>. QED
    BY <2>1, <2>2
<1>15. ASSUME ExecProceed(u) PROVE StepInv(u)' /\ WatchInv(u)'
  <2>1. StepInv(u)'
    BY <1>1, <1>2, <1>3, <1>15
       DEF ExecProceed, StepInv, Unstarted, Ended, stepVars, watchVars
  <2>2. WatchInv(u)'
    BY <1>1, <1>2, <1>15
       DEF ExecProceed, StepInv, WatchInv, Unstarted, Ended, stepVars, watchVars
  <2>. QED
    BY <2>1, <2>2
<1>16. ASSUME ExecCacheErr(u) PROVE StepInv(u)' /\ WatchInv(u)'
  <2>1. StepInv(u)'
    BY <1>1, <1>2, <1>3, <1>16
       DEF ExecCacheErr, EndStep, StepInv, Unstarted, Ended, stepVars, watchVars
  <2>2. WatchInv(u)'
    BY <1>1, <1>2, <1>16
       DEF ExecCacheErr, EndStep, StepInv, WatchInv, Unstarted, Ended, stepVars, watchVars
  <2>. QED
    BY <2>1, <2>2
<1>17. ASSUME ExecCacheHit(u) PROVE StepInv(u)' /\ WatchInv(u)'
  <2>1. StepInv(u)'
    BY <1>1, <1>2, <1>3, <1>17
       DEF ExecCacheHit, EndStep, StepInv, Unstarted, Ended, stepVars, watchVars
  <2>2. WatchInv(u)'
    BY <1>1, <1>2, <1>17
       DEF ExecCacheHit, EndStep, StepInv, WatchInv, Unstarted, Ended, stepVars, watchVars
  <2>. QED
    BY <2>1, <2>2
<1>18. ASSUME ExecCacheMiss(u) PROVE StepInv(u)' /\ WatchInv(u)'
  <2>1. StepInv(u)'
    BY <1>1, <1>2, <1>3, <1>18
       DEF ExecCacheMiss, StepInv, Unstarted, Ended, stepVars, watchVars
  <2>2. WatchInv(u)'
    BY <1>1, <1>2, <1>18
       DEF ExecCacheMiss, StepInv, WatchInv, Unstarted, Ended, stepVars, watchVars
  <2>. QED
    BY <2>1, <2>2
<1>19. ASSUME ExecSubmitErr(u) PROVE StepInv(u)' /\ WatchInv(u)'
  <2>1. StepInv(u)'
    BY <1>1, <1>2, <1>3, <1>19
       DEF ExecSubmitErr, EndStep, StepInv, Unstarted, Ended, stepVars, watchVars
  <2>2. WatchInv(u)'
    BY <1>1, <1>2, <1>19
       DEF ExecSubmitErr, EndStep, StepInv, WatchInv, Unstarted, Ended, stepVars,
           watchVars
  <2>. QED
    BY <2>1, <2>2
<1>20. ASSUME ExecSubmit(u) PROVE StepInv(u)' /\ WatchInv(u)'
  <2>1. StepInv(u)'
    BY <1>1, <1>2, <1>3, <1>20
       DEF ExecSubmit, StepInv, Unstarted, Ended, stepVars, watchVars
  <2>2. WatchInv(u)'
    BY <1>1, <1>2, <1>20
       DEF ExecSubmit, StepInv, WatchInv, Unstarted, Ended, stepVars, watchVars
  <2>. QED
    BY <2>1, <2>2
<1>21. ASSUME ExecSend(u) PROVE StepInv(u)' /\ WatchInv(u)'
  <2>1. StepInv(u)'
    BY <1>1, <1>2, <1>3, <1>21
       DEF ExecSend, StepInv, Unstarted, Ended, stepVars, watchVars
  <2>2. WatchInv(u)'
    BY <1>1, <1>2, <1>21
       DEF ExecSend, StepInv, WatchInv, Unstarted, Ended, stepVars, watchVars
  <2>. QED
    BY <2>1, <2>2
<1>22. ASSUME WatchRecv(u) PROVE StepInv(u)' /\ WatchInv(u)'
  <2>1. StepInv(u)'
    BY <1>1, <1>2, <1>3, <1>22
       DEF WatchRecv, StepInv, Unstarted, Ended, stepVars, watchVars
  <2>2. WatchInv(u)'
    BY <1>1, <1>2, <1>22
       DEF WatchRecv, StepInv, WatchInv, Unstarted, Ended, stepVars, watchVars
  <2>. QED
    BY <2>1, <2>2
<1>23. ASSUME WatchForward(u) PROVE StepInv(u)' /\ WatchInv(u)'
  <2>1. StepInv(u)'
    BY <1>1, <1>2, <1>3, <1>23
       DEF WatchForward, StepInv, Unstarted, Ended, stepVars, watchVars
  <2>2. WatchInv(u)'
    BY <1>1, <1>2, <1>23
       DEF WatchForward, StepInv, WatchInv, Unstarted, Ended, stepVars, watchVars
  <2>. QED
    BY <2>1, <2>2
<1>24. ASSUME JobPoll(u) PROVE StepInv(u)' /\ WatchInv(u)'
  <2>1. StepInv(u)'
    BY <1>1, <1>2, <1>3, <1>24
       DEF JobPoll, StepInv, Unstarted, Ended, stepVars, watchVars
  <2>2. WatchInv(u)'
    BY <1>1, <1>2, <1>24
       DEF JobPoll, StepInv, WatchInv, Unstarted, Ended, stepVars, watchVars
  <2>. QED
    BY <2>1, <2>2
<1>25. ASSUME JobAssign(u) PROVE StepInv(u)' /\ WatchInv(u)'
  <2>1. /\ jw[u] = "assign" /\ ext[u] # "none" /\ exec[u] \notin Unstarted
        /\ jobStatus'[u] = got[u] /\ got'[u] = ""
        /\ jw'[u] = IF got[u] \in Ended THEN "closed" ELSE "poll"
        /\ got[u] \in PolledStatus
    BY <1>1, <1>2, <1>25 DEF StepInv, JobAssign
  <2>2. UNCHANGED <<exec, done, submitted, ready, ch, ext>>
    BY <1>25 DEF JobAssign
  <2>3. StepInv(u)'
    BY <1>2, <1>3, <2>1, <2>2 DEF StepInv, PolledStatus
  <2>4. WatchInv(u)'
    BY <1>2, <2>1, <2>2 DEF WatchInv, Ended
  <2>. QED
    BY <2>3, <2>4
<1>26. ASSUME JobPollMessage(u) PROVE StepInv(u)' /\ WatchInv(u)'
  <2>1. StepInv(u)'
    BY <1>1, <1>2, <1>3, <1>26
       DEF JobPollMessage, StepInv, Unstarted, Ended, stepVars, watchVars
  <2>2. WatchInv(u)'
    BY <1>1, <1>2, <1>26
       DEF JobPollMessage, StepInv, WatchInv, Unstarted, Ended, stepVars, watchVars
  <2>. QED
    BY <2>1, <2>2
<1>27. ASSUME JobPollErr(u) PROVE StepInv(u)' /\ WatchInv(u)'
  <2>1. StepInv(u)'
    BY <1>1, <1>2, <1>3, <1>27
       DEF JobPollErr, StepInv, Unstarted, Ended, stepVars, watchVars
  <2>2. WatchInv(u)'
    BY <1>1, <1>2, <1>27
       DEF JobPollErr, StepInv, WatchInv, Unstarted, Ended, stepVars, watchVars
  <2>. QED
    BY <2>1, <2>2
<1>28. ASSUME ExtRun(u) PROVE StepInv(u)' /\ WatchInv(u)'
  <2>1. StepInv(u)'
    BY <1>1, <1>2, <1>3, <1>28
       DEF ExtRun, ExtSet, Alive, StepInv, Unstarted, Ended, stepVars, watchVars
  <2>2. WatchInv(u)'
    BY <1>1, <1>2, <1>28
       DEF ExtRun, ExtSet, Alive, StepInv, WatchInv, Unstarted, Ended, stepVars, watchVars
  <2>. QED
    BY <2>1, <2>2
<1>29. ASSUME ExtSucceed(u) PROVE StepInv(u)' /\ WatchInv(u)'
  <2>1. StepInv(u)'
    BY <1>1, <1>2, <1>3, <1>29
       DEF ExtSucceed, ExtSet, Alive, StepInv, Unstarted, Ended, stepVars, watchVars
  <2>2. WatchInv(u)'
    BY <1>1, <1>2, <1>29
       DEF ExtSucceed, ExtSet, Alive, StepInv, WatchInv, Unstarted, Ended, stepVars,
           watchVars
  <2>. QED
    BY <2>1, <2>2
<1>30. ASSUME ExtFail(u) PROVE StepInv(u)' /\ WatchInv(u)'
  <2>1. StepInv(u)'
    BY <1>1, <1>2, <1>3, <1>30
       DEF ExtFail, ExtSet, Alive, StepInv, Unstarted, Ended, stepVars, watchVars
  <2>2. WatchInv(u)'
    BY <1>1, <1>2, <1>30
       DEF ExtFail, ExtSet, Alive, StepInv, WatchInv, Unstarted, Ended, stepVars,
           watchVars
  <2>. QED
    BY <2>1, <2>2
<1>31. ASSUME ExtTerminate(u) PROVE StepInv(u)' /\ WatchInv(u)'
  <2>1. StepInv(u)'
    BY <1>1, <1>2, <1>3, <1>31
       DEF ExtTerminate, ExtSet, Alive, StepInv, Unstarted, Ended, stepVars, watchVars
  <2>2. WatchInv(u)'
    BY <1>1, <1>2, <1>31
       DEF ExtTerminate, ExtSet, Alive, StepInv, WatchInv, Unstarted, Ended,
           stepVars, watchVars
  <2>. QED
    BY <2>1, <2>2
<1>32. ASSUME ExtKill(u) PROVE StepInv(u)' /\ WatchInv(u)'
  <2>1. StepInv(u)'
    BY <1>1, <1>2, <1>3, <1>32
       DEF ExtKill, ExtSet, Alive, StepInv, Unstarted, Ended, stepVars, watchVars
  <2>2. WatchInv(u)'
    BY <1>1, <1>2, <1>32
       DEF ExtKill, ExtSet, Alive, StepInv, WatchInv, Unstarted, Ended, stepVars,
           watchVars
  <2>. QED
    BY <2>1, <2>2
<1>. QED
  BY <1>4, <1>5, <1>6, <1>7, <1>8, <1>9, <1>10, <1>11, <1>12, <1>13, <1>14, <1>15,
     <1>16, <1>17, <1>18, <1>19, <1>20, <1>21, <1>22, <1>23, <1>24, <1>25, <1>26,
     <1>27, <1>28, <1>29, <1>30, <1>31, <1>32
     DEF Next, Scheduler, Listen, Stop, Execute, JobWatch, StopJob, External,
         StartBegin, StartListen, ListenRecv, ListenDecide, ListenAssign,
         ListenContinue, ListenCallback, ListenCallbackLost, ListenCheck, StopCheck,
         StopCancel, StopMark, ListenScan, StopJobBegin, StopJobOk, StopJobErr,
         StopJobReport

\* The end of a job is final in the job subsystem: no step submits it again.
LEMMA NextExtStable ==
  ASSUME TypeOK, IInv, Next, NEW u \in Steps, ext[u] \in Ended
  PROVE  ext'[u] = ext[u]
<1>1. ext \in [Steps -> {"none"} \cup PolledStatus]
  BY DEF TypeOK
<1>2. ASSUME NEW s \in Steps, ExecSubmit(s) PROVE ext'[u] = ext[u]
  <2>1. ext[s] = "none"
    BY <1>2 DEF ExecSubmit, IInv, StepInv, Unstarted
  <2>. QED
    BY <1>1, <1>2, <2>1 DEF ExecSubmit, Ended
<1>3. ASSUME NEW s \in Steps, External(s) PROVE ext'[u] = ext[u]
  BY <1>1, <1>3 DEF External, ExtRun, ExtSucceed, ExtFail, ExtTerminate, ExtKill,
                    ExtSet, Alive, Ended
<1>. QED
  BY <1>2, <1>3 DEF Next, Scheduler, Listen, Stop, Execute, JobWatch, StopJob,
     StartBegin, StartListen, ListenRecv, ListenDecide, ListenAssign,
     ListenContinue, ListenCallback, ListenCallbackLost, ListenCheck, StopCheck,
     StopCancel, StopMark, StartStep, SendReady, ListenScan, ExecCancelled,
     ExecReady, ExecAcquire, ExecAbort, ExecProceed, ExecCacheErr, ExecCacheHit,
     ExecCacheMiss, ExecSubmitErr, ExecSend, WatchRecv, WatchForward, JobPoll,
     JobAssign, JobPollMessage, JobPollErr, StopJobBegin, StopJobOk, StopJobErr,
     StopJobReport

\* st.done is withdrawn only from the step being made ready, `go st.Execute()'
\* happens once, and st.submitted is set only for the step being made ready.
LEMMA NextFlags ==
  ASSUME TypeOK, IInv, Next, NEW u \in Steps
  PROVE  /\ done[u] /\ seen[u] # "readying" => done'[u]
         /\ exec[u] # "none" => exec'[u] # "none"
         /\ ~submitted[u] /\ submitted'[u] => seen[u] = "readying"
<1>1. /\ exec \in [Steps -> ExecPc] /\ done \in [Steps -> BOOLEAN]
      /\ submitted \in [Steps -> BOOLEAN]
  BY DEF TypeOK
<1>2. CASE Scheduler
  BY <1>1, <1>2
     DEF Scheduler, Listen, StartBegin, StartListen, ListenRecv, ListenDecide,
         ListenAssign, ListenContinue, ListenCallback, ListenCallbackLost,
         ListenCheck, StartStep, SendReady, ListenScan, stepVars
<1>3. ASSUME NEW s \in Steps, Execute(s)
      PROVE  UNCHANGED submitted /\ (done[u] => done'[u])
               /\ (exec[u] # "none" => exec'[u] # "none")
  BY <1>1, <1>3
     DEF Execute, EndStep, ExecCancelled, ExecReady, ExecAcquire, ExecAbort,
         ExecProceed, ExecCacheErr, ExecCacheHit, ExecCacheMiss, ExecSubmitErr,
         ExecSubmit, ExecSend, WatchRecv, WatchForward
<1>4. ASSUME NEW s \in Steps, JobWatch(s) \/ StopJob(s) \/ External(s) \/ Stop
      PROVE  UNCHANGED <<submitted, done, exec>>
  BY <1>4
     DEF JobWatch, JobPoll, JobAssign, JobPollMessage, JobPollErr, StopJob,
         StopJobBegin, StopJobOk, StopJobErr, StopJobReport, External, ExtRun,
         ExtSucceed, ExtFail, ExtTerminate, ExtKill, ExtSet, Stop, StopCheck,
         StopCancel, StopMark, stepVars
<1>. QED
  BY <1>2, <1>3, <1>4 DEF Next

\* What the scheduler saw of a step stays true until it acts on it.
LEMMA NextSeen ==
  ASSUME TypeOK, IInv, Next, NEW u \in Steps
  PROVE  /\ SeenInv(u)'
         /\ Settled(u) /\ seen[u] # "readying" =>
              Settled(u)' /\ seen'[u] # "readying"
<1>1. seen \in [Steps -> Tally] /\ done \in [Steps -> BOOLEAN]
  BY DEF TypeOK
<1>2. StepInv(u) /\ SeenInv(u) /\ SchedulerInv
  BY DEF IInv
<1>3. isDepsReady(u) => isDepsReady(u)'
  BY NextStatusStable, DepsStable
<1>4. jobStatus[u] \in Ended => jobStatus'[u] = jobStatus[u]
  BY NextStatusStable DEF StatusStable, Lasting
<1>5. /\ done[u] /\ seen[u] # "readying" => done'[u]
      /\ exec[u] # "none" => exec'[u] # "none"
      /\ ~submitted[u] /\ submitted'[u] => seen[u] = "readying"
  BY NextFlags
<1>6. Settled(u) => exec[u] # "none"
  BY <1>2 DEF Settled, StepInv, Unstarted, Ended
<1>7. Settled(u) /\ seen[u] # "readying" => Settled(u)'
  BY <1>4, <1>5 DEF Settled
<1>8. CASE seen'[u] = seen[u] /\ submitted'[u] = submitted[u]
  BY <1>2, <1>3, <1>4, <1>5, <1>7, <1>8 DEF SeenInv, Ended
<1>9. CASE seen'[u] \in {"unseen", "open"}
  BY <1>7, <1>9 DEF SeenInv, Ended
<1>10. CASE StartStep(u)
  <2>1. /\ exec[u] = "none" /\ UNCHANGED <<submitted, done, jobStatus>>
        /\ seen'[u] = IF isDepsReady(u) /\ ~submitted[u] THEN "readying" ELSE seen[u]
    BY <1>1, <1>10 DEF StartStep
  <2>2. exec'[u] # "none"
    BY <1>10 DEF StartStep, TypeOK
  <2>3. CASE seen'[u] = seen[u]
    BY <1>8, <2>1, <2>3
  <2>4. CASE seen'[u] = "readying" /\ isDepsReady(u) /\ ~submitted[u]
    BY <1>3, <1>6, <2>1, <2>2, <2>4 DEF SeenInv, Ended
  <2>. QED
    BY <2>1, <2>3, <2>4
<1>11. CASE ListenScan(u)
  <2>1. /\ listen = "scan" /\ UNCHANGED <<submitted, done, jobStatus, exec>>
        /\ seen'[u] = Look(u)
    BY <1>1, <1>11 DEF ListenScan, stepVars
  <2>2. exec'[u] # "none"
    BY <1>2, <2>1 DEF SchedulerInv
  <2>. QED
    BY <1>3, <2>1, <2>2 DEF SeenInv, Look, Settled, Ended
<1>12. CASE SendReady(u)
  BY <1>1, <1>9, <1>12 DEF SendReady
<1>13. ASSUME NEW s \in Steps, s # u, StartStep(s) \/ ListenScan(s) \/ SendReady(s)
       PROVE  seen'[u] = seen[u] /\ submitted'[u] = submitted[u]
  BY <1>1, <1>13 DEF StartStep, ListenScan, SendReady, stepVars, TypeOK
<1>14. ASSUME ListenDecide \/ ListenContinue PROVE seen'[u] = "unseen"
  BY <1>14 DEF ListenDecide, ListenContinue, Blank
<1>15. ASSUME \/ StartBegin \/ StartListen \/ ListenRecv \/ ListenAssign
              \/ ListenCallback \/ ListenCallbackLost \/ ListenCheck \/ Stop
       PROVE  UNCHANGED <<seen, submitted>>
  BY <1>15 DEF StartBegin, StartListen, ListenRecv, ListenAssign, ListenCallback,
               ListenCallbackLost, ListenCheck, Stop, StopCheck, StopCancel,
               StopMark, stepVars
<1>16. ASSUME NEW s \in Steps, Execute(s)
       PROVE  UNCHANGED <<seen, submitted>>
  BY <1>16
     DEF Execute, EndStep, ExecCancelled, ExecReady, ExecAcquire, ExecAbort,
         ExecProceed, ExecCacheErr, ExecCacheHit, ExecCacheMiss, ExecSubmitErr,
         ExecSubmit, ExecSend, WatchRecv, WatchForward
<1>17. ASSUME NEW s \in Steps, JobWatch(s) \/ StopJob(s) \/ External(s)
       PROVE  UNCHANGED <<seen, submitted>>
  BY <1>17
     DEF JobWatch, JobPoll, JobAssign, JobPollMessage, JobPollErr, StopJob,
         StopJobBegin, StopJobOk, StopJobErr, StopJobReport, External, ExtRun,
         ExtSucceed, ExtFail, ExtTerminate, ExtKill, ExtSet, stepVars
<1>. QED
  BY <1>8, <1>9, <1>10, <1>11, <1>12, <1>13, <1>14, <1>15, <1>16, <1>17
     DEF Next, Scheduler, Listen

\* Once a verdict exists every step stays settled: nothing the other
\* goroutines still do reopens one.
LEMMA NextOver == ASSUME TypeOK, IInv, Next PROVE OverInv'
<1>1. \A u \in Steps : /\ Settled(u) /\ seen[u] # "readying" =>
                            Settled(u)' /\ seen'[u] # "readying"
  BY NextSeen
<1>2. OverInv /\ SchedulerInv
  BY DEF IInv
<1>3. CASE listen = "assign" \/ status \in Final \/ db.status \in Final
  BY <1>1, <1>2, <1>3 DEF OverInv
<1>4. CASE ListenDecide
  <2>1. \A u \in Steps : seen[u] \in Ended \cup {"ended"}
    BY <1>4 DEF TypeOK, Tally, ListenDecide, ScanOver, Saw, NoneReadying
  <2>2. \A u \in Steps : Settled(u) /\ seen[u] # "readying"
    BY <2>1 DEF IInv, SeenInv, Settled, Ended
  <2>. QED
    BY <1>1, <2>2 DEF OverInv
<1>5. ASSUME ~ListenDecide,
             ~(listen = "assign" \/ status \in Final \/ db.status \in Final)
      PROVE  ~(listen' = "assign" \/ status' \in Final \/ db'.status \in Final)
  <2>1. CASE ListenCallback
    BY <1>5, <2>1 DEF ListenCallback, runVars
  <2>2. CASE StartBegin \/ ListenAssign
    BY <1>5, <2>2 DEF StartBegin, ListenAssign, Final
  <2>3. ASSUME Scheduler, ~ListenCallback, ~(StartBegin \/ ListenAssign)
        PROVE  listen' # "assign" /\ UNCHANGED <<status, db>>
    BY <1>5, <2>3
       DEF Scheduler, Listen, StartListen, ListenRecv,
           ListenContinue, ListenCallbackLost, ListenCheck,
           StartStep, SendReady, ListenScan, runVars
  <2>4. CASE Stop
    BY <1>5, <2>4 DEF Stop, StopCheck, StopCancel, StopMark, runVars, Final
  <2>5. ASSUME NEW s \in Steps, Execute(s) \/ JobWatch(s) \/ StopJob(s) \/ External(s)
        PROVE  UNCHANGED <<listen, status, db>>
    BY <2>5
       DEF Execute, ExecCancelled, ExecReady, ExecAcquire, ExecAbort,
           ExecProceed, ExecCacheErr, ExecCacheHit, ExecCacheMiss, ExecSubmitErr,
           ExecSubmit, ExecSend, WatchRecv, WatchForward, JobWatch, JobPoll,
           JobAssign, JobPollMessage, JobPollErr, StopJob, StopJobBegin,
           StopJobOk, StopJobErr, StopJobReport, External, ExtRun,
           ExtSucceed, ExtFail, ExtTerminate, ExtKill, ExtSet, runVars
  <2>. QED
    BY <1>5, <2>1, <2>2, <2>3, <2>4, <2>5 DEF Next
<1>. QED
  BY <1>3, <1>4, <1>5 DEF OverInv

\* The scheduler's own variables agree with its program counter.
LEMMA NextScheduler == ASSUME TypeOK, IInv, Next PROVE SchedulerInv'
<1>1. seen \in [Steps -> Tally]
  BY DEF TypeOK
<1>2. SchedulerInv
  BY DEF IInv
<1>3. \A u \in Steps : exec[u] # "none" => exec'[u] # "none"
  BY NextFlags
<1>4. CASE \/ StartBegin \/ ListenRecv \/ ListenCallback
           \/ ListenCallbackLost \/ ListenCheck
  BY <1>2, <1>3, <1>4 DEF StartBegin, ListenRecv, ListenCallback,
     ListenCallbackLost, ListenCheck, SchedulerInv, runVars, stepVars
<1>5. CASE StartListen
  BY <1>2, <1>5 DEF StartListen, SchedulerInv, NoneReadying, runVars, stepVars
<1>6. CASE ListenAssign
  BY <1>2, <1>3, <1>6 DEF ListenAssign, SchedulerInv, Final
<1>7. CASE ListenDecide \/ ListenContinue
  BY <1>2, <1>3, <1>7 DEF ListenDecide, ListenContinue, ScanOver, SchedulerInv,
                          Blank, Verdict, Final
<1>8. CASE Stop
  BY <1>2, <1>3, <1>8 DEF Stop, StopCheck, StopCancel, StopMark, SchedulerInv,
                          runVars
<1>9. ASSUME NEW s \in Steps, StartStep(s) \/ ListenScan(s) PROVE SchedulerInv'
  BY <1>1, <1>2, <1>3, <1>9 DEF StartStep, ListenScan, SchedulerInv, runVars
<1>10. ASSUME NEW s \in Steps, SendReady(s) PROVE SchedulerInv'
  BY <1>1, <1>2, <1>3, <1>10 DEF SendReady, SchedulerInv, runVars
<1>11. ASSUME NEW s \in Steps, Execute(s) \/ JobWatch(s) \/ StopJob(s) \/ External(s)
       PROVE  UNCHANGED <<listen, status, stopPc, verdict, seen>>
  BY <1>11
     DEF Execute, ExecCancelled, ExecReady, ExecAcquire, ExecAbort,
         ExecProceed, ExecCacheErr, ExecCacheHit, ExecCacheMiss, ExecSubmitErr,
         ExecSubmit, ExecSend, WatchRecv, WatchForward, JobWatch, JobPoll,
         JobAssign, JobPollMessage, JobPollErr, StopJob, StopJobBegin,
         StopJobOk, StopJobErr, StopJobReport, External, ExtRun,
         ExtSucceed, ExtFail, ExtTerminate, ExtKill, ExtSet, runVars
<1>12. ASSUME UNCHANGED <<listen, status, stopPc, verdict, seen>> PROVE SchedulerInv'
  BY <1>2, <1>3, <1>12 DEF SchedulerInv
<1>. QED
  BY <1>4, <1>5, <1>6, <1>7, <1>8, <1>9, <1>10, <1>11, <1>12
     DEF Next, Scheduler, Listen

\* A Failed or Terminated verdict keeps its justification.
LEMMA NextVerdict == ASSUME TypeOK, IInv, Next PROVE VerdictJustified'
<1>1. VerdictJustified /\ SchedulerInv
  BY DEF IInv
<1>2. \A s \in Steps : jobStatus[s] \in {"Failed", "Terminated"} =>
                         jobStatus'[s] = jobStatus[s]
  BY NextStatusStable DEF StatusStable, Lasting, Ended
<1>3. \A s \in Steps : ext[s] = "Terminated" => ext'[s] = ext[s]
  BY NextExtStable DEF Ended
<1>4. \A s \in Steps : seen[s] \in Ended => jobStatus[s] = seen[s]
  BY DEF IInv, SeenInv
<1>5. \A s \in Steps : jobStatus[s] = "Terminated" => ext[s] = "Terminated"
  BY DEF IInv, StepInv, WatchInv, Unstarted, Ended
<1>6. stopPc = "done" => stopPc' = "done"
  BY ZenonT(60) DEF Next, Scheduler, Listen, Stop, Execute, JobWatch, StopJob, External,
     StartBegin, StartListen, ListenRecv, ListenDecide, ListenAssign,
     ListenContinue, ListenCallback, ListenCallbackLost, ListenCheck, StopCheck,
     StopCancel, StopMark, StartStep, SendReady, ListenScan, ExecCancelled,
     ExecReady, ExecAcquire, ExecAbort, ExecProceed, ExecCacheErr, ExecCacheHit,
     ExecCacheMiss, ExecSubmitErr, ExecSubmit, ExecSend, WatchRecv, WatchForward,
     JobPoll, JobAssign, JobPollMessage, JobPollErr, StopJobBegin, StopJobOk,
     StopJobErr, StopJobReport, ExtRun, ExtSucceed, ExtFail, ExtTerminate,
     ExtKill, ExtSet
<1>7. ASSUME \/ UNCHANGED <<status, verdict>>
             \/ status' \in {"Running", "Terminating"} /\ verdict' = verdict
             \/ status' = verdict /\ verdict' = ""
      PROVE  VerdictJustified'
  BY <1>1, <1>2, <1>3, <1>6, <1>7 DEF VerdictJustified
<1>8. CASE ListenDecide
  <2>1. verdict' = Verdict /\ status' = status
    BY <1>8 DEF ListenDecide
  <2>2. verdict' = "Failed" => Saw("Failed") \/ Saw("Terminated")
    BY <2>1 DEF Verdict
  <2>3. verdict' = "Terminated" => Saw("Terminated") /\ stopPc = "done"
    BY <1>1, <2>1 DEF Verdict, SchedulerInv
  <2>. QED
    BY <1>1, <1>2, <1>3, <1>4, <1>5, <1>6, <2>1, <2>2, <2>3
       DEF VerdictJustified, Saw, Ended
<1>9. ASSUME Scheduler, ~ListenDecide
      PROVE  \/ UNCHANGED <<status, verdict>>
             \/ status' \in {"Running", "Terminating"} /\ verdict' = verdict
             \/ status' = verdict /\ verdict' = ""
  BY <1>9 DEF Scheduler, Listen, StartBegin, StartListen, ListenRecv, ListenAssign,
     ListenContinue, ListenCallback, ListenCallbackLost, ListenCheck,
     StartStep, SendReady, ListenScan, runVars
<1>10. ASSUME Stop
       PROVE  \/ UNCHANGED <<status, verdict>>
              \/ status' \in {"Running", "Terminating"} /\ verdict' = verdict
  BY <1>10 DEF Stop, StopCheck, StopCancel, StopMark, runVars
<1>11. ASSUME NEW s \in Steps, Execute(s) \/ JobWatch(s) \/ StopJob(s) \/ External(s)
       PROVE  UNCHANGED <<status, verdict>>
  BY <1>11
     DEF Execute, ExecCancelled, ExecReady, ExecAcquire, ExecAbort,
         ExecProceed, ExecCacheErr, ExecCacheHit, ExecCacheMiss, ExecSubmitErr,
         ExecSubmit, ExecSend, WatchRecv, WatchForward, JobWatch, JobPoll,
         JobAssign, JobPollMessage, JobPollErr, StopJob, StopJobBegin,
         StopJobOk, StopJobErr, StopJobReport, External, ExtRun,
         ExtSucceed, ExtFail, ExtTerminate, ExtKill, ExtSet, runVars
<1>. QED
  BY <1>7, <1>8, <1>9, <1>10, <1>11 DEF Next

\* What the DB holds of a finished step stays equal to what the engine holds.
LEMMA NextRecord ==
  ASSUME TypeOK, IInv, Next, NEW u \in Steps
  PROVE  RecordInv(u)'
<1>1. RecordInv(u) /\ StepInv(u)
  BY DEF IInv
<1>2. jobStatus[u] \in Lasting => jobStatus'[u] = jobStatus[u]
  BY NextStatusStable DEF StatusStable
<1>3. jobStatus[u] \in Lasting => (ext'[u] # "none") = (ext[u] # "none")
  <2>1. ext \in [Steps -> {"none"} \cup PolledStatus]
    BY DEF TypeOK
  <2>2. ASSUME NEW s \in Steps, ExecSubmit(s), jobStatus[u] \in Lasting
        PROVE  ext'[u] = ext[u]
    BY <1>1, <2>1, <2>2 DEF ExecSubmit, StepInv, Unstarted, Lasting, Ended
  <2>3. ASSUME NEW s \in Steps, External(s)
        PROVE  (ext'[u] # "none") = (ext[u] # "none")
    BY <2>1, <2>3 DEF External, ExtRun, ExtSucceed, ExtFail, ExtTerminate, ExtKill,
                      ExtSet, Alive
  <2>. QED
    BY <2>2, <2>3 DEF Next, Scheduler, Listen, Stop, Execute, JobWatch, StopJob,
       StartBegin, StartListen, ListenRecv, ListenDecide, ListenAssign,
       ListenContinue, ListenCallback, ListenCallbackLost, ListenCheck, StopCheck,
       StopCancel, StopMark, StartStep, SendReady, ListenScan, ExecCancelled,
       ExecReady, ExecAcquire, ExecAbort, ExecProceed, ExecCacheErr, ExecCacheHit,
       ExecCacheMiss, ExecSubmitErr, ExecSend, WatchRecv, WatchForward, JobPoll,
       JobAssign, JobPollMessage, JobPollErr, StopJobBegin, StopJobOk, StopJobErr,
       StopJobReport
<1>4. CASE ListenCallback
  <2>1. /\ db'.runtime[u] = [id |-> ext[u] # "none", status |-> jobStatus[u]]
        /\ UNCHANGED <<ext, jobStatus>>
    BY <1>4 DEF ListenCallback, RuntimeView, stepVars
  <2>. QED
    BY <2>1 DEF RecordInv
<1>5. CASE db' = db
  BY <1>1, <1>2, <1>3, <1>5 DEF RecordInv
<1>6. ~ListenCallback => db' = db
  BY ZenonT(60) DEF Next, Scheduler, Listen, Stop, Execute, JobWatch, StopJob, External,
     StartBegin, StartListen, ListenRecv, ListenDecide, ListenAssign,
     ListenContinue, ListenCallbackLost, ListenCheck, StopCheck,
     StopCancel, StopMark, StartStep, SendReady, ListenScan, ExecCancelled,
     ExecReady, ExecAcquire, ExecAbort, ExecProceed, ExecCacheErr, ExecCacheHit,
     ExecCacheMiss, ExecSubmitErr, ExecSubmit, ExecSend, WatchRecv, WatchForward,
     JobPoll, JobAssign, JobPollMessage, JobPollErr, StopJobBegin, StopJobOk,
     StopJobErr, StopJobReport, ExtRun, ExtSucceed, ExtFail, ExtTerminate,
     ExtKill, ExtSet
<1>. QED
  BY <1>4, <1>5, <1>6

\* Cardinalities of sets of slot holders are natural numbers.
LEMMA HoldersFinite == IsFiniteSet(Holders) /\ Cardinality(Holders) \in Nat
<1>1. IsFiniteSet(Holders)
  BY StepsAssumption, FS_Subset DEF Holders
<1>. QED
  BY <1>1, FS_CardinalityType

\* Every step that takes a slot adds a token first, and every token removed
\* belongs to a step that stops holding it.
LEMMA NextSlots == ASSUME TypeOK, IInv, Next PROVE SlotInv'
<1>1. /\ exec \in [Steps -> ExecPc] /\ done \in [Steps -> BOOLEAN]
      /\ slots \in 0..Parallelism
  BY DEF TypeOK
<1>2. SlotInv /\ \A s \in Steps : StepInv(s) /\ WatchInv(s) /\ SeenInv(s)
  BY DEF IInv
<1>0. slots \in Nat
  BY <1>1, ParallelismAssumption
<1>3. /\ IsFiniteSet(Holders) /\ Cardinality(Holders) \in Nat
      /\ Cardinality(Holders) <= slots
  BY <1>2, HoldersFinite DEF SlotInv
<1>4. ASSUME Holders' \subseteq Holders, slots' = slots PROVE SlotInv'
  <2>1. Cardinality(Holders') <= Cardinality(Holders) /\ Cardinality(Holders') \in Nat
    BY <1>3, <1>4, FS_Subset, FS_CardinalityType
  <2>. QED
    BY <1>0, <1>3, <1>4, <2>1 DEF SlotInv
<1>5. ASSUME NEW s \in Holders, Holders' = Holders \ {s}, slots' = slots - 1
      PROVE  SlotInv'
  <2>1. Cardinality(Holders') = Cardinality(Holders) - 1
    BY <1>3, <1>5, FS_RemoveElement
  <2>. QED
    BY <1>0, <1>3, <1>5, <2>1 DEF SlotInv
<1>6. ASSUME NEW s \in Steps, ExecAcquire(s) PROVE SlotInv'
  <2>1. s \notin Holders /\ Holders' = Holders \cup {s} /\ slots' = slots + 1
    BY <1>1, <1>6 DEF ExecAcquire, Holders
  <2>2. Cardinality(Holders') = Cardinality(Holders) + 1
    BY <1>3, <2>1, FS_AddElement
  <2>. QED
    BY <1>0, <1>3, <2>1, <2>2 DEF SlotInv
<1>7. ASSUME NEW s \in Steps, ExecAbort(s) \/ ExecCacheErr(s) \/ ExecCacheHit(s)
      PROVE  SlotInv'
  <2>1. s \in Holders /\ Holders' = Holders \ {s} /\ slots' = slots - 1
    BY <1>1, <1>7 DEF ExecAbort, ExecCacheErr, ExecCacheHit, Release, EndStep, Holders
  <2>. QED
    BY <1>5, <2>1
<1>8. ASSUME NEW s \in Steps, WatchRecv(s) PROVE SlotInv'
  <2>1. ~done[s]
    BY <1>2, <1>8 DEF WatchInv, WatchRecv
  <2>2. CASE ch[s] \in Ended
    <3>1. s \in Holders /\ Holders' = Holders \ {s} /\ slots' = slots - 1
      BY <1>1, <1>8, <2>1, <2>2 DEF WatchRecv, Release, Holders
    <3>. QED
      BY <1>5, <3>1
  <2>3. CASE ch[s] \notin Ended
    BY <1>1, <1>4, <1>8, <2>1, <2>3 DEF WatchRecv, Holders
  <2>. QED
    BY <2>2, <2>3
<1>9. ASSUME NEW s \in Steps,
             \/ ExecCancelled(s) \/ ExecReady(s) \/ ExecProceed(s) \/ ExecCacheMiss(s)
             \/ ExecSubmitErr(s) \/ ExecSend(s) \/ StartStep(s)
      PROVE  Holders' \subseteq Holders /\ slots' = slots
  BY <1>1, <1>9 DEF ExecCancelled, ExecReady, ExecProceed, ExecCacheMiss,
     ExecSubmitErr, ExecSend, StartStep, EndStep, Holders
<1>10. ASSUME NEW s \in Steps, ExecSubmit(s) \/ WatchForward(s)
       PROVE  Holders' \subseteq Holders /\ slots' = slots
  BY <1>1, <1>10 DEF ExecSubmit, WatchForward, Holders
<1>11. ASSUME NEW s \in Steps, SendReady(s)
       PROVE  Holders' \subseteq Holders /\ slots' = slots
  <2>1. exec[s] \in {"none", "select", "send", "returned"}
    BY <1>2, <1>11 DEF SendReady, SeenInv, StepInv
  <2>. QED
    BY <1>1, <1>11, <2>1 DEF SendReady, Holders
<1>12. ASSUME NEW s \in Steps,
              \/ ListenScan(s) \/ JobWatch(s) \/ StopJob(s) \/ External(s)
              \/ Listen \/ StartBegin \/ StartListen \/ Stop
       PROVE  UNCHANGED <<exec, done, slots>>
  BY <1>12
     DEF ListenScan, JobWatch, JobPoll, JobAssign, JobPollMessage, JobPollErr,
         StopJob, StopJobBegin, StopJobOk, StopJobErr, StopJobReport, External,
         ExtRun, ExtSucceed, ExtFail, ExtTerminate, ExtKill, ExtSet, Listen,
         ListenRecv, ListenDecide, ListenAssign, ListenContinue, ListenCallback,
         ListenCallbackLost, ListenCheck, StartBegin, StartListen, Stop,
         StopCheck, StopCancel, StopMark, stepVars
<1>13. ASSUME Listen \/ StartBegin \/ StartListen \/ Stop
       PROVE  UNCHANGED <<exec, done, slots>>
  BY <1>13
     DEF Listen, ListenRecv, ListenDecide, ListenAssign, ListenContinue,
         ListenCallback, ListenCallbackLost, ListenCheck, StartBegin,
         StartListen, Stop, StopCheck, StopCancel, StopMark, stepVars
<1>14. ASSUME UNCHANGED <<exec, done, slots>>
       PROVE  Holders' \subseteq Holders /\ slots' = slots
  BY <1>14 DEF Holders
<1>. QED
  BY <1>4, <1>6, <1>7, <1>8, <1>9, <1>10, <1>11, <1>12, <1>13, <1>14
     DEF Next, Scheduler, Execute

-----------------------------------------------------------------------------
\* The initial state satisfies the inductive invariant.
LEMMA InitInv == Init => TypeOK /\ IInv
<1> SUFFICES ASSUME Init PROVE TypeOK /\ IInv
  OBVIOUS
<1>1. TypeOK
  <2>1. events \in 0..Parallelism /\ slots \in 0..Parallelism
    <3>1. events = 0 /\ slots = 0
      BY DEF Init
    <3>. QED
      BY <3>1, ParallelismAssumption
  <2>. QED
    BY <2>1 DEF Init, TypeOK, RunStatus, ListenPc, Tally, Blank, ExecPc, JobStatus,
         JobWatchPc, PolledStatus, StopperPc, StopPc, RuntimeViews
<1>2. \A s \in Steps : StepInv(s) /\ WatchInv(s) /\ SeenInv(s) /\ RecordInv(s)
  BY DEF Init, StepInv, WatchInv, SeenInv, RecordInv, Unstarted, Ended, Lasting, Blank
<1>3. SlotInv
  <2>1. Holders = {}
    BY DEF Init, Holders
  <2>2. slots = 0
    BY DEF Init
  <2>. QED
    BY <2>1, <2>2, FS_EmptySet DEF SlotInv
<1>4. OverInv /\ SchedulerInv /\ VerdictJustified
  BY DEF Init, OverInv, SchedulerInv, VerdictJustified, Final, Blank
<1>. QED
  BY <1>1, <1>2, <1>3, <1>4 DEF IInv

\* The inductive invariant depends on the variables only.
LEMMA StutterInv == TypeOK /\ IInv /\ UNCHANGED vars => IInv'
<1> SUFFICES ASSUME TypeOK, IInv, UNCHANGED vars PROVE IInv'
  OBVIOUS
<1> USE DEF vars
<1>1. ASSUME NEW s \in Steps
      PROVE  StepInv(s)' /\ WatchInv(s)' /\ SeenInv(s)' /\ RecordInv(s)'
  <2>1. StepInv(s) /\ WatchInv(s) /\ SeenInv(s) /\ RecordInv(s)
    BY DEF IInv
  <2>2. StepInv(s)' /\ SeenInv(s)'
    BY <2>1 DEF StepInv, SeenInv, isDepsReady
  <2>3. WatchInv(s)' /\ RecordInv(s)'
    BY <2>1 DEF WatchInv, RecordInv
  <2>. QED
    BY <2>2, <2>3
<1>2. SlotInv' /\ OverInv' /\ SchedulerInv' /\ VerdictJustified'
  BY DEF IInv, SlotInv, Holders, OverInv, Settled, SchedulerInv, VerdictJustified
<1>. QED
  BY <1>1, <1>2 DEF IInv

\* TypeOK /\ IInv is inductive.
LEMMA NextInv == TypeOK /\ IInv /\ [Next]_vars => TypeOK' /\ IInv'
<1>1. ASSUME TypeOK, IInv, Next PROVE IInv'
  BY <1>1, NextStepInv, NextSeen, NextRecord, NextSlots, NextOver, NextScheduler,
     NextVerdict DEF IInv
<1>. QED
  BY <1>1, StutterInv, NextTypeOK

\* The engine is type correct, for any workflow and any environment: in
\* particular neither wfr.event nor wfr.concurrentJobs ever exceeds its
\* capacity.
THEOREM TypeCorrect == Spec => []TypeOK
BY InitInv, NextInv, PTL DEF Spec

\* The strengthened invariant holds of every reachable state of the engine.
THEOREM Invariance == Spec => []IInv
BY InitInv, NextInv, PTL DEF Spec

\* isDepsReady() read by the scheduler without synchronisation is safe: a
\* submitted step has only dependencies that really succeeded or were cached.
THEOREM DependencyOrder == Spec => []DependentsFollowSuccess
<1>1. TypeOK /\ IInv => DependentsFollowSuccess
  <2> SUFFICES ASSUME TypeOK, IInv, NEW s \in Steps, ext[s] # "none", NEW d \in Deps[s]
               PROVE  \/ ext[d] = "Succeeded"
                      \/ ext[d] = "none" /\ jobStatus[d] = "Cached"
    BY DEF DependentsFollowSuccess
  <2>1. d \in Steps
    BY DepsAssumption
  <2>2. jobStatus[d] \in {"Succeeded", "Cached"}
    BY DEF IInv, StepInv, isDepsReady, TypeOK
  <2>3. StepInv(d) /\ WatchInv(d)
    BY <2>1 DEF IInv
  <2>4. CASE jobStatus[d] = "Succeeded"
    <3>1. ext[d] # "none"
      BY <2>3, <2>4 DEF StepInv
    <3>2. jobStatus[d] \in Ended /\ ext[d] # "none" => ext[d] = jobStatus[d]
      BY <2>3 DEF WatchInv
    <3>. QED
      BY <2>4, <3>1, <3>2 DEF Ended
  <2>5. CASE jobStatus[d] = "Cached"
    BY <2>3, <2>5 DEF StepInv, Ended
  <2>. QED
    BY <2>2, <2>4, <2>5
<1>. QED
  BY <1>1, InitInv, NextInv, PTL DEF Spec

\* A final status, in memory or stored by callback(), means no live job and
\* no job still to be submitted.
THEOREM CompletionSafe == Spec => []CompletedMeansNoLiveJob
<1>1. TypeOK /\ IInv => CompletedMeansNoLiveJob
  <2> SUFFICES ASSUME TypeOK, IInv, status \in Final \/ db.status \in Final,
                      NEW s \in Steps
               PROVE  ~Alive(s) /\ exec[s] \in {"send", "watch", "forward", "returned"}
    BY DEF CompletedMeansNoLiveJob
  <2>1. Settled(s) /\ StepInv(s) /\ WatchInv(s)
    BY DEF IInv, OverInv
  <2>2. exec[s] \in ExecPc
    BY DEF TypeOK
  <2>. QED
    BY <2>1, <2>2 DEF Settled, StepInv, WatchInv, ExecPc, Unstarted, Ended, Alive
<1>. QED
  BY <1>1, InitInv, NextInv, PTL DEF Spec

\* The send on st.ready in Start() and updateStatus() never blocks.
THEOREM SchedulerNeverBlocks == Spec => []ReadyNeverBlocks
<1>1. TypeOK /\ IInv => ReadyNeverBlocks
  BY DEF IInv, SeenInv, StepInv, ReadyNeverBlocks
<1>. QED
  BY <1>1, InitInv, NextInv, PTL DEF Spec

\* Step.Watch() never reads from the channel PaddleFlowJob.Watch() has
\* closed, so the missing `ok' test of its receive is harmless.
THEOREM WatchSafe == Spec => []NoReadFromClosed
<1>1. TypeOK /\ IInv => NoReadFromClosed
  <2> SUFFICES ASSUME TypeOK, IInv, NEW s \in Steps, exec[s] = "watch",
                      ch[s] = "empty", jw[s] = "closed"
               PROVE  FALSE
    BY DEF NoReadFromClosed
  <2>1. WatchInv(s)
    BY DEF IInv
  <2>. QED
    BY <2>1 DEF WatchInv, Ended, TypeOK
<1>. QED
  BY <1>1, InitInv, NextInv, PTL DEF Spec

\* Failed and Terminated are never reported without a step (and for
\* Terminated a user's Stop()) that accounts for it, even though Stop() races
\* with the assignment of the verdict.
THEOREM VerdictSafe == Spec => []VerdictJustified
<1>1. IInv => VerdictJustified
  BY DEF IInv
<1>. QED
  BY <1>1, InitInv, NextInv, PTL DEF Spec

\* The cluster never runs more jobs of a run than its parallelism.
THEOREM ParallelismSafe == Spec => []JobsWithinParallelism
<1>1. TypeOK /\ IInv => JobsWithinParallelism
  <2> SUFFICES ASSUME TypeOK, IInv PROVE JobsWithinParallelism
    OBVIOUS
  <2> DEFINE Live == {s \in Steps : Alive(s)}
  <2>1. ASSUME NEW s \in Steps, Alive(s) PROVE s \in Holders
    <3>1. StepInv(s) /\ WatchInv(s) /\ exec[s] \in ExecPc
      BY DEF IInv, TypeOK
    <3>. QED
      BY <2>1, <3>1 DEF StepInv, WatchInv, Alive, ExecPc, Unstarted, Ended, Holders
  <2>2. Cardinality(Live) <= Cardinality(Holders) /\ Cardinality(Live) \in Nat
    BY <2>1, HoldersFinite, FS_Subset, FS_CardinalityType
  <2>3. Cardinality(Holders) <= slots /\ slots \in 0..Parallelism
    BY DEF IInv, SlotInv, TypeOK
  <2>. QED
    BY <2>2, <2>3, HoldersFinite, ParallelismAssumption DEF JobsWithinParallelism
<1>. QED
  BY <1>1, InitInv, NextInv, PTL DEF Spec

\* The stored view of a finished step never changes again.
THEOREM RecordSafe == Spec => RecordedEndIsStable
<1>1. TypeOK /\ IInv /\ [Next]_vars =>
        [\A s \in Steps : db.runtime[s].status \in Lasting =>
           db'.runtime[s] = db.runtime[s]]_vars
  <2> SUFFICES ASSUME TypeOK, IInv, Next, NEW s \in Steps,
                      db.runtime[s].status \in Lasting
               PROVE  db'.runtime[s] = db.runtime[s]
    OBVIOUS
  <2>1. CASE db' = db
    BY <2>1
  <2>2. CASE ListenCallback
    <3>1. db'.runtime[s] = [id |-> ext[s] # "none", status |-> jobStatus[s]]
      BY <2>2 DEF ListenCallback, RuntimeView
    <3>2. db.runtime[s] \in [id : BOOLEAN, status : JobStatus]
      BY DEF TypeOK, RuntimeViews
    <3>3. RecordInv(s)
      BY DEF IInv
    <3>. QED
      BY <3>1, <3>2, <3>3 DEF RecordInv
  <2>. QED
    BY <2>1, <2>2, ZenonT(60) DEF Next, Scheduler, Listen, Stop, Execute, JobWatch, StopJob,
     External, StartBegin, StartListen, ListenRecv, ListenDecide, ListenAssign,
     ListenContinue, ListenCallbackLost, ListenCheck, StopCheck,
     StopCancel, StopMark, StartStep, SendReady, ListenScan, ExecCancelled,
     ExecReady, ExecAcquire, ExecAbort, ExecProceed, ExecCacheErr, ExecCacheHit,
     ExecCacheMiss, ExecSubmitErr, ExecSubmit, ExecSend, WatchRecv, WatchForward,
     JobPoll, JobAssign, JobPollMessage, JobPollErr, StopJobBegin, StopJobOk,
     StopJobErr, StopJobReport, ExtRun, ExtSucceed, ExtFail, ExtTerminate,
     ExtKill, ExtSet
<1>. QED
  BY <1>1, InitInv, NextInv, PTL DEF Spec, RecordedEndIsStable

-----------------------------------------------------------------------------
(* The engine implements PipelineRun: each of its actions is a step of the  *)
(* abstract run or leaves its two variables alone.                          *)

\* The initial state maps to an initial state of the abstract run.
LEMMA InitImplements == Init => Promise!Init
<1> SUFFICES ASSUME Init PROVE Promise!Init
  OBVIOUS
<1>1. db.status \notin Final
  BY DEF Init, Final
<1>2. ASSUME NEW s \in Steps PROVE AbstractJob(s) = "idle"
  BY DEF Init, AbstractJob, Unstarted
<1>. QED
  BY <1>1, <1>2 DEF Promise!Init

\* FinalInv holds initially and every step of the engine preserves it.
LEMMA NextFinal ==
  ASSUME TypeOK, IInv, FinalInv, Next PROVE FinalInv'
<1> USE DEF runVars, stepVars, watchVars
<1>1. /\ seen \in [Steps -> Tally] /\ listen \in ListenPc
      /\ stopPc \in StopPc /\ status \in RunStatus
  BY DEF TypeOK
<1>2. OverInv /\ SchedulerInv
  BY DEF IInv
<1>3. ASSUME UNCHANGED <<status, listen, seen, stopPc, db>> PROVE FinalInv'
  BY <1>3 DEF FinalInv
<1>4. CASE StartBegin \/ StartListen
  BY <1>4 DEF FinalInv, StartBegin, StartListen
<1>5. ASSUME NEW s \in Steps, StartStep(s) PROVE FinalInv'
  BY <1>5 DEF FinalInv, StartStep
<1>6. ASSUME NEW s \in Steps, SendReady(s) PROVE FinalInv'
  <2>1. db.status \notin Final
    BY <1>6, <1>2 DEF SendReady, OverInv
  <2>. QED
    BY <1>6, <2>1 DEF FinalInv, SendReady
<1>7. ASSUME NEW s \in Steps, ListenScan(s) PROVE FinalInv'
  <2>1. ASSUME db.status \in Final PROVE Look(s) # "open"
    BY <1>2, <2>1 DEF OverInv, Settled, Look, Ended
  <2>. QED
    BY <1>1, <1>7, <2>1 DEF FinalInv, ListenScan
<1>8. CASE ListenRecv
  BY <1>1, <1>8 DEF FinalInv, ListenRecv, IsCompleted
<1>9. CASE ListenDecide
  BY <1>9 DEF FinalInv, ListenDecide, ScanOver, Blank
<1>10. CASE ListenAssign
  BY <1>2, <1>10 DEF FinalInv, ListenAssign, SchedulerInv
<1>11. CASE ListenContinue
  BY <1>11 DEF FinalInv, ListenContinue, Saw
<1>12. CASE ListenCallback
  BY <1>1, <1>2, <1>12 DEF FinalInv, ListenCallback, SchedulerInv
<1>13. CASE ListenCallbackLost
  BY <1>13 DEF FinalInv, ListenCallbackLost
<1>14. CASE ListenCheck
  BY <1>14 DEF FinalInv, ListenCheck, IsCompleted
<1>15. CASE Stop
  BY <1>15 DEF FinalInv, Stop, StopCheck, StopCancel, StopMark
<1>16. ASSUME NEW s \in Steps,
              Execute(s) \/ JobWatch(s) \/ StopJob(s) \/ External(s)
       PROVE  UNCHANGED <<status, listen, seen, stopPc, db>>
  <2>1. CASE Execute(s)
    BY <2>1 DEF Execute, ExecCancelled, ExecReady, ExecAcquire, ExecAbort,
      ExecProceed, ExecCacheErr, ExecCacheHit, ExecCacheMiss, ExecSubmitErr,
      ExecSubmit, ExecSend, WatchRecv, WatchForward
  <2>2. CASE JobWatch(s)
    BY <2>2 DEF JobWatch, JobPoll, JobAssign, JobPollMessage, JobPollErr
  <2>3. CASE StopJob(s)
    BY <2>3 DEF StopJob, StopJobBegin, StopJobOk, StopJobErr, StopJobReport
  <2>4. CASE External(s)
    BY <2>4 DEF External, ExtRun, ExtSucceed, ExtFail, ExtTerminate, ExtKill,
      ExtSet
  <2>. QED
    BY <1>16, <2>1, <2>2, <2>3, <2>4
<1>. QED
  BY <1>3, <1>4, <1>5, <1>6, <1>7, <1>8, <1>9, <1>10, <1>11, <1>12, <1>13,
     <1>14, <1>15, <1>16 DEF Next, Scheduler, Listen

\* FinalInv is preserved by stuttering as well.
LEMMA StepFinal == TypeOK /\ IInv /\ FinalInv /\ [Next]_vars => FinalInv'
<1>1. TypeOK /\ FinalInv /\ UNCHANGED vars => FinalInv'
  BY DEF FinalInv, vars
<1>. QED
  BY <1>1, NextFinal

\* A final status in the database is never taken back.
THEOREM RecordedFinalSafe == Spec => []FinalInv
<1>1. ASSUME Init PROVE FinalInv
  BY <1>1 DEF Init, FinalInv, Final
<1>. QED
  BY <1>1, StepFinal, TypeCorrect, Invariance, PTL DEF Spec

-----------------------------------------------------------------------------
(* Step simulation *)

\* A step whose dependencies isDepsReady() accepts has them satisfied in the
\* abstract run.
LEMMA DepsSatisfied ==
  ASSUME TypeOK, IInv, NEW s \in Steps, isDepsReady(s) PROVE Promise!Satisfied(s)
<1>1. SUFFICES ASSUME NEW d \in Deps[s]
               PROVE  AbstractJob(d) \in {"Succeeded", "Cached"}
  BY DepsAssumption DEF Promise!Satisfied
<1>2. d \in Steps /\ jobStatus[d] \in {"Succeeded", "Cached"}
  BY <1>1, DepsAssumption DEF isDepsReady
<1>3. StepInv(d) /\ WatchInv(d)
  BY <1>2 DEF IInv
<1>. QED
  BY <1>2, <1>3 DEF StepInv, WatchInv, AbstractJob, Alive, Unstarted, Ended

\* Nothing happens to the abstract run when no step's abstract state changes.
LEMMA SameRun ==
  ASSUME \A u \in Steps : AbstractJob(u)' = AbstractJob(u), UNCHANGED db.status
  PROVE  UNCHANGED Promise!pipelineVars
BY DEF Promise!pipelineVars

\* One step's abstract state changes, the others' do not.
LEMMA OneChanges ==
  ASSUME TypeOK, NEW s \in Steps,
         \A u \in Steps \ {s} : /\ exec'[u] = exec[u] /\ ext'[u] = ext[u]
                                /\ jobStatus'[u] = jobStatus[u],
         UNCHANGED db
  PROVE  /\ [u \in Steps |-> AbstractJob(u)]' =
              [[u \in Steps |-> AbstractJob(u)] EXCEPT ![s] = AbstractJob(s)']
         /\ AbstractJob(s)' = AbstractJob(s) => UNCHANGED Promise!pipelineVars
<1>1. \A u \in Steps \ {s} : AbstractJob(u)' = AbstractJob(u)
  BY DEF AbstractJob, Alive
<1>. QED
  BY <1>1 DEF Promise!pipelineVars

\* A step that is idle and becomes skipped is a Skip of the abstract run.
LEMMA EndStepSkips ==
  ASSUME TypeOK, IInv, NEW s \in Steps, exec[s] \in Unstarted, NEW v, EndStep(s, v),
         v = "Cancelled" \/ (v \in {"Cached", "Failed"} /\ isDepsReady(s)),
         UNCHANGED <<ext, db>>
  PROVE  Promise!Skip(s)
<1>1. exec \in [Steps -> ExecPc] /\ jobStatus \in [Steps -> JobStatus]
  BY DEF TypeOK
<1>2. ext[s] = "none" /\ AbstractJob(s) = "idle"
  BY DEF IInv, StepInv, AbstractJob
<1>3. AbstractJob(s)' = v
  BY <1>1, <1>2 DEF EndStep, AbstractJob, Unstarted
<1>4. \A u \in Steps \ {s} : /\ exec'[u] = exec[u] /\ ext'[u] = ext[u]
                             /\ jobStatus'[u] = jobStatus[u]
  BY <1>1 DEF EndStep
<1>5. [u \in Steps |-> AbstractJob(u)]' =
        [[u \in Steps |-> AbstractJob(u)] EXCEPT ![s] = v]
  BY <1>3, <1>4, OneChanges
<1>6. v \in {"Cached", "Failed"} => v = "Cancelled" \/ Promise!Satisfied(s)
  BY DepsSatisfied
<1>. QED
  BY <1>2, <1>5, <1>6 DEF Promise!Skip

\* ExecSubmit is a Launch: the slot the step holds is one no live job holds.
LEMMA SubmitLaunches ==
  ASSUME TypeOK, IInv, NEW s \in Steps, ExecSubmit(s) PROVE Promise!Launch(s)
<1>1. /\ exec \in [Steps -> ExecPc] /\ ext \in [Steps -> {"none"} \cup PolledStatus]
      /\ jobStatus \in [Steps -> JobStatus]
  BY DEF TypeOK
<1>2. /\ ext[s] = "none" /\ AbstractJob(s) = "idle" /\ submitted[s]
  BY DEF IInv, StepInv, AbstractJob, ExecSubmit, Unstarted
<1>3. Promise!Satisfied(s)
  BY <1>2, DepsSatisfied DEF IInv, StepInv
<1>4. AbstractJob(s)' = "live"
  BY <1>1 DEF ExecSubmit, AbstractJob, Alive
<1>5. \A u \in Steps \ {s} : /\ exec'[u] = exec[u] /\ ext'[u] = ext[u]
                             /\ jobStatus'[u] = jobStatus[u]
  BY <1>1 DEF ExecSubmit
<1>6. [u \in Steps |-> AbstractJob(u)]' =
        [[u \in Steps |-> AbstractJob(u)] EXCEPT ![s] = "live"]
  BY <1>4, <1>5, OneChanges DEF ExecSubmit
<1> DEFINE L == {t \in Steps : [u \in Steps |-> AbstractJob(u)][t] = "live"}
<1>7. L \subseteq Holders \ {s} /\ s \in Holders
  <2>1. s \in Holders
    BY DEF ExecSubmit, Holders
  <2>2. ASSUME NEW t \in L PROVE t \in Holders \ {s}
    <3>1. t \in Steps /\ AbstractJob(t) = "live"
      BY <2>2
    <3>2. StepInv(t) /\ WatchInv(t)
      BY <3>1 DEF IInv
    <3>3. Alive(t) /\ ext[t] # "none"
      BY <3>1, <3>2, <1>1 DEF AbstractJob, Alive, JobStatus, PolledStatus, Ended
    <3>4. ~done[t] /\ exec[t] \in {"watch", "forward"}
      BY <3>1, <3>2, <3>3, <1>1 DEF StepInv, WatchInv, Alive, Ended, Unstarted, ExecPc
    <3>. QED
      BY <1>2, <3>1, <3>3, <3>4 DEF Holders
  <2>. QED
    BY <2>1, <2>2
<1>8. Cardinality(L) < Parallelism
  <2>1. IsFiniteSet(Holders) /\ Cardinality(Holders) \in Nat
    BY HoldersFinite
  <2>2. IsFiniteSet(Holders \ {s})
        /\ Cardinality(Holders \ {s}) = Cardinality(Holders) - 1
    BY <1>7, <2>1, FS_RemoveElement
  <2>3. IsFiniteSet(L) /\ Cardinality(L) <= Cardinality(Holders \ {s})
    BY <1>7, <2>2, FS_Subset
  <2>4. Cardinality(L) \in Nat
    BY <2>3, FS_CardinalityType
  <2>5. Cardinality(Holders) <= slots /\ slots \in 0..Parallelism
    BY DEF IInv, SlotInv, TypeOK
  <2>. QED
    BY <2>1, <2>2, <2>3, <2>4, <2>5, ParallelismAssumption
<1>9. UNCHANGED (db.status \in Final)
  BY DEF ExecSubmit
<1> HIDE DEF L
<1>10. [u \in Steps |-> AbstractJob(u)][s] = "idle"
  BY <1>2
<1>11. Promise!Cardinality(L) < Parallelism
  <2>1. \A S : Promise!Cardinality(S) = Cardinality(S)
    BY Zenon DEF Promise!Cardinality, Promise!IsFiniteSet, Cardinality, IsFiniteSet
  <2>. QED
    BY <1>8, <2>1
<1>. QED
  BY <1>3, <1>6, <1>9, <1>10, <1>11 DEF Promise!Launch, L

\* A job that ends in the job subsystem is a Finish, whoever ended it.
LEMMA ExternalFinishes ==
  ASSUME TypeOK, IInv, NEW s \in Steps, External(s)
  PROVE  Promise!Finish(s) \/ UNCHANGED Promise!pipelineVars
<1>1. ext \in [Steps -> {"none"} \cup PolledStatus]
  BY DEF TypeOK
<1>2. PICK v \in {"Running", "Succeeded", "Failed", "Terminated"} :
        Alive(s) /\ ExtSet(s, v)
  BY DEF External, ExtRun, ExtSucceed, ExtFail, ExtTerminate, ExtKill, Alive
<1>3. AbstractJob(s) = "live"
  BY <1>2 DEF AbstractJob, Alive
<1>4. /\ \A u \in Steps \ {s} : /\ exec'[u] = exec[u] /\ ext'[u] = ext[u]
                                /\ jobStatus'[u] = jobStatus[u]
      /\ UNCHANGED db /\ ext'[s] = v
  BY <1>1, <1>2 DEF ExtSet, stepVars
<1>5. CASE v = "Running"
  <2>1. AbstractJob(s)' = "live"
    BY <1>4, <1>5 DEF AbstractJob, Alive
  <2>. QED
    BY <1>3, <1>4, <2>1, OneChanges
<1>6. CASE v # "Running"
  <2>1. AbstractJob(s)' = v
    BY <1>2, <1>4, <1>6 DEF AbstractJob, Alive
  <2>2. [u \in Steps |-> AbstractJob(u)]' =
          [[u \in Steps |-> AbstractJob(u)] EXCEPT ![s] = v]
    BY <1>4, <2>1, OneChanges
  <2>3. UNCHANGED (db.status \in Final)
    BY <1>4
  <2>. QED
    BY <1>2, <1>3, <1>6, <2>2, <2>3 DEF Promise!Finish
<1>. QED
  BY <1>5, <1>6

\* The scheduler changes no step's abstract state; its callback completes the
\* run, if anything.
LEMMA SchedulerCompletes ==
  ASSUME TypeOK, IInv, FinalInv, Scheduler
  PROVE  Promise!Complete \/ UNCHANGED Promise!pipelineVars
<1> USE DEF runVars, stepVars, watchVars
<1>1. exec \in [Steps -> ExecPc]
  BY DEF TypeOK
<1>2. CASE ListenCallback
  <2>1. \A u \in Steps : AbstractJob(u)' = AbstractJob(u)
    BY <1>2 DEF ListenCallback, AbstractJob, Alive
  <2>2. CASE (db.status \in Final)' = (db.status \in Final)
    BY <2>1, <2>2 DEF Promise!pipelineVars
  <2>3. CASE (db.status \in Final)' # (db.status \in Final)
    <3>1. db'.status = status
      BY <1>2 DEF ListenCallback
    <3>2. db.status \notin Final /\ db'.status \in Final
      BY <1>2, <2>3, <3>1 DEF FinalInv, ListenCallback
    <3>3. ASSUME NEW s \in Steps PROVE AbstractJob(s) \notin {"idle", "live"}
      <4>1. Settled(s) /\ StepInv(s) /\ WatchInv(s)
        BY <3>1, <3>2 DEF IInv, OverInv
      <4>2. ext[s] = "none" => exec[s] \notin Unstarted
        BY <4>1 DEF StepInv, Settled, Ended
      <4>3. ext[s] # "none" => ext[s] \in Ended
        BY <4>1 DEF WatchInv, Settled
      <4>. QED
        BY <4>1, <4>2, <4>3 DEF AbstractJob, StepInv, Alive, Ended
    <3>4. [u \in Steps |-> AbstractJob(u)]' = [u \in Steps |-> AbstractJob(u)]
      BY <2>1
    <3>. QED
      BY <3>2, <3>3, <3>4 DEF Promise!Complete
  <2>. QED
    BY <2>2, <2>3
<1>3. ASSUME NEW s \in Steps, StartStep(s) PROVE UNCHANGED Promise!pipelineVars
  <2>1. \A u \in Steps \ {s} : /\ exec'[u] = exec[u] /\ ext'[u] = ext[u]
                               /\ jobStatus'[u] = jobStatus[u]
    BY <1>1, <1>3 DEF StartStep
  <2>2. AbstractJob(s)' = AbstractJob(s)
    BY <1>1, <1>3 DEF StartStep, AbstractJob, Alive, Unstarted
  <2>. QED
    BY <1>3, <2>1, <2>2, OneChanges DEF StartStep
<1>4. ASSUME UNCHANGED <<exec, ext, jobStatus, db>>
      PROVE  UNCHANGED Promise!pipelineVars
  BY <1>4, SameRun DEF AbstractJob, Alive
<1>5. CASE \/ StartBegin \/ StartListen \/ ListenRecv \/ ListenDecide
           \/ ListenAssign \/ ListenContinue \/ ListenCallbackLost \/ ListenCheck
  BY <1>4, <1>5 DEF StartBegin, StartListen, ListenRecv, ListenDecide,
       ListenAssign, ListenContinue, ListenCallbackLost, ListenCheck
<1>6. ASSUME NEW s \in Steps, SendReady(s) \/ ListenScan(s)
      PROVE  UNCHANGED Promise!pipelineVars
  BY <1>4, <1>6 DEF SendReady, ListenScan
<1>. QED
  BY <1>2, <1>3, <1>5, <1>6 DEF Scheduler, Listen

\* Execute() launches or skips its step, or does nothing the user can see.
LEMMA ExecuteSimulates ==
  ASSUME TypeOK, IInv, NEW s \in Steps, Execute(s)
  PROVE  Promise!Launch(s) \/ Promise!Skip(s) \/ UNCHANGED Promise!pipelineVars
<1> USE DEF runVars, stepVars, watchVars
<1>1. exec \in [Steps -> ExecPc] /\ StepInv(s)
  BY DEF TypeOK, IInv
<1>2. CASE ExecCancelled(s) \/ ExecAbort(s)
  <2>1. /\ exec[s] \in Unstarted /\ EndStep(s, "Cancelled")
        /\ UNCHANGED <<ext, db>>
    BY <1>2 DEF ExecCancelled, ExecAbort, Unstarted
  <2>. QED
    BY <2>1, EndStepSkips
<1>3. CASE ExecCacheErr(s) \/ ExecCacheHit(s) \/ ExecSubmitErr(s)
  <2>1. exec[s] \in {"cache", "submit"}
    BY <1>3 DEF ExecCacheErr, ExecCacheHit, ExecSubmitErr
  <2>2. isDepsReady(s) /\ exec[s] \in Unstarted
    BY <1>1, <2>1 DEF StepInv, Unstarted
  <2>. QED
    BY <1>3, <2>2, EndStepSkips DEF ExecCacheErr, ExecCacheHit, ExecSubmitErr
<1>4. CASE ExecSubmit(s)
  BY <1>4, SubmitLaunches
<1>5. ASSUME \/ exec[s] \in Unstarted /\ exec'[s] \in Unstarted
             \/ exec[s] \notin Unstarted /\ exec'[s] \notin Unstarted,
             exec' = [exec EXCEPT ![s] = exec'[s]],
             UNCHANGED <<ext, jobStatus, db>>
      PROVE  UNCHANGED Promise!pipelineVars
  <2>1. \A u \in Steps : exec'[u] \in Unstarted <=> exec[u] \in Unstarted
    BY <1>1, <1>5
  <2>. QED
    BY <1>5, <2>1, SameRun DEF AbstractJob, Alive
<1>6. CASE ExecReady(s) \/ ExecAcquire(s) \/ ExecProceed(s) \/ ExecCacheMiss(s)
  BY <1>1, <1>5, <1>6 DEF ExecReady, ExecAcquire, ExecProceed, ExecCacheMiss, Unstarted
<1>7. CASE ExecSend(s) \/ WatchRecv(s) \/ WatchForward(s)
  BY <1>1, <1>5, <1>7 DEF ExecSend, WatchRecv, WatchForward, Unstarted
<1>. QED
  BY <1>2, <1>3, <1>4, <1>6, <1>7 DEF Execute

\* Polling, stopping and a user's Stop() are invisible to the abstract run.
LEMMA OthersStutter ==
  ASSUME TypeOK, IInv, NEW s \in Steps, JobWatch(s) \/ StopJob(s) \/ Stop
  PROVE  UNCHANGED Promise!pipelineVars
<1> USE DEF runVars, stepVars, watchVars
<1>1. jobStatus \in [Steps -> JobStatus]
  BY DEF TypeOK
<1>2. CASE JobAssign(s)
  <2>1. ext[s] # "none"
    BY <1>2 DEF IInv, StepInv, JobAssign
  <2>2. \A u \in Steps : ext[u] # "none" \/ jobStatus'[u] = jobStatus[u]
    BY <1>1, <1>2, <2>1 DEF JobAssign
  <2>3. UNCHANGED <<exec, ext, db>>
    BY <1>2 DEF JobAssign
  <2>. QED
    BY <2>2, <2>3, SameRun DEF AbstractJob, Alive
<1>3. ASSUME UNCHANGED <<exec, ext, jobStatus, db>>
      PROVE  UNCHANGED Promise!pipelineVars
  BY <1>3, SameRun DEF AbstractJob, Alive
<1>4. CASE JobPoll(s) \/ JobPollMessage(s) \/ JobPollErr(s) \/ StopJob(s) \/ Stop
  BY <1>3, <1>4 DEF JobPoll, JobPollMessage, JobPollErr, StopJob, StopJobBegin,
       StopJobOk, StopJobErr, StopJobReport, Stop, StopCheck, StopCancel, StopMark
<1>. QED
  BY <1>2, <1>4 DEF JobWatch

\* Every step of the engine is a step of the abstract run or a stutter.
LEMMA StepImplements ==
  TypeOK /\ IInv /\ FinalInv /\ [Next]_vars => [Promise!Next]_(Promise!pipelineVars)
<1> SUFFICES ASSUME TypeOK, IInv, FinalInv, [Next]_vars
             PROVE  Promise!Next \/ UNCHANGED Promise!pipelineVars
  OBVIOUS
<1>1. CASE UNCHANGED vars
  BY <1>1 DEF vars, Promise!pipelineVars, AbstractJob, Alive
<1>2. CASE Scheduler
  BY <1>2, SchedulerCompletes DEF Promise!Next
<1>3. CASE Stop
  <2>1. UNCHANGED <<exec, ext, jobStatus, db>>
    BY <1>3 DEF Stop, StopCheck, StopCancel, StopMark, stepVars
  <2>. QED
    BY <2>1, SameRun DEF AbstractJob, Alive
<1>4. ASSUME NEW s \in Steps, Execute(s) \/ JobWatch(s) \/ StopJob(s) \/ External(s)
      PROVE  Promise!Next \/ UNCHANGED Promise!pipelineVars
  BY <1>4, ExecuteSimulates, OthersStutter, ExternalFinishes DEF Promise!Next
<1>. QED
  BY <1>1, <1>2, <1>3, <1>4 DEF Next

\* The engine of pkg/pipeline implements the abstract run of PipelineRun.
THEOREM EngineImplementsRun == Spec => ImplementsPipelineRun
BY InitImplements, StepImplements, TypeCorrect, Invariance, RecordedFinalSafe, PTL
   DEF Spec, ImplementsPipelineRun, Promise!Spec

-----------------------------------------------------------------------------
(* Runs that outlive their server *)

\* Every step of the system but a crash and the reconstruction after it.
Work ==
  \/ Engine \/ WritePending \/ Cluster \/ Restart
  \/ \E s \in Steps : RecoverAcquire(s)

\* What no such step takes back: a job, its end, an outcome the engine knows.
Kept(s) ==
  /\ ext[s] # "none" => ext'[s] # "none"
  /\ ext[s] \in Ended => ext'[s] = ext[s]
  /\ jobStatus[s] \in Lasting =>
       jobStatus'[s] = jobStatus[s] /\ (ext'[s] = "none") = (ext[s] = "none")

-----------------------------------------------------------------------------
(* Types *)

LEMMA RecoveryInitTypes == RecoveryInit => RecoveryTypeOK
<1> SUFFICES ASSUME Init PROVE RecoveryTypeOK
  BY DEF RecoveryInit
<1>1. db \in [status : RunStatus, runtime : RuntimeViews]
  BY DEF Init, RunStatus, RuntimeViews, JobStatus
<1>. QED
  BY <1>1 DEF Init, RecoveryTypeOK, Blank, RunStatus, ListenPc, Tally, ExecPc,
              JobStatus, JobWatchPc, PolledStatus

\* The scheduler and a user's Stop() keep the types.
LEMMA SchedulerTypes ==
  ASSUME RecoveryTypeOK, Scheduler \/ Stop PROVE RecoveryTypeOK'
<1>. USE DEF RecoveryTypeOK, runVars, stepVars, watchVars
<1>1. CASE StartBegin \/ StartListen \/ ListenRecv \/ ListenCheck \/ ListenCallbackLost
  BY <1>1 DEF StartBegin, StartListen, ListenRecv, ListenCheck, ListenCallbackLost,
              RunStatus, ListenPc
<1>2. CASE ListenDecide \/ ListenAssign \/ ListenContinue
  BY <1>2 DEF ListenDecide, ListenAssign, ListenContinue, Verdict, Blank, RunStatus,
              ListenPc, Final, Tally
<1>3. CASE ListenCallback
  BY <1>3 DEF ListenCallback, RuntimeView, RuntimeViews, ListenPc
<1>4. CASE Stop
  BY <1>4 DEF Stop, StopCheck, StopCancel, StopMark, RunStatus
<1>5. ASSUME NEW s \in Steps, StartStep(s) \/ SendReady(s) \/ ListenScan(s)
      PROVE  RecoveryTypeOK'
  BY <1>5 DEF StartStep, SendReady, ListenScan, Look, ExecPc, Tally
<1>. QED
  BY <1>1, <1>2, <1>3, <1>4, <1>5 DEF Scheduler, Listen

\* So do the goroutines of a step and the job subsystem.
LEMMA StepTypes ==
  ASSUME RecoveryTypeOK, RInv, NEW s \in Steps,
         Execute(s) \/ JobWatch(s) \/ StopJob(s) \/ External(s)
  PROVE  RecoveryTypeOK'
<1>. USE DEF RecoveryTypeOK, runVars, stepVars, watchVars
<1>1. CASE ExecCancelled(s) \/ ExecAbort(s) \/ ExecCacheErr(s) \/ ExecCacheHit(s)
             \/ ExecSubmitErr(s)
  BY <1>1 DEF ExecCancelled, ExecAbort, ExecCacheErr, ExecCacheHit, ExecSubmitErr,
              EndStep, ExecPc, JobStatus, Ended
<1>2. CASE ExecReady(s) \/ ExecAcquire(s) \/ ExecProceed(s) \/ ExecCacheMiss(s)
             \/ ExecSend(s) \/ WatchRecv(s) \/ WatchForward(s)
  BY <1>2 DEF ExecReady, ExecAcquire, ExecProceed, ExecCacheMiss, ExecSend,
              WatchRecv, WatchForward, ExecPc
<1>3. CASE ExecSubmit(s)
  BY <1>3 DEF ExecSubmit, ExecPc, JobWatchPc, PolledStatus
<1>4. CASE JobPoll(s)
  BY <1>4 DEF JobPoll, RInv, BeliefInv, JobWatchPc, PolledStatus
<1>5. CASE JobAssign(s)
  BY <1>5 DEF JobAssign, JobWatchPc, PolledStatus, JobStatus
<1>6. CASE JobPollMessage(s) \/ JobPollErr(s) \/ StopJob(s)
  BY <1>6 DEF JobPollMessage, JobPollErr, StopJob, StopJobBegin, StopJobOk,
              StopJobErr, StopJobReport
<1>7. CASE External(s)
  BY <1>7 DEF External, ExtRun, ExtSucceed, ExtFail, ExtTerminate, ExtKill, ExtSet,
              PolledStatus, Ended
<1>. QED
  BY <1>1, <1>2, <1>3, <1>4, <1>5, <1>6, <1>7 DEF Execute, JobWatch

\* And so do crashes and restarts: what is loaded was stored before.
LEMMA RecoveryTypes ==
  ASSUME RecoveryTypeOK, RInv, RecoveryNext PROVE RecoveryTypeOK'
<1>1. CASE Engine
  BY <1>1, SchedulerTypes, StepTypes DEF Engine, Next
<1>2. CASE WritePending
  BY <1>2 DEF WritePending, RecoveryTypeOK, RunStatus, runVars, stepVars, watchVars
<1>3. CASE Crash
  BY <1>3 DEF Crash, RecoveryTypeOK, Blank, RunStatus, Tally, ExecPc, JobStatus,
              JobWatchPc, PolledStatus
<1>4. CASE Cluster
  <2>1. ASSUME NEW s \in Steps, External(s) PROVE RecoveryTypeOK'
    BY <2>1, StepTypes
  <2>2. ASSUME NEW s \in asked, Alive(s), ExtSet(s, "Terminated") PROVE RecoveryTypeOK'
    BY <2>2 DEF ExtSet, RecoveryTypeOK, PolledStatus, Ended, runVars, stepVars, watchVars
  <2>3. ASSUME UNCHANGED vars PROVE RecoveryTypeOK'
    BY <2>3 DEF vars, RecoveryTypeOK
  <2>. QED
    BY <1>4, <2>1, <2>2, <2>3 DEF Cluster
<1>5. CASE Resume
  BY <1>5 DEF Resume, RecoveryTypeOK, RuntimeViews, ExecPc, runVars, watchVars
<1>6. CASE Restart
  BY <1>6, ZenonT(60) DEF Restart, RestartBegin, RestartLoop, RestartListen, RestartStep,
              RestartVisit, RecoveryTypeOK, Blank, RunStatus, ListenPc, Tally, ExecPc,
              runVars, stepVars, watchVars
<1>7. ASSUME NEW s \in Steps, RecoverAcquire(s) PROVE RecoveryTypeOK'
  BY <1>7 DEF RecoverAcquire, RecoveryTypeOK, ExecPc, JobWatchPc, runVars
<1>. QED
  BY <1>1, <1>2, <1>3, <1>4, <1>5, <1>6, <1>7 DEF RecoveryNext

-----------------------------------------------------------------------------
(* What lasts *)

\* A job never vanishes from the job subsystem, nor does its end change, and no
\* goroutine assigns over a lasting status.
LEMMA WorkKeeps ==
  ASSUME RecoveryTypeOK, RInv, Work, NEW u \in Steps PROVE Kept(u)
<1>1. /\ exec \in [Steps -> ExecPc \cup {"recover"}]
      /\ jobStatus \in [Steps -> JobStatus]
      /\ ext \in [Steps -> {"none"} \cup PolledStatus]
  BY DEF RecoveryTypeOK
<1>2. PlaceInv(u) /\ BeliefInv(u)
  BY DEF RInv
<1>3. ASSUME UNCHANGED <<jobStatus, ext>> PROVE Kept(u)
  BY <1>3 DEF Kept
<1>4. ASSUME NEW s \in Steps, External(s) \/ (Alive(s) /\ ExtSet(s, "Terminated"))
      PROVE  Kept(u)
  BY <1>1, <1>4 DEF External, ExtRun, ExtSucceed, ExtFail, ExtTerminate, ExtKill,
                    ExtSet, Alive, Kept, Ended, stepVars
<1>5. ASSUME NEW s \in Steps, exec[s] \in {"select"} \cup Submitting, NEW st,
             EndStep(s, st), UNCHANGED ext
      PROVE  Kept(u)
  BY <1>1, <1>2, <1>5 DEF EndStep, PlaceInv, Kept, Lasting, Ended
<1>6. ASSUME NEW s \in Steps,
             ExecCancelled(s) \/ ExecAbort(s) \/ ExecCacheErr(s) \/ ExecCacheHit(s)
               \/ ExecSubmitErr(s)
      PROVE  Kept(u)
  BY <1>5, <1>6 DEF ExecCancelled, ExecAbort, ExecCacheErr, ExecCacheHit,
                    ExecSubmitErr, Submitting
<1>7. ASSUME NEW s \in Steps, ExecSubmit(s) PROVE Kept(u)
  <2>1. jobStatus' = jobStatus /\ \A d \in Steps \ {s} : ext'[d] = ext[d]
    BY <1>1, <1>7 DEF ExecSubmit
  <2>2. ext'[s] = "" /\ exec[s] = "submit"
    BY <1>1, <1>7 DEF ExecSubmit
  <2>3. s = u => ext[u] = "none" /\ jobStatus[u] = ""
    BY <1>2, <2>2 DEF PlaceInv, Submitting
  <2>. QED
    BY <2>1, <2>2, <2>3 DEF Kept, Lasting, Ended
<1>8. ASSUME NEW s \in Steps, JobAssign(s) PROVE Kept(u)
  BY <1>1, <1>2, <1>8 DEF JobAssign, BeliefInv, Kept, stepVars
<1>9. ASSUME NEW s \in Steps, ExecReady(s) \/ ExecAcquire(s) \/ ExecProceed(s)
               \/ ExecCacheMiss(s) \/ ExecSend(s) \/ WatchRecv(s) \/ WatchForward(s)
               \/ StartStep(s) \/ SendReady(s) \/ ListenScan(s)
               \/ JobPoll(s) \/ JobPollMessage(s) \/ JobPollErr(s) \/ StopJob(s)
      PROVE  UNCHANGED <<jobStatus, ext>>
  BY <1>9 DEF ExecReady, ExecAcquire, ExecProceed, ExecCacheMiss, ExecSend, WatchRecv,
     WatchForward, StartStep, SendReady, ListenScan, JobPoll, JobPollMessage, JobPollErr,
     StopJob, StopJobBegin, StopJobOk, StopJobErr, StopJobReport, stepVars
<1>10. ASSUME StartBegin \/ StartListen \/ Listen \/ Stop \/ WritePending
       PROVE  UNCHANGED <<jobStatus, ext>>
  BY <1>10 DEF StartBegin, StartListen, Listen, ListenRecv, ListenDecide, ListenAssign,
     ListenContinue, ListenCallback, ListenCallbackLost, ListenCheck, Stop, StopCheck,
     StopCancel, StopMark, WritePending, stepVars
<1>11. CASE Restart \/ \E s \in Steps : RecoverAcquire(s)
  BY <1>3, <1>11 DEF Restart, RestartBegin, RestartLoop, RestartListen, RestartStep,
     RestartVisit, RecoverAcquire, stepVars
<1>12. CASE Cluster
  <2>1. ASSUME UNCHANGED vars PROVE UNCHANGED <<jobStatus, ext>>
    BY <2>1 DEF vars
  <2>2. ASSUME NEW s \in asked, Alive(s), ExtSet(s, "Terminated") PROVE Kept(u)
    BY <1>1, <2>2 DEF ExtSet, Alive, Kept, Ended, stepVars
  <2>. QED
    BY <1>3, <1>4, <1>12, <2>1, <2>2 DEF Cluster
<1>. QED
  BY <1>3, <1>4, <1>6, <1>7, <1>8, <1>9, <1>10, <1>11, <1>12
     DEF Work, Engine, Next, Scheduler, Execute, JobWatch

\* So a satisfied dependency stays satisfied.
LEMMA WorkKeepsDeps ==
  ASSUME RecoveryTypeOK, RInv, Work, NEW u \in Steps, isDepsReady(u)
  PROVE  isDepsReady(u)'
BY WorkKeeps, DepsAssumption DEF Kept, isDepsReady, Lasting, Ended

-----------------------------------------------------------------------------
(* Where a step is, and what the engine believes of its job *)

StepOk(s) == PlaceInv(s) /\ BeliefInv(s) /\ DownInv(s)

\* What keeps StepOk(u): an action about another step, or about the run only.
LEMMA StepOkElsewhere ==
  ASSUME NEW u \in Steps, StepOk(u), isDepsReady(u) => isDepsReady(u)',
         exec'[u] = exec[u], submitted'[u] = submitted[u], ready'[u] = ready[u],
         jobStatus'[u] = jobStatus[u], jw'[u] = jw[u], got'[u] = got[u],
         ext'[u] = ext[u], seen'[u] = "readying" => seen[u] = "readying",
         (listen' = "down") = (listen = "down"),
         listen' \in {"new", "boot"} => listen \in {"new", "boot"},
         listen = "down" => db'.runtime[u] = db.runtime[u]
  PROVE  StepOk(u)'
<1>1. PlaceInv(u)'
  BY DEF StepOk, PlaceInv
<1>2. BeliefInv(u)'
  BY DEF StepOk, BeliefInv
<1>3. DownInv(u)'
  BY DEF StepOk, DownInv
<1>. QED
  BY <1>1, <1>2, <1>3 DEF StepOk

\* The scheduler: it only signals a step whose dependencies are satisfied and
\* that is not submitted.
LEMMA SchedulerStepOk ==
  ASSUME RecoveryTypeOK, RInv, Engine, Scheduler \/ Stop, NEW u \in Steps
  PROVE  StepOk(u)'
<1>1. /\ exec \in [Steps -> ExecPc \cup {"recover"}]
      /\ submitted \in [Steps -> BOOLEAN] /\ ready \in [Steps -> BOOLEAN]
      /\ seen \in [Steps -> Tally]
  BY DEF RecoveryTypeOK
<1>2. StepOk(u)
  BY DEF RInv, StepOk
<1>3. isDepsReady(u) => isDepsReady(u)'
  BY WorkKeepsDeps DEF Work
<1>4. listen # "down"
  BY DEF Engine
<1>5. CASE StartBegin \/ StartListen \/ Listen \/ Stop
  BY <1>2, <1>3, <1>4, <1>5, StepOkElsewhere
     DEF StartBegin, StartListen, Listen, ListenRecv, ListenDecide, ListenAssign,
         ListenContinue, ListenCallback, ListenCallbackLost, ListenCheck, Stop, StopCheck,
         StopCancel, StopMark, Blank, stepVars, watchVars
<1>6. ASSUME NEW s \in Steps, s # u, StartStep(s) \/ SendReady(s) \/ ListenScan(s)
      PROVE  StepOk(u)'
  BY <1>1, <1>2, <1>3, <1>4, <1>6, StepOkElsewhere
     DEF StartStep, SendReady, ListenScan, stepVars, watchVars
<1>7. CASE StartStep(u)
  <2>1. PlaceInv(u)'
    BY <1>1, <1>2, <1>3, <1>4, <1>7 DEF StartStep, StepOk, PlaceInv, Submitting, watchVars
  <2>2. BeliefInv(u)'
    BY <1>1, <1>2, <1>3, <1>4, <1>7 DEF StartStep, StepOk, BeliefInv, watchVars
  <2>3. DownInv(u)'
    BY <1>1, <1>2, <1>3, <1>4, <1>7 DEF StartStep, StepOk, DownInv, watchVars
  <2>. QED
    BY <2>1, <2>2, <2>3 DEF StepOk
<1>8. CASE SendReady(u)
  <2>1. PlaceInv(u)'
    BY <1>1, <1>2, <1>3, <1>4, <1>8 DEF SendReady, StepOk, PlaceInv, Submitting, watchVars
  <2>2. BeliefInv(u)'
    BY <1>1, <1>2, <1>3, <1>4, <1>8 DEF SendReady, StepOk, BeliefInv, watchVars
  <2>3. DownInv(u)'
    BY <1>1, <1>2, <1>3, <1>4, <1>8 DEF SendReady, StepOk, DownInv, watchVars
  <2>. QED
    BY <2>1, <2>2, <2>3 DEF StepOk
<1>9. CASE ListenScan(u)
  <2>1. PlaceInv(u)'
    BY <1>1, <1>2, <1>3, <1>4, <1>9 DEF ListenScan, Look, Ended, StepOk, PlaceInv, Submitting, stepVars, watchVars
  <2>2. BeliefInv(u)'
    BY <1>1, <1>2, <1>3, <1>4, <1>9 DEF ListenScan, Look, Ended, StepOk, BeliefInv, stepVars, watchVars
  <2>3. DownInv(u)'
    BY <1>1, <1>2, <1>3, <1>4, <1>9 DEF ListenScan, Look, Ended, StepOk, DownInv, stepVars, watchVars
  <2>. QED
    BY <2>1, <2>2, <2>3 DEF StepOk
<1>. QED
  BY <1>5, <1>6, <1>7, <1>8, <1>9 DEF Scheduler

\* The goroutines of a step and its job: a job is submitted where there was
\* none, and the watcher hands on what the job subsystem says.
LEMMA GoroutineStepOk ==
  ASSUME RecoveryTypeOK, RInv, Engine, NEW u \in Steps, NEW s \in Steps,
         Execute(s) \/ JobWatch(s) \/ StopJob(s)
  PROVE  StepOk(u)'
<1>1. /\ exec \in [Steps -> ExecPc \cup {"recover"}]
      /\ submitted \in [Steps -> BOOLEAN] /\ ready \in [Steps -> BOOLEAN]
      /\ jobStatus \in [Steps -> JobStatus] /\ jw \in [Steps -> JobWatchPc]
      /\ got \in [Steps -> PolledStatus]
      /\ ext \in [Steps -> {"none"} \cup PolledStatus]
  BY DEF RecoveryTypeOK
<1>2. StepOk(u)
  BY DEF RInv, StepOk
<1>3. isDepsReady(u) => isDepsReady(u)'
  BY WorkKeepsDeps DEF Work
<1>4. listen # "down" /\ UNCHANGED <<listen, seen, db>>
  BY DEF Engine, Execute, ExecCancelled, ExecReady, ExecAcquire, ExecAbort, ExecProceed,
     ExecCacheErr, ExecCacheHit, ExecCacheMiss, ExecSubmitErr, ExecSubmit, ExecSend,
     WatchRecv, WatchForward, JobWatch, JobPoll, JobAssign, JobPollMessage, JobPollErr,
     StopJob, StopJobBegin, StopJobOk, StopJobErr, StopJobReport
<1>5. CASE s # u
  BY <1>1, <1>2, <1>3, <1>4, <1>5, StepOkElsewhere
     DEF Execute, ExecCancelled, ExecReady, ExecAcquire, ExecAbort, ExecProceed,
     ExecCacheErr, ExecCacheHit, ExecCacheMiss, ExecSubmitErr, ExecSubmit, ExecSend,
     WatchRecv, WatchForward, EndStep, JobWatch, JobPoll, JobAssign, JobPollMessage,
     JobPollErr, StopJob, StopJobBegin, StopJobOk, StopJobErr, StopJobReport,
     stepVars, watchVars
<1>6. CASE StopJob(u) \/ JobPollMessage(u) \/ JobPollErr(u)
  BY <1>2, <1>3, <1>4, <1>6, StepOkElsewhere
     DEF StopJob, StopJobBegin, StopJobOk, StopJobErr, StopJobReport, JobPollMessage,
         JobPollErr, stepVars, watchVars
<1>7. CASE ExecCancelled(u)
  <2>1. PlaceInv(u)'
    BY <1>1, <1>2, <1>3, <1>4, <1>7
       DEF ExecCancelled, EndStep, StepOk, PlaceInv, Submitting, watchVars
  <2>2. BeliefInv(u)'
    BY <1>1, <1>2, <1>3, <1>4, <1>7
       DEF ExecCancelled, EndStep, StepOk, PlaceInv, BeliefInv, Lasting, Ended, watchVars
  <2>3. DownInv(u)'
    BY <1>1, <1>2, <1>3, <1>4, <1>7
       DEF ExecCancelled, EndStep, StepOk, PlaceInv, DownInv, watchVars
  <2>. QED
    BY <2>1, <2>2, <2>3 DEF StepOk
<1>8. CASE ExecAbort(u)
  <2>1. PlaceInv(u)'
    BY <1>1, <1>2, <1>3, <1>4, <1>8
       DEF ExecAbort, EndStep, StepOk, PlaceInv, Submitting, watchVars
  <2>2. BeliefInv(u)'
    BY <1>1, <1>2, <1>3, <1>4, <1>8
       DEF ExecAbort, EndStep, StepOk, PlaceInv, BeliefInv, Lasting, Ended, watchVars
  <2>3. DownInv(u)'
    BY <1>1, <1>2, <1>3, <1>4, <1>8
       DEF ExecAbort, EndStep, StepOk, PlaceInv, DownInv, watchVars
  <2>. QED
    BY <2>1, <2>2, <2>3 DEF StepOk
<1>9. CASE ExecCacheErr(u)
  <2>1. PlaceInv(u)'
    BY <1>1, <1>2, <1>3, <1>4, <1>9
       DEF ExecCacheErr, EndStep, StepOk, PlaceInv, Submitting, watchVars
  <2>2. BeliefInv(u)'
    BY <1>1, <1>2, <1>3, <1>4, <1>9
       DEF ExecCacheErr, EndStep, StepOk, PlaceInv, BeliefInv, Submitting, Lasting, Ended,
           watchVars
  <2>3. DownInv(u)'
    BY <1>1, <1>2, <1>3, <1>4, <1>9
       DEF ExecCacheErr, EndStep, StepOk, PlaceInv, DownInv, watchVars
  <2>. QED
    BY <2>1, <2>2, <2>3 DEF StepOk
<1>10. CASE ExecCacheHit(u)
  <2>1. PlaceInv(u)'
    BY <1>1, <1>2, <1>3, <1>4, <1>10
       DEF ExecCacheHit, EndStep, StepOk, PlaceInv, Submitting, watchVars
  <2>2. BeliefInv(u)'
    BY <1>1, <1>2, <1>3, <1>4, <1>10
       DEF ExecCacheHit, EndStep, StepOk, PlaceInv, BeliefInv, Submitting, Lasting, Ended,
           watchVars
  <2>3. DownInv(u)'
    BY <1>1, <1>2, <1>3, <1>4, <1>10
       DEF ExecCacheHit, EndStep, StepOk, PlaceInv, DownInv, watchVars
  <2>. QED
    BY <2>1, <2>2, <2>3 DEF StepOk
<1>11. CASE ExecSubmitErr(u)
  <2>1. PlaceInv(u)'
    BY <1>1, <1>2, <1>3, <1>4, <1>11
       DEF ExecSubmitErr, EndStep, StepOk, PlaceInv, Submitting, watchVars
  <2>2. BeliefInv(u)'
    BY <1>1, <1>2, <1>3, <1>4, <1>11
       DEF ExecSubmitErr, EndStep, StepOk, PlaceInv, BeliefInv, Submitting, Lasting, Ended,
           watchVars
  <2>3. DownInv(u)'
    BY <1>1, <1>2, <1>3, <1>4, <1>11
       DEF ExecSubmitErr, EndStep, StepOk, PlaceInv, DownInv, watchVars
  <2>. QED
    BY <2>1, <2>2, <2>3 DEF StepOk
<1>12. CASE ExecReady(u)
  <2>1. PlaceInv(u)'
    BY <1>1, <1>2, <1>3, <1>4, <1>12
       DEF ExecReady, StepOk, PlaceInv, Submitting, watchVars
  <2>2. BeliefInv(u)'
    BY <1>1, <1>2, <1>3, <1>4, <1>12
       DEF ExecReady, StepOk, PlaceInv, BeliefInv, Lasting, Ended, watchVars
  <2>3. DownInv(u)'
    BY <1>1, <1>2, <1>3, <1>4, <1>12
       DEF ExecReady, StepOk, PlaceInv, DownInv, watchVars
  <2>. QED
    BY <2>1, <2>2, <2>3 DEF StepOk
<1>13. CASE ExecAcquire(u)
  <2>1. PlaceInv(u)'
    BY <1>1, <1>2, <1>3, <1>4, <1>13
       DEF ExecAcquire, StepOk, PlaceInv, Submitting, watchVars
  <2>2. BeliefInv(u)'
    BY <1>1, <1>2, <1>3, <1>4, <1>13
       DEF ExecAcquire, StepOk, PlaceInv, BeliefInv, Lasting, Ended, watchVars
  <2>3. DownInv(u)'
    BY <1>1, <1>2, <1>3, <1>4, <1>13
       DEF ExecAcquire, StepOk, PlaceInv, DownInv, watchVars
  <2>. QED
    BY <2>1, <2>2, <2>3 DEF StepOk
<1>14. CASE ExecProceed(u)
  <2>1. PlaceInv(u)'
    BY <1>1, <1>2, <1>3, <1>4, <1>14
       DEF ExecProceed, StepOk, PlaceInv, Submitting, watchVars
  <2>2. BeliefInv(u)'
    BY <1>1, <1>2, <1>3, <1>4, <1>14
       DEF ExecProceed, StepOk, PlaceInv, BeliefInv, Lasting, Ended, watchVars
  <2>3. DownInv(u)'
    BY <1>1, <1>2, <1>3, <1>4, <1>14
       DEF ExecProceed, StepOk, PlaceInv, DownInv, watchVars
  <2>. QED
    BY <2>1, <2>2, <2>3 DEF StepOk
<1>15. CASE ExecCacheMiss(u)
  <2>1. PlaceInv(u)'
    BY <1>1, <1>2, <1>3, <1>4, <1>15
       DEF ExecCacheMiss, StepOk, PlaceInv, Submitting, watchVars
  <2>2. BeliefInv(u)'
    BY <1>1, <1>2, <1>3, <1>4, <1>15
       DEF ExecCacheMiss, StepOk, PlaceInv, BeliefInv, Lasting, Ended, watchVars
  <2>3. DownInv(u)'
    BY <1>1, <1>2, <1>3, <1>4, <1>15
       DEF ExecCacheMiss, StepOk, PlaceInv, DownInv, watchVars
  <2>. QED
    BY <2>1, <2>2, <2>3 DEF StepOk
<1>16. CASE ExecSend(u)
  <2>1. PlaceInv(u)'
    BY <1>1, <1>2, <1>3, <1>4, <1>16
       DEF ExecSend, StepOk, PlaceInv, Submitting, watchVars
  <2>2. BeliefInv(u)'
    BY <1>1, <1>2, <1>3, <1>4, <1>16
       DEF ExecSend, StepOk, PlaceInv, BeliefInv, Lasting, Ended, watchVars
  <2>3. DownInv(u)'
    BY <1>1, <1>2, <1>3, <1>4, <1>16
       DEF ExecSend, StepOk, PlaceInv, DownInv, watchVars
  <2>. QED
    BY <2>1, <2>2, <2>3 DEF StepOk
<1>17. CASE WatchRecv(u)
  <2>1. PlaceInv(u)'
    BY <1>1, <1>2, <1>3, <1>4, <1>17
       DEF WatchRecv, StepOk, PlaceInv, Submitting, watchVars
  <2>2. BeliefInv(u)'
    BY <1>1, <1>2, <1>3, <1>4, <1>17
       DEF WatchRecv, StepOk, PlaceInv, BeliefInv, Lasting, Ended, watchVars
  <2>3. DownInv(u)'
    BY <1>1, <1>2, <1>3, <1>4, <1>17
       DEF WatchRecv, StepOk, PlaceInv, DownInv, watchVars
  <2>. QED
    BY <2>1, <2>2, <2>3 DEF StepOk
<1>18. CASE WatchForward(u)
  <2>1. PlaceInv(u)'
    BY <1>1, <1>2, <1>3, <1>4, <1>18
       DEF WatchForward, StepOk, PlaceInv, Submitting, watchVars
  <2>2. BeliefInv(u)'
    BY <1>1, <1>2, <1>3, <1>4, <1>18
       DEF WatchForward, StepOk, PlaceInv, BeliefInv, Lasting, Ended, watchVars
  <2>3. DownInv(u)'
    BY <1>1, <1>2, <1>3, <1>4, <1>18
       DEF WatchForward, StepOk, PlaceInv, DownInv, watchVars
  <2>. QED
    BY <2>1, <2>2, <2>3 DEF StepOk
<1>19. CASE ExecSubmit(u)
  <2>1. /\ exec[u] = "submit" /\ exec'[u] = "watch" /\ ext'[u] = "" /\ jw'[u] = "poll"
        /\ UNCHANGED <<submitted, ready, jobStatus, got>>
    BY <1>1, <1>19 DEF ExecSubmit
  <2>2. submitted[u] /\ ext[u] = "none" /\ jobStatus[u] = "" /\ jw[u] = "none"
    BY <1>2, <2>1 DEF StepOk, PlaceInv, BeliefInv, Submitting
  <2>3. PlaceInv(u)'
    BY <1>2, <1>3, <1>4, <2>1, <2>2 DEF StepOk, PlaceInv, Submitting
  <2>4. BeliefInv(u)'
    BY <1>2, <2>1, <2>2 DEF StepOk, BeliefInv, Lasting, Ended
  <2>5. DownInv(u)'
    BY <1>4 DEF DownInv
  <2>. QED
    BY <2>3, <2>4, <2>5 DEF StepOk
<1>20. CASE JobPoll(u)
  <2>1. PlaceInv(u)'
    BY <1>1, <1>2, <1>3, <1>4, <1>20
       DEF JobPoll, StepOk, PlaceInv, Submitting, stepVars
  <2>2. BeliefInv(u)'
    BY <1>1, <1>2, <1>3, <1>4, <1>20
       DEF JobPoll, StepOk, PlaceInv, BeliefInv, Lasting, Ended, stepVars
  <2>3. DownInv(u)'
    BY <1>1, <1>2, <1>3, <1>4, <1>20
       DEF JobPoll, StepOk, PlaceInv, DownInv, stepVars
  <2>. QED
    BY <2>1, <2>2, <2>3 DEF StepOk
<1>21. CASE JobAssign(u)
  <2>1. PlaceInv(u)'
    BY <1>1, <1>2, <1>3, <1>4, <1>21
       DEF JobAssign, StepOk, PlaceInv, BeliefInv, Submitting
  <2>2. BeliefInv(u)'
    BY <1>1, <1>2, <1>3, <1>4, <1>21
       DEF JobAssign, PolledStatus, StepOk, PlaceInv, BeliefInv, Lasting, Ended
  <2>3. DownInv(u)'
    BY <1>1, <1>2, <1>3, <1>4, <1>21
       DEF JobAssign, PolledStatus, StepOk, PlaceInv, DownInv
  <2>. QED
    BY <2>1, <2>2, <2>3 DEF StepOk
<1>. QED
  BY <1>5, <1>6, <1>7, <1>8, <1>9, <1>10, <1>11, <1>12, <1>13, <1>14, <1>15, <1>16, <1>17, <1>18, <1>19, <1>20, <1>21
     DEF Execute, JobWatch

\* A job that goes on or ends.
LEMMA JobStepOk ==
  ASSUME RecoveryTypeOK, RInv, Work, NEW u \in Steps, NEW s \in Steps,
         External(s) \/ (Alive(s) /\ ExtSet(s, "Terminated"))
  PROVE  StepOk(u)'
<1>1. ext \in [Steps -> {"none"} \cup PolledStatus]
  BY DEF RecoveryTypeOK
<1>2. StepOk(u)
  BY DEF RInv, StepOk
<1>3. isDepsReady(u) => isDepsReady(u)'
  BY WorkKeepsDeps
<1>4. /\ Alive(s) /\ \E v \in PolledStatus : ext' = [ext EXCEPT ![s] = v]
      /\ UNCHANGED <<listen, seen, exec, submitted, ready, jobStatus, jw, got, db>>
  BY DEF External, ExtRun, ExtSucceed, ExtFail, ExtTerminate, ExtKill, ExtSet, Alive,
         PolledStatus, Ended, stepVars, watchVars
<1>5. CASE s # u
  BY <1>1, <1>2, <1>3, <1>4, <1>5, StepOkElsewhere
<1>6. CASE s = u
  <2>1. ext[u] \in {"", "Running"} /\ ext'[u] \in PolledStatus
    BY <1>1, <1>4, <1>6 DEF Alive
  <2>2. PlaceInv(u)'
    BY <1>2, <1>3, <1>4, <2>1 DEF StepOk, PlaceInv, PolledStatus, Ended
  <2>3. BeliefInv(u)'
    BY <1>2, <1>4, <2>1 DEF StepOk, BeliefInv, PolledStatus, Ended
  <2>4. DownInv(u)'
    BY <1>2, <1>4, <2>1 DEF StepOk, DownInv
  <2>. QED
    BY <2>2, <2>3, <2>4 DEF StepOk
<1>. QED
  BY <1>5, <1>6

\* Restart(): a step goes to recovery with its job, or waits without one.
LEMMA RestartStepOk ==
  ASSUME RecoveryTypeOK, RInv, NEW u \in Steps,
         Restart \/ \E s \in Steps : RecoverAcquire(s)
  PROVE  StepOk(u)'
<1>1. /\ exec \in [Steps -> ExecPc \cup {"recover"}] /\ seen \in [Steps -> Tally]
      /\ submitted \in [Steps -> BOOLEAN] /\ ready \in [Steps -> BOOLEAN]
      /\ jw \in [Steps -> JobWatchPc]
  BY DEF RecoveryTypeOK
<1>2. StepOk(u)
  BY DEF RInv, StepOk
<1>3. isDepsReady(u) => isDepsReady(u)'
  BY WorkKeepsDeps DEF Work
<1>4. CASE RestartBegin \/ RestartLoop \/ RestartListen
  BY <1>2, <1>3, <1>4, StepOkElsewhere
     DEF RestartBegin, RestartLoop, RestartListen, Blank, runVars, stepVars, watchVars
<1>5. ASSUME NEW s \in Steps, s # u, RestartStep(s) \/ RestartVisit(s) \/ RecoverAcquire(s)
      PROVE  StepOk(u)'
  BY <1>1, <1>2, <1>3, <1>5, StepOkElsewhere
     DEF RestartStep, RestartVisit, RecoverAcquire, stepVars, watchVars
<1>6. CASE RestartStep(u)
  <2>1. /\ listen = "reboot" /\ exec[u] = "none"
        /\ exec'[u] = IF jobStatus[u] = "" THEN "select" ELSE "recover"
        /\ UNCHANGED <<listen, seen, submitted, ready, jobStatus, jw, got, ext, db>>
    BY <1>1, <1>6 DEF RestartStep, watchVars
  <2>2. PlaceInv(u)'
    BY <1>2, <1>3, <2>1 DEF StepOk, PlaceInv, BeliefInv, Submitting
  <2>3. BeliefInv(u)' /\ DownInv(u)'
    BY <1>2, <2>1 DEF StepOk, BeliefInv, DownInv
  <2>. QED
    BY <2>2, <2>3 DEF StepOk
<1>7. CASE RestartVisit(u)
  <2>1. /\ listen = "reready"
        /\ seen'[u] = IF ~done[u] /\ ~submitted[u] /\ isDepsReady(u)
                        THEN "readying" ELSE "open"
        /\ UNCHANGED <<listen, exec, submitted, ready, jobStatus, jw, got, ext, db>>
    BY <1>1, <1>7 DEF RestartVisit, stepVars, watchVars
  <2>2. PlaceInv(u)'
    BY <1>2, <1>3, <2>1 DEF StepOk, PlaceInv
  <2>3. BeliefInv(u)' /\ DownInv(u)'
    BY <1>2, <2>1 DEF StepOk, BeliefInv, DownInv
  <2>. QED
    BY <2>2, <2>3 DEF StepOk
<1>8. CASE RecoverAcquire(u)
  <2>1. /\ exec[u] = "recover" /\ exec'[u] = "watch" /\ jw'[u] = "poll"
        /\ UNCHANGED <<listen, seen, submitted, ready, jobStatus, got, ext, db>>
    BY <1>1, <1>8 DEF RecoverAcquire
  <2>2. PlaceInv(u)'
    BY <1>2, <1>3, <2>1 DEF StepOk, PlaceInv, Submitting
  <2>3. BeliefInv(u)' /\ DownInv(u)'
    BY <1>2, <2>1 DEF StepOk, PlaceInv, BeliefInv, DownInv, Lasting, Ended
  <2>. QED
    BY <2>2, <2>3 DEF StepOk
<1>. QED
  BY <1>4, <1>5, <1>6, <1>7, <1>8 DEF Restart

LEMMA WorkStepOk ==
  ASSUME RecoveryTypeOK, RInv, Work, NEW u \in Steps PROVE StepOk(u)'
<1>1. CASE Engine
  BY <1>1, SchedulerStepOk, GoroutineStepOk, JobStepOk DEF Engine, Next
<1>2. StepOk(u) /\ (isDepsReady(u) => isDepsReady(u)')
  BY WorkKeepsDeps DEF RInv, StepOk
<1>3. ASSUME UNCHANGED <<listen, seen, exec, submitted, ready, jobStatus, jw, got, ext>>,
             db'.runtime = db.runtime
      PROVE  StepOk(u)'
  BY <1>2, <1>3, StepOkElsewhere
<1>4. CASE WritePending
  <2>1. db'.runtime = db.runtime
    BY <1>4 DEF WritePending, RecoveryTypeOK
  <2>. QED
    BY <1>3, <1>4, <2>1 DEF WritePending, stepVars, watchVars
<1>5. CASE Cluster
  <2>1. ASSUME UNCHANGED vars PROVE StepOk(u)'
    BY <1>3, <2>1 DEF vars
  <2>2. ASSUME NEW s \in asked, Alive(s), ExtSet(s, "Terminated"), s \notin Steps
        PROVE  StepOk(u)'
    <3>1. ext' = ext
      BY <2>2, ZenonT(60) DEF RecoveryTypeOK, ExtSet
    <3>. QED
      BY <1>3, <2>2, <3>1 DEF ExtSet, stepVars, watchVars
  <2>. QED
    BY <1>5, <2>1, <2>2, JobStepOk DEF Cluster
<1>. QED
  BY <1>1, <1>4, <1>5, RestartStepOk DEF Work

-----------------------------------------------------------------------------
(* What is on record *)

\* Only the engine's callback writes the runtime of the record.
LEMMA OnlyCallbackStores ==
  ASSUME RecoveryTypeOK, Work
  PROVE  db'.runtime = db.runtime \/ (Engine /\ ListenCallback)
<1>1. CASE WritePending
  BY <1>1 DEF WritePending, RecoveryTypeOK
<1>2. CASE ~WritePending
  BY <1>2, ZenonT(60) DEF Work, Engine, Next, Scheduler, StartBegin, StartListen, Listen, ListenRecv,
     ListenDecide, ListenAssign, ListenContinue, ListenCallbackLost,
     ListenCheck, StartStep, SendReady, ListenScan, Stop, StopCheck, StopCancel, StopMark,
     Execute, ExecCancelled, ExecReady, ExecAcquire, ExecAbort, ExecProceed, ExecCacheErr,
     ExecCacheHit, ExecCacheMiss, ExecSubmitErr, ExecSubmit, ExecSend, WatchRecv,
     WatchForward, JobWatch, JobPoll, JobAssign, JobPollMessage, JobPollErr, StopJob,
     StopJobBegin, StopJobOk, StopJobErr, StopJobReport, External, ExtRun, ExtSucceed,
     ExtFail, ExtTerminate, ExtKill, ExtSet, Cluster, Restart, RestartBegin,
     RestartLoop, RestartListen, RestartStep, RestartVisit, RecoverAcquire, vars
<1>. QED
  BY <1>1, <1>2

\* UpdateRunCb() stores what is true of every step; until the next write it
\* stays true.
LEMMA WorkStored ==
  ASSUME RecoveryTypeOK, RInv, Work, NEW u \in Steps PROVE StoredInv(u)'
<1>1. (listen' = "down") = (listen = "down")
  BY ZenonT(60) DEF Work, Engine, Next, Scheduler, StartBegin, StartListen, Listen, ListenRecv,
     ListenDecide, ListenAssign, ListenContinue, ListenCallback, ListenCallbackLost,
     ListenCheck, StartStep, SendReady, ListenScan, Stop, StopCheck, StopCancel, StopMark,
     Execute, ExecCancelled, ExecReady, ExecAcquire, ExecAbort, ExecProceed, ExecCacheErr,
     ExecCacheHit, ExecCacheMiss, ExecSubmitErr, ExecSubmit, ExecSend, WatchRecv,
     WatchForward, JobWatch, JobPoll, JobAssign, JobPollMessage, JobPollErr, StopJob,
     StopJobBegin, StopJobOk, StopJobErr, StopJobReport, External, ExtRun, ExtSucceed,
     ExtFail, ExtTerminate, ExtKill, ExtSet, WritePending, Cluster, Restart, RestartBegin,
     RestartLoop, RestartListen, RestartStep, RestartVisit, RecoverAcquire, vars
<1>2. PlaceInv(u) /\ BeliefInv(u) /\ StoredInv(u)
  BY DEF RInv
<1>3. Kept(u)
  BY WorkKeeps
<1>4. ASSUME db'.runtime = db.runtime PROVE StoredInv(u)'
  BY <1>1, <1>2, <1>3, <1>4 DEF StoredInv, Kept, Ended
<1>5. ASSUME Engine, ListenCallback PROVE StoredInv(u)'
  <2>1. /\ db'.runtime[u] = [id |-> ext[u] # "none", status |-> jobStatus[u]]
        /\ listen # "down" /\ UNCHANGED <<ext, jobStatus>>
    BY <1>5 DEF Engine, ListenCallback, RuntimeView, stepVars
  <2>2. \A d \in Steps : db'.runtime[d].status = jobStatus[d]
    BY <1>5 DEF ListenCallback, RuntimeView
  <2>3. ext[u] # "none" =>
          \A d \in Deps[u] : db'.runtime[d].status \in {"Succeeded", "Cached"}
    BY <1>2, <2>1, <2>2, DepsAssumption DEF PlaceInv, isDepsReady
  <2>4. db'.runtime[u].id = (ext[u] # "none")
    BY <2>1
  <2>5. /\ db'.runtime[u].id => ext[u] # "none"
        /\ ext[u] # "none" => db'.runtime[u].id
    BY <2>4
  <2>6. db'.runtime[u].status = jobStatus[u] /\ listen' # "down"
    BY <1>1, <2>1, <2>2
  <2>. QED
    BY <1>2, <2>1, <2>3, <2>4, <2>5, <2>6 DEF StoredInv, BeliefInv
<1>. QED
  BY <1>4, <1>5, OnlyCallbackStores

\* A crash forgets the engine and the jobs that are not on record; the record
\* remains true of those that are.
LEMMA CrashKeepsInv == ASSUME RecoveryTypeOK, RInv, Crash PROVE RInv'
<1> SUFFICES ASSUME NEW u \in Steps
             PROVE  (PlaceInv(u) /\ BeliefInv(u) /\ DownInv(u) /\ StoredInv(u))'
  BY DEF RInv
<1>1. /\ listen' = "down" /\ db' = db /\ seen'[u] = "unseen" /\ exec'[u] = "none"
      /\ ~submitted'[u] /\ ~ready'[u] /\ jobStatus'[u] = "" /\ jw'[u] = "none"
      /\ got'[u] = ""
      /\ ext'[u] = IF db.runtime[u].id THEN ext[u] ELSE "none"
  BY DEF Crash, Blank
<1>2. StoredInv(u)
  BY DEF RInv
<1>3. PlaceInv(u)' /\ BeliefInv(u)' /\ DownInv(u)'
  BY <1>1 DEF PlaceInv, BeliefInv, DownInv, Submitting, Ended
<1>4. StoredInv(u)'
  BY <1>1, <1>2 DEF StoredInv
<1>. QED
  BY <1>3, <1>4

\* The rebuilt engine believes what the record says, and takes a step for
\* submitted if the record has its job, whose dependencies are then satisfied.
LEMMA ResumeKeepsInv == ASSUME RecoveryTypeOK, RInv, Resume PROVE RInv'
<1> SUFFICES ASSUME NEW u \in Steps
             PROVE  (PlaceInv(u) /\ BeliefInv(u) /\ DownInv(u) /\ StoredInv(u))'
  BY DEF RInv
<1> DEFINE r == db.runtime[u]
<1>1. r.id \in BOOLEAN /\ r.status \in JobStatus
  BY DEF RecoveryTypeOK, RuntimeViews
<1>2. /\ listen = "down" /\ listen' = "renew"
      /\ UNCHANGED <<seen, ready, jw, got, ext, db>>
      /\ \A s \in Steps : jobStatus'[s] = db.runtime[s].status
      /\ submitted'[u] = r.id
      /\ exec'[u] = IF NotEnded(r.status) THEN "none" ELSE "returned"
  BY DEF Resume, watchVars
<1>3. PlaceInv(u) /\ BeliefInv(u) /\ DownInv(u) /\ StoredInv(u)
  BY DEF RInv
<1>4. r.id => isDepsReady(u)'
  BY <1>2, <1>3, DepsAssumption DEF StoredInv, isDepsReady
<1>5. ~ready[u] /\ seen[u] # "readying" /\ jw[u] = "none" /\ got[u] = ""
  BY <1>2, <1>3 DEF PlaceInv, BeliefInv, DownInv
<1>6. PlaceInv(u)'
  BY <1>1, <1>2, <1>3, <1>4, <1>5 DEF PlaceInv, DownInv, NotEnded, Submitting
<1>7. BeliefInv(u)'
  BY <1>1, <1>2, <1>3, <1>5 DEF BeliefInv, StoredInv, DownInv, Ended
<1>8. DownInv(u)' /\ StoredInv(u)'
  BY <1>1, <1>2, <1>3 DEF DownInv, StoredInv
<1>. QED
  BY <1>6, <1>7, <1>8

-----------------------------------------------------------------------------
(* The theorems *)

LEMMA RInvInit == RecoveryInit => RInv
<1> SUFFICES ASSUME Init, NEW s \in Steps
             PROVE  PlaceInv(s) /\ BeliefInv(s) /\ DownInv(s) /\ StoredInv(s)
  BY DEF RecoveryInit, RInv
<1>1. /\ listen = "new" /\ seen[s] = "unseen" /\ exec[s] = "none" /\ ~submitted[s]
      /\ ~ready[s] /\ jobStatus[s] = "" /\ jw[s] = "none" /\ got[s] = ""
      /\ ext[s] = "none"
  BY DEF Init, Blank
<1>2. ~db.runtime[s].id /\ db.runtime[s].status = ""
  BY DEF Init
<1>. QED
  BY <1>1, <1>2 DEF PlaceInv, BeliefInv, DownInv, StoredInv, Submitting, Lasting, Ended

LEMMA RInvNext == RecoveryTypeOK /\ RInv /\ [RecoveryNext]_recoveryVars => RInv'
<1> SUFFICES ASSUME RecoveryTypeOK, RInv, [RecoveryNext]_recoveryVars PROVE RInv'
  OBVIOUS
<1>1. CASE Work
  BY <1>1, WorkStepOk, WorkStored DEF RInv, StepOk
<1>2. CASE UNCHANGED recoveryVars
  <2>1. UNCHANGED <<listen, seen, exec, submitted, ready, jobStatus, jw, got, ext, db>>
    BY <1>2 DEF recoveryVars, vars
  <2> SUFFICES ASSUME NEW u \in Steps PROVE StepOk(u)' /\ StoredInv(u)'
    BY DEF RInv, StepOk
  <2>2. StepOk(u) /\ StoredInv(u)
    BY DEF RInv, StepOk
  <2>3. isDepsReady(u) => isDepsReady(u)'
    BY <2>1 DEF isDepsReady
  <2>4. StepOk(u)'
    BY <2>1, <2>2, <2>3, StepOkElsewhere
  <2>5. StoredInv(u)'
    BY <2>1, <2>2 DEF StoredInv
  <2>. QED
    BY <2>4, <2>5
<1>. QED
  BY <1>1, <1>2, CrashKeepsInv, ResumeKeepsInv DEF RecoveryNext, Work

\* The engine and its record agree with each other and with the job subsystem,
\* wherever the server dies (callback(), SetWorkflowRuntime(), Restart()).
THEOREM RecoveryInvariant == RecoverySpec => [](RecoveryTypeOK /\ RInv)
<1>1. RecoveryTypeOK /\ RInv /\ [RecoveryNext]_recoveryVars => RecoveryTypeOK'
  BY RecoveryTypes DEF recoveryVars, vars, RecoveryTypeOK
<1>. QED
  BY RecoveryInitTypes, RInvInit, RInvNext, <1>1, PTL DEF RecoverySpec

\* A job comes after those of its dependencies, whatever crashes forget.
THEOREM OrderKept == RecoverySpec => []OrderSurvivesCrashes
<1>1. RecoveryTypeOK /\ RInv => OrderSurvivesCrashes
  <2> SUFFICES ASSUME RecoveryTypeOK, RInv, NEW s \in Steps, ext[s] # "none",
                      NEW d \in Deps[s]
               PROVE  \/ ext[d] = "Succeeded"
                      \/ /\ ext[d] = "none"
                         /\ "Cached" \in {jobStatus[d], db.runtime[d].status}
    BY DEF OrderSurvivesCrashes
  <2>1. d \in Steps
    BY DepsAssumption
  <2>2. /\ PlaceInv(s) /\ DownInv(s) /\ StoredInv(s)
        /\ BeliefInv(d) /\ DownInv(d) /\ StoredInv(d)
    BY <2>1 DEF RInv
  <2>3. CASE listen = "down"
    BY <2>2, <2>3 DEF DownInv, StoredInv, Ended
  <2>4. CASE listen # "down"
    BY <2>2, <2>4 DEF PlaceInv, BeliefInv, isDepsReady, Ended
  <2>. QED
    BY <2>3, <2>4
<1>. QED
  BY <1>1, RecoveryInvariant, PTL

\* Once its job is on record, no restart submits a step again.
THEOREM NeverResubmitted == RecoverySpec => []RecordedJobNotResubmitted
<1>1. RInv => RecordedJobNotResubmitted
  BY DEF RInv, PlaceInv, StoredInv, RecordedJobNotResubmitted, Submitting
<1>. QED
  BY <1>1, RecoveryInvariant, PTL

\* No write of the record takes an outcome back.
LEMMA WorkKeepsRecord ==
  ASSUME RecoveryTypeOK, RInv, RecoveryNext, NEW u \in Steps,
         db.runtime[u].status \in Lasting
  PROVE  db'.runtime[u] = db.runtime[u]
<1>1. CASE Engine /\ ListenCallback
  <2>1. /\ db'.runtime[u] = [id |-> ext[u] # "none", status |-> jobStatus[u]]
        /\ listen # "down"
    BY <1>1 DEF Engine, ListenCallback, RuntimeView
  <2>2. db.runtime[u] \in [id : BOOLEAN, status : JobStatus]
    BY DEF RecoveryTypeOK, RuntimeViews
  <2>3. jobStatus[u] = db.runtime[u].status /\ db.runtime[u].id = (ext[u] # "none")
    BY <2>1 DEF RInv, StoredInv
  <2>. QED
    BY <2>1, <2>2, <2>3
<1>2. CASE Crash \/ Resume
  BY <1>2 DEF Crash, Resume
<1>. QED
  BY <1>1, <1>2, OnlyCallbackStores DEF RecoveryNext, Work

\* What is on record of a job that ended is so, and stays.
THEOREM RecordedEndKept == RecoverySpec => RecordedEndIsReal
<1> DEFINE Real == \A s \in Steps :
                     db.runtime[s].id /\ db.runtime[s].status \in Ended =>
                       ext[s] = db.runtime[s].status
           Kept1 == \A s \in Steps :
                      db.runtime[s].status \in Lasting => db'.runtime[s] = db.runtime[s]
<1>1. RInv => Real
  BY DEF RInv, StoredInv
<1>2. RecoveryTypeOK /\ RInv /\ [RecoveryNext]_recoveryVars => [Kept1]_vars
  BY WorkKeepsRecord DEF recoveryVars
<1>3. RecoverySpec => []Real
  BY <1>1, RecoveryInvariant, PTL
<1>4. RecoverySpec => [][Kept1]_vars
  BY <1>2, RecoveryInvariant, PTL DEF RecoverySpec
<1>. QED
  BY <1>3, <1>4 DEF RecordedEndIsReal, RecordedEndIsStable
=============================================================================
