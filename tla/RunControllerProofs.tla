------------------------- MODULE RunControllerProofs -------------------------
(* Proofs about RunController when requests come one at a time, in the        *)
(* instance Q of MCRunController.                                             *)
EXTENDS MCRunController, TLAPS

USE DEF One, NotDbErr, FaultKinds

Engines == [status : Q!EngineStatuses, cancelled : BOOLEAN, started : BOOLEAN,
            ended : BOOLEAN, over : BOOLEAN]
Callbacks == [at : {"none", "call", "begin", "store"}, status : Q!EngineStatuses, tries : Nat]

\* A new engine has done nothing.
LEMMA NewFacts ==
  /\ ~Q!NewEngine.started /\ ~Q!NewEngine.ended
  /\ Q!NewEngine.status \notin Q!Final
BY DEF Q!NewEngine, Q!Final

\* Before the first request there is no engine and nothing to do.
LEMMA SeriesInit == Q!Init => Q!SeriesInv
<1> SUFFICES ASSUME Q!Init PROVE Q!SeriesInv
  OBVIOUS
<1>1. 0 \in 0..MaxSeries
  BY SeriesAssumption
<1>2. Q!NewEngine \in Engines /\ Q!NoCallback \in Callbacks
  BY DEF Q!NewEngine, Q!NoCallback, Engines, Callbacks, Q!EngineStatuses
<1>3. Q!Unread \in [status : Q!Statuses, url : BOOLEAN]
  BY DEF Q!Unread, Q!Statuses
<1>4. run \in Q!Statuses
  BY DEF Q!Init, Q!Statuses
<1>5. Q!TypeOK
  BY <1>1, <1>2, <1>3, <1>4 DEF Q!Init, Q!TypeOK, Engines, Callbacks
<1>6. \A i \in Q!Wfs : wf[i] = Q!NewEngine /\ ~Q!Live(i) /\ cb[i].at = "none"
  BY NewFacts DEF Q!Init, Q!NoCallback, Q!Live
<1>7. Q!EnginesInv
  BY <1>6, NewFacts DEF Q!EnginesInv, Q!Init
<1>8. Q!RequestInv
  BY <1>6 DEF Q!RequestInv, Q!NothingLeft, Q!NoneAtWork, Q!Init, Q!Threads
<1> QED
  BY <1>5, <1>7, <1>8 DEF Q!SeriesInv

-----------------------------------------------------------------------------
(* Every step keeps the types *)

LEMMA TypeFacts ==
  /\ Q!Final \cup Q!Active \subseteq Q!EngineStatuses /\ Q!Final \cup Q!Active \subseteq Q!Statuses
  /\ Q!NoCallback \in Callbacks /\ Q!Unread \in [status : Q!Statuses, url : BOOLEAN]
BY DEF Q!EngineStatuses, Q!Statuses, Q!NoCallback, Q!Unread, Callbacks

LEMMA EngineTyped ==
  ASSUME NEW w \in [Q!Wfs -> Engines], NEW i, NEW st \in Q!EngineStatuses
  PROVE  /\ [w EXCEPT ![i].status = st] \in [Q!Wfs -> Engines]
         /\ [w EXCEPT ![i].status = st, ![i].started = TRUE] \in [Q!Wfs -> Engines]
         /\ [w EXCEPT ![i].cancelled = TRUE] \in [Q!Wfs -> Engines]
         /\ [w EXCEPT ![i].status = st, ![i].ended = TRUE] \in [Q!Wfs -> Engines]
         /\ \A b \in BOOLEAN : [w EXCEPT ![i].over = b] \in [Q!Wfs -> Engines]
BY DEF Engines

LEMMA CallbackTyped ==
  ASSUME NEW c \in [Q!Wfs -> Callbacks], NEW i \in Q!Wfs, NEW st \in Q!EngineStatuses
  PROVE  /\ [c EXCEPT ![i] = [at |-> "begin", status |-> st, tries |-> 1]] \in [Q!Wfs -> Callbacks]
         /\ [c EXCEPT ![i].at = "call"] \in [Q!Wfs -> Callbacks]
         /\ [c EXCEPT ![i].at = "store"] \in [Q!Wfs -> Callbacks]
         /\ \A n \in Nat : [c EXCEPT ![i].at = "begin", ![i].tries = n] \in [Q!Wfs -> Callbacks]
         /\ [c EXCEPT ![i] = Q!NoCallback] \in [Q!Wfs -> Callbacks]
<1>1. [at |-> "begin", status |-> st, tries |-> 1] \in Callbacks
  BY DEF Callbacks
<1>2. /\ [c EXCEPT ![i].at = "call"] \in [Q!Wfs -> Callbacks]
      /\ [c EXCEPT ![i].at = "store"] \in [Q!Wfs -> Callbacks]
  BY DEF Callbacks
<1>3. ASSUME NEW n \in Nat
      PROVE  [c EXCEPT ![i].at = "begin", ![i].tries = n] \in [Q!Wfs -> Callbacks]
  <2>1. [at |-> "begin", status |-> c[i].status, tries |-> n] \in Callbacks
    BY DEF Callbacks
  <2>2. [[c[i] EXCEPT !.at = "begin"] EXCEPT !.tries = n] \in Callbacks
    BY <2>1 DEF Callbacks
  <2>3. [c EXCEPT ![i].at = "begin"] \in [Q!Wfs -> Callbacks]
    BY <1>2 DEF Callbacks
  <2> QED
    BY <2>2, <2>3 DEF Callbacks
<1> QED
  BY <1>1, <1>2, <1>3, TypeFacts

LEMMA ReturnTypes ==
  ASSUME NEW t \in Q!Threads, Q!TypeOK, Q!Return(t)
  PROVE  /\ \E l \in {"idle"} : pc' = [pc EXCEPT ![t] = l]
         /\ read' \in [Q!Threads -> [status : Q!Statuses, url : BOOLEAN]]
         /\ mine' \in [Q!Threads -> 0..MaxSeries]
BY TypeFacts, SeriesAssumption DEF Q!Return, Q!At, Q!Forget, Q!TypeOK

LEMMA ProceedTypes ==
  ASSUME NEW t \in Q!Threads, Q!TypeOK, Q!Request(t) \/ Q!Proceed(t)
  PROVE  Q!TypeOK'
<1>0. Q!Return(t) => /\ \E l \in {"idle"} : pc' = [pc EXCEPT ![t] = l]
                     /\ read' \in [Q!Threads -> [status : Q!Statuses, url : BOOLEAN]]
                     /\ mine' \in [Q!Threads -> 0..MaxSeries]
  BY ReturnTypes
<1> USE SeriesAssumption, <1>0 DEF Q!TypeOK, Q!At, Q!Goto, Q!Store, Q!Statuses, Q!Final, Q!Active
<1>1. CASE Q!CreateInsert(t)
  BY <1>1 DEF Q!CreateInsert
<1>2. CASE Q!StopRead(t)
  BY <1>2 DEF Q!StopRead
<1>3. CASE Q!RetryRead(t)
  BY <1>3 DEF Q!RetryRead
<1>4. CASE Q!DeleteRead(t)
  BY <1>4 DEF Q!DeleteRead
<1>5. CASE Q!SourceErr(t)
  BY <1>5 DEF Q!SourceErr
<1>6. CASE Q!HandleNoImage(t) \/ Q!ImageStart(t)
  <2>1. Q!NewWf(t)
    BY <1>6 DEF Q!HandleNoImage, Q!ImageStart
  <2>2. nwf + 1 \in 0..MaxSeries
    BY <2>1 DEF Q!NewWf
  <2> QED
    BY <2>1, <2>2 DEF Q!NewWf
<1>7. CASE Q!HandleErr(t) \/ Q!ImageFailed(t) \/ Q!ImageReady(t)
  BY <1>7 DEF Q!HandleErr, Q!ImageFailed, Q!ImageReady
<1>8. CASE Q!HandleImage(t)
  BY <1>8 DEF Q!HandleImage, Q!NeedHandleImage
<1>9. CASE Q!StartWf(t)
  <2>1. wf' \in [Q!Wfs -> Engines]
    BY <1>9, EngineTyped, TypeFacts DEF Q!StartWf, Engines
  <2> QED
    BY <1>9, <2>1 DEF Q!StartWf, Engines
<1>10. CASE Q!WritePending(t)
  BY <1>10 DEF Q!WritePending
<1>11. CASE Q!StopLookup(t)
  BY <1>11 DEF Q!StopLookup
<1>12. CASE Q!StopStore(t)
  BY <1>12 DEF Q!StopStore
<1>13. CASE Q!StopWf(t)
  BY <1>13 DEF Q!StopWf
<1>17. CASE Q!StopCancel(t)
  <2>1. wf' \in [Q!Wfs -> Engines]
    BY <1>17, EngineTyped, TypeFacts DEF Q!StopCancel, Engines
  <2> QED
    BY <1>17, <2>1 DEF Q!StopCancel, Engines
<1>18. CASE Q!StopMark(t)
  <2>1. wf' \in [Q!Wfs -> Engines]
    BY <1>18, EngineTyped, TypeFacts DEF Q!StopMark, Engines
  <2> QED
    BY <1>18, <2>1 DEF Q!StopMark, Engines
<1>14. CASE Q!RetryReset(t)
  BY <1>14 DEF Q!RetryReset
<1>15. CASE Q!RetryRefused(t) \/ Q!WriteErr(t)
  BY <1>15 DEF Q!RetryRefused, Q!WriteErr
<1>16. CASE Q!DeleteRow(t)
  BY <1>16 DEF Q!DeleteRow
<1> QED
  BY <1>1, <1>2, <1>3, <1>4, <1>5, <1>6, <1>7, <1>8, <1>9, <1>10, <1>11, <1>12, <1>13, <1>14,
     <1>15, <1>16, <1>17, <1>18 DEF Q!Request, Q!Proceed

LEMMA EngineTypes ==
  ASSUME NEW i \in Q!Wfs, Q!TypeOK, Q!EnginesInv, Q!EngineEvent(i) \/ Q!EngineEnd(i) \/ Q!Callback(i)
  PROVE  Q!TypeOK'
<1> USE SeriesAssumption
<1>1. wf \in [Q!Wfs -> Engines] /\ cb \in [Q!Wfs -> Callbacks]
  BY DEF Q!TypeOK, Engines, Callbacks
<1>2. wf[i].status \in Q!EngineStatuses /\ cb[i].status \in Q!EngineStatuses /\ cb[i].tries \in Nat
  BY <1>1 DEF Engines, Callbacks
<1>3. ASSUME Q!Processes(i), wf' \in [Q!Wfs -> Engines] PROVE Q!TypeOK'
  <2>1. cb' \in [Q!Wfs -> Callbacks]
    BY <1>1, <1>2, <1>3, CallbackTyped DEF Q!Processes
  <2> QED
    BY <1>3, <2>1 DEF Q!Processes, Q!TypeOK, Engines, Callbacks
<1>4. CASE Q!EngineEvent(i)
  BY <1>1, <1>3, <1>4 DEF Q!EngineEvent
<1>5. CASE Q!EngineEnd(i)
  <2>1. wf' \in [Q!Wfs -> Engines]
    <3>1. PICK st \in Q!Final : wf' = [wf EXCEPT ![i].status = st, ![i].ended = TRUE]
      BY <1>5 DEF Q!EngineEnd
    <3> QED
      BY <1>1, <3>1, EngineTyped, TypeFacts
  <2> QED
    BY <1>3, <1>5, <2>1 DEF Q!EngineEnd
<1>10. CASE Q!CallbackCall(i)
  <2>1. cb' \in [Q!Wfs -> Callbacks]
    BY <1>1, <1>2, <1>10, CallbackTyped DEF Q!CallbackCall
  <2> QED
    BY <1>10, <2>1 DEF Q!CallbackCall, Q!TypeOK, Engines, Callbacks
<1>6. CASE Q!CallbackBegin(i)
  <2>1. cb' \in [Q!Wfs -> Callbacks]
    BY <1>1, <1>2, <1>6, CallbackTyped DEF Q!CallbackBegin
  <2> QED
    BY <1>6, <2>1 DEF Q!CallbackBegin, Q!TypeOK, Engines, Callbacks
<1>7. ASSUME Q!Returns(i) PROVE wf' \in [Q!Wfs -> Engines] /\ cb' \in [Q!Wfs -> Callbacks]
  <2>1. (wf[i].status \in Q!Final) \in BOOLEAN
    OBVIOUS
  <2>2. wf' \in [Q!Wfs -> Engines]
    BY <1>1, <1>2, <1>7, <2>1, EngineTyped DEF Q!Returns
  <2> QED
    BY <1>1, <1>2, <1>7, <2>2, CallbackTyped DEF Q!Returns
<1>8. CASE Q!CallbackStore(i)
  <2>1. cb[i].status \in Q!Statuses
    BY <1>8, TypeFacts DEF Q!CallbackStore, Q!EnginesInv
  <2> QED
    BY <1>7, <1>8, <2>1 DEF Q!CallbackStore, Q!TypeOK, Engines, Callbacks
<1>9. CASE Q!CallbackErr(i)
  <2>1. wf' \in [Q!Wfs -> Engines] /\ cb' \in [Q!Wfs -> Callbacks]
    <3>1. CASE cb[i].tries < 3
      <4>1. cb[i].tries + 1 \in Nat
        BY <1>2
      <4>2. [cb EXCEPT ![i].at = "begin", ![i].tries = cb[i].tries + 1] \in [Q!Wfs -> Callbacks]
        BY <1>1, <1>2, <4>1, CallbackTyped
      <4>3. /\ cb' = [cb EXCEPT ![i].at = "begin", ![i].tries = cb[i].tries + 1]
            /\ wf' = wf
        BY <1>9, <3>1 DEF Q!CallbackErr
      <4> QED
        BY <1>1, <4>2, <4>3
    <3>2. CASE ~(cb[i].tries < 3)
      BY <1>7, <1>9, <3>2 DEF Q!CallbackErr
    <3> QED
      BY <3>1, <3>2
  <2> QED
    BY <1>9, <2>1 DEF Q!CallbackErr, Q!TypeOK, Engines, Callbacks
<1> QED
  BY <1>4, <1>5, <1>6, <1>8, <1>9, <1>10 DEF Q!Callback

-----------------------------------------------------------------------------
(* The steps of the request keep what it relies on *)

\* Nothing about a request leaves an engine: the image handler has nothing to do,
\* and only the request r1 is ever at work.
LEMMA OnlyRequest ==
  ASSUME NEW t \in Q!Threads, Q!SeriesInv, Q!Request(t) \/ Q!Proceed(t)
  PROVE  t \in One /\ ~Q!HandleImage(t) /\ ~Q!ImageFailed(t) /\ ~Q!ImageReady(t) /\ ~Q!ImageStart(t)
         /\ ~Q!WriteErr(t) /\ pc[t] # "imageStart"
<1>1. t \in One
  BY DEF Q!SeriesInv, Q!RequestInv, Q!Request, Q!Proceed, Q!CreateInsert, Q!StopRead, Q!RetryRead,
         Q!DeleteRead, Q!SourceErr, Q!HandleNoImage, Q!HandleErr, Q!HandleImage, Q!ImageFailed,
         Q!ImageReady, Q!ImageStart, Q!StartWf, Q!WritePending, Q!StopLookup, Q!StopStore, Q!StopWf,
         Q!StopCancel, Q!StopMark,
         Q!RetryReset, Q!RetryRefused, Q!DeleteRow, Q!WriteErr
<1>2. pc[t] \notin {"image", "imageStart"}
  BY <1>1 DEF Q!SeriesInv, Q!RequestInv
<1> QED
  BY <1>1, <1>2 DEF Q!HandleImage, Q!NeedHandleImage, Q!ImageFailed, Q!ImageReady, Q!ImageStart,
     Q!WriteErr

\* A step of a request that touches no engine and not wfMap.
LEMMA EnginesUntouched ==
  ASSUME Q!EnginesInv, UNCHANGED <<wfMap, nwf, wf, cb>>
  PROVE  Q!EnginesInv' /\ (Q!NoneAtWork' <=> Q!NoneAtWork) /\ (Q!NothingLeft' <=> Q!NothingLeft)
BY DEF Q!EnginesInv, Q!NoneAtWork, Q!NothingLeft, Q!Live

\* What RequestInv says of the single request.
RequestSound(t) ==
  /\ run \in Q!Final \cup {"absent"} /\ pc[t] \notin {"start", "pending"} => Q!NothingLeft
  /\ run = "absent" => pc[t] = "idle"
  /\ pc[t] \in {"handle", "reset", "delete"} => Q!NothingLeft
  /\ pc[t] = "reset" => read[t].status \in Q!Retryable
  /\ pc[t] = "start" =>
       Q!NoneAtWork /\ mine[t] = nwf /\ wfMap = nwf /\ nwf \in Q!Wfs /\ ~wf[nwf].ended
  /\ pc[t] \in {"stopStore", "stopWf", "stopCancel", "stopMark"} => mine[t] = nwf /\ nwf \in Q!Wfs
  /\ pc[t] \notin {"image", "imageStart"}

LEMMA RequestKept ==
  ASSUME NEW t \in One, Q!RequestInv, ~born' => run' = "absent",
         \A u \in Q!Threads \ {t} : pc'[u] = pc[u], RequestSound(t)'
  PROVE  Q!RequestInv'
<1>1. \A u \in Q!Threads : pc'[u] # "idle" => u \in One
  BY DEF Q!RequestInv
<1>2. \A u \in One : RequestSound(u)'
  OBVIOUS
<1> QED
  BY <1>1, <1>2 DEF Q!RequestInv, RequestSound

LEMMA RequestQuiet ==
  ASSUME NEW t \in Q!Threads, Q!SeriesInv, Q!Request(t) \/ Q!Proceed(t),
         ~Q!HandleNoImage(t) /\ ~Q!StartWf(t) /\ ~Q!StopCancel(t) /\ ~Q!StopMark(t)
  PROVE  Q!EnginesInv' /\ Q!RequestInv'
<1>1. t \in One
  BY OnlyRequest
<1>0. UNCHANGED <<wfMap, nwf, wf, cb>>
  BY OnlyRequest
  DEF Q!Request, Q!Proceed, Q!CreateInsert, Q!StopRead, Q!RetryRead, Q!DeleteRead, Q!SourceErr,
      Q!HandleErr, Q!WritePending, Q!StopLookup, Q!StopStore, Q!StopWf, Q!RetryReset,
      Q!RetryRefused, Q!DeleteRow
<1>2. /\ Q!EnginesInv'
      /\ (Q!NoneAtWork' <=> Q!NoneAtWork) /\ (Q!NothingLeft' <=> Q!NothingLeft)
  BY <1>0, EnginesUntouched DEF Q!SeriesInv
<1>3. /\ Q!RequestInv /\ RequestSound(t) /\ (~born => run = "absent")
      /\ Q!NothingLeft => Q!NoneAtWork /\ wfMap = 0
  BY <1>1 DEF Q!SeriesInv, Q!RequestInv, RequestSound, Q!NothingLeft
<1>4. /\ \A l : Q!At(t, l) => pc'[t] = l /\ \A u \in Q!Threads \ {t} : pc'[u] = pc[u]
      /\ \A l : Q!Goto(t, l) => Q!At(t, l) /\ UNCHANGED <<read, mine>>
      /\ Q!Return(t) => Q!At(t, "idle")
  BY DEF Q!SeriesInv, Q!TypeOK, Q!At, Q!Goto, Q!Return
<1>5. read \in [Q!Threads -> [status : Q!Statuses, url : BOOLEAN]] /\ wfMap \in {0, nwf}
      /\ nwf \in 0..MaxSeries /\ mine \in [Q!Threads -> 0..MaxSeries]
  BY DEF Q!SeriesInv, Q!TypeOK, Q!EnginesInv
<1>6. /\ ~born' => run' = "absent"
      /\ \A u \in Q!Threads \ {t} : pc'[u] = pc[u]
      /\ RequestSound(t)'
  <2> USE <1>2, <1>3, <1>4 DEF Q!Store, RequestSound, Q!Final
  <2>1. CASE Q!CreateInsert(t)
    BY <2>1 DEF Q!CreateInsert
  <2>2. CASE Q!StopRead(t)
    BY <2>2 DEF Q!StopRead
  <2>3. CASE Q!RetryRead(t)
    BY <2>3, <1>5 DEF Q!RetryRead, Q!Retryable
  <2>4. CASE Q!DeleteRead(t)
    BY <2>4 DEF Q!DeleteRead
  <2>5. CASE Q!SourceErr(t)
    BY <2>5 DEF Q!SourceErr
  <2>6. CASE Q!HandleErr(t)
    BY <2>6, OnlyRequest DEF Q!HandleErr, NotDbErr
  <2>7. CASE Q!WritePending(t)
    BY <2>7 DEF Q!WritePending
  <2>8. CASE Q!StopLookup(t)
    <3>1. /\ pc'[t] \in {"idle", "stopStore"} /\ (pc'[t] # "idle" => mine'[t] = wfMap)
          /\ nwf' = nwf /\ run' = run /\ born' = born
      BY <2>8, <1>5 DEF Q!StopLookup
    <3>2. wfMap # 0 => wfMap = nwf /\ nwf \in Q!Wfs
      BY <1>5 DEF Q!Wfs
    <3>3. pc'[t] # "idle" => wfMap # 0
      BY <2>8, <1>5 DEF Q!StopLookup
    <3>4. /\ \A u \in Q!Threads \ {t} : pc'[u] = pc[u]
          /\ run # "absent" /\ (run \in Q!Final => Q!NothingLeft)
      BY <2>8 DEF Q!StopLookup
    <3> QED
      BY <3>1, <3>2, <3>3, <3>4
  <2>9. CASE Q!StopStore(t)
    BY <2>9 DEF Q!StopStore
  <2>13. CASE Q!StopWf(t)
    BY <2>13 DEF Q!StopWf
  <2>10. CASE Q!RetryReset(t)
    BY <2>10 DEF Q!RetryReset, Q!Retryable
  <2>11. CASE Q!RetryRefused(t)
    BY <2>11 DEF Q!RetryRefused
  <2>12. CASE Q!DeleteRow(t)
    BY <2>12 DEF Q!DeleteRow
  <2> QED
    BY <2>1, <2>2, <2>3, <2>4, <2>5, <2>6, <2>7, <2>8, <2>9, <2>10, <2>11, <2>12, <2>13,
       OnlyRequest
    DEF Q!Request, Q!Proceed
<1> QED
  BY <1>1, <1>2, <1>3, <1>6, RequestKept

\* newWorkflowByRun() makes an engine when nothing is left of the one before.
LEMMA RequestMakes ==
  ASSUME NEW t \in One, t \in Q!Threads, Q!SeriesInv, Q!HandleNoImage(t)
  PROVE  Q!EnginesInv' /\ Q!RequestInv'
<1>1. /\ nwf' = nwf + 1 /\ wfMap' = nwf + 1 /\ nwf \in Nat /\ nwf + 1 \in Q!Wfs
      /\ run' = run /\ born' = born /\ wf' = wf /\ cb' = cb
  BY SeriesAssumption DEF Q!HandleNoImage, Q!NewWf, Q!SeriesInv, Q!TypeOK, Q!Wfs
<1>2. /\ pc'[t] = "start" /\ mine'[t] = nwf + 1 /\ \A u \in Q!Threads \ {t} : pc'[u] = pc[u]
  BY DEF Q!HandleNoImage, Q!NewWf, Q!SeriesInv, Q!TypeOK, Q!At, Q!Goto
<1>3. Q!NoneAtWork /\ run # "absent" /\ (~born => run = "absent")
  BY DEF Q!HandleNoImage, Q!SeriesInv, Q!RequestInv, Q!NothingLeft
<1>4. Q!NoneAtWork'
  BY <1>1, <1>3 DEF Q!NoneAtWork, Q!Live
<1>5. Q!EnginesInv'
  <2>1. \A i \in Q!Wfs : i > nwf + 1 => i > nwf
    BY <1>1 DEF Q!Wfs
  <2> QED
    BY <1>1, <1>4, <2>1 DEF Q!NoneAtWork, Q!Live, Q!EnginesInv, Q!SeriesInv
<1>6. ~wf[nwf + 1].ended
  BY <1>1, NewFacts DEF Q!SeriesInv, Q!EnginesInv
<1> QED
  BY <1>1, <1>2, <1>3, <1>4, <1>5, <1>6, RequestKept DEF RequestSound, Q!SeriesInv

\* Start() and Restart() run the engine that wfMap holds.
LEMMA RequestStarts ==
  ASSUME NEW t \in One, t \in Q!Threads, Q!SeriesInv, Q!StartWf(t)
  PROVE  Q!EnginesInv' /\ Q!RequestInv'
<1>1. /\ Q!NoneAtWork /\ mine[t] = nwf /\ wfMap = nwf /\ nwf \in Q!Wfs
      /\ run # "absent" /\ (~born => run = "absent") /\ ~wf[nwf].ended
  BY DEF Q!StartWf, Q!SeriesInv, Q!RequestInv
<1>2. /\ run' = run /\ born' = born /\ nwf' = nwf /\ wfMap' = wfMap /\ cb' = cb
      /\ pc'[t] = "pending" /\ \A u \in Q!Threads \ {t} : pc'[u] = pc[u]
  BY DEF Q!StartWf, Q!SeriesInv, Q!TypeOK, Q!At, Q!Goto
<1>3. /\ wf'[nwf].status = "Running" /\ wf'[nwf].ended = wf[nwf].ended
      /\ \A i \in Q!Wfs \ {nwf} : wf'[i] = wf[i]
  BY <1>1 DEF Q!StartWf, Q!SeriesInv, Q!TypeOK
<1>4. nwf \in Nat /\ \A i \in Q!Wfs : i > nwf => i # nwf
  BY <1>1 DEF Q!Wfs
<1>5. Q!EnginesInv'
  BY <1>1, <1>2, <1>3, <1>4
  DEF Q!NoneAtWork, Q!Live, Q!EnginesInv, Q!SeriesInv, Q!Active, Q!Final
<1> QED
  BY <1>1, <1>2, <1>5, RequestKept DEF RequestSound, Q!SeriesInv

\* Stop() reaches the newest engine: its cancellation leaves the rest as it is.
LEMMA RequestCancels ==
  ASSUME NEW t \in One, t \in Q!Threads, Q!SeriesInv, Q!StopCancel(t)
  PROVE  Q!EnginesInv' /\ Q!RequestInv'
<1>1. /\ mine[t] = nwf /\ nwf \in Q!Wfs
      /\ (run \in Q!Final \cup {"absent"} => Q!NothingLeft)
      /\ run # "absent" /\ (~born => run = "absent")
  BY DEF Q!StopCancel, Q!SeriesInv, Q!RequestInv
<1>2. /\ run' = run /\ born' = born /\ nwf' = nwf /\ wfMap' = wfMap /\ cb' = cb /\ mine' = mine
      /\ pc'[t] = "stopMark" /\ \A u \in Q!Threads \ {t} : pc'[u] = pc[u]
  BY DEF Q!StopCancel, Q!SeriesInv, Q!TypeOK, Q!At, Q!Goto
<1>3. /\ \A i \in Q!Wfs \ {nwf} : wf'[i] = wf[i]
      /\ \A i \in Q!Wfs : /\ wf'[i].status = wf[i].status /\ wf'[i].started = wf[i].started
                          /\ wf'[i].ended = wf[i].ended /\ wf'[i].over = wf[i].over
  BY <1>1 DEF Q!StopCancel, Q!SeriesInv, Q!TypeOK
<1>4. nwf \in Nat /\ \A i \in Q!Wfs : i > nwf => i # nwf
  BY <1>1 DEF Q!Wfs
<1>5. Q!EnginesInv'
  BY <1>2, <1>3, <1>4 DEF Q!EnginesInv, Q!SeriesInv, Q!Live
<1>6. Q!NothingLeft => Q!NothingLeft'
  BY <1>2, <1>3 DEF Q!NothingLeft, Q!NoneAtWork, Q!Live
<1> QED
  BY <1>1, <1>2, <1>5, <1>6, RequestKept DEF RequestSound, Q!SeriesInv

\* ... and so does the write of its status, unless the run has ended meanwhile.
LEMMA RequestMarks ==
  ASSUME NEW t \in One, t \in Q!Threads, Q!SeriesInv, Q!StopMark(t), ~revived'
  PROVE  Q!EnginesInv' /\ Q!RequestInv'
<1>1. /\ mine[t] = nwf /\ nwf \in Q!Wfs
      /\ (run \in Q!Final \cup {"absent"} => Q!NothingLeft)
      /\ run # "absent" /\ (~born => run = "absent")
      /\ wf[nwf].status \notin Q!Final
  BY DEF Q!StopMark, Q!SeriesInv, Q!RequestInv
<1>2. /\ run' = run /\ born' = born /\ nwf' = nwf /\ wfMap' = wfMap /\ cb' = cb
      /\ pc'[t] = "idle" /\ \A u \in Q!Threads \ {t} : pc'[u] = pc[u]
  BY DEF Q!StopMark, Q!SeriesInv, Q!TypeOK, Q!At, Q!Return
<1>3. /\ \A i \in Q!Wfs \ {nwf} : wf'[i] = wf[i]
      /\ wf'[nwf].status = "Terminating"
      /\ \A i \in Q!Wfs : /\ wf'[i].started = wf[i].started
                          /\ wf'[i].ended = wf[i].ended /\ wf'[i].over = wf[i].over
  BY <1>1 DEF Q!StopMark, Q!SeriesInv, Q!TypeOK
<1>4. nwf \in Nat /\ \A i \in Q!Wfs : i > nwf => i # nwf
  BY <1>1 DEF Q!Wfs
<1>5. Q!EnginesInv'
  <2>1. "Terminating" \notin Q!Final /\ "Terminating" \in Q!Active
    BY DEF Q!Final, Q!Active
  <2> QED
    BY <1>1, <1>2, <1>3, <1>4, <2>1 DEF Q!EnginesInv, Q!SeriesInv, Q!Live
<1>6. Q!NothingLeft => Q!NothingLeft'
  BY <1>2, <1>3 DEF Q!NothingLeft, Q!NoneAtWork, Q!Live
<1> QED
  BY <1>1, <1>2, <1>5, <1>6, RequestKept DEF RequestSound, Q!SeriesInv

-----------------------------------------------------------------------------
(* The steps of the engines *)

\* While an engine is at work or calls back, the request relies on nothing that
\* the engine could disturb.
LEMMA AtWork ==
  ASSUME Q!SeriesInv, ~Q!NoneAtWork
  PROVE  run \notin {"absent"} /\ \A t \in One :
           /\ pc[t] \notin {"handle", "reset", "delete", "start", "image", "imageStart"}
           /\ run \in Q!Final => pc[t] = "pending"
BY DEF Q!SeriesInv, Q!RequestInv, Q!NothingLeft

\* A step of an engine leaves the request where it is.
LEMMA EngineKept ==
  ASSUME Q!SeriesInv, ~Q!NoneAtWork, UNCHANGED <<born, nwf, pc, read, mine>>,
         run' # "absent",
         run' \in Q!Final => run' = run \/ Q!NothingLeft',
         ~born => run' = "absent"
  PROVE  Q!RequestInv'
BY AtWork DEF Q!SeriesInv, Q!RequestInv

\* Listen() of the newest engine takes an event, which may end the run.
LEMMA EngineProcesses ==
  ASSUME NEW i \in Q!Wfs, Q!SeriesInv, Q!EngineEvent(i) \/ Q!EngineEnd(i)
  PROVE  Q!EnginesInv' /\ Q!RequestInv'
<1>1. /\ wf[i].started /\ ~wf[i].ended /\ cb[i].at = "none"
      /\ UNCHANGED <<run, born, wfMap, nwf, pc, read, mine>>
      /\ cb'[i].at = "call" /\ \A j \in Q!Wfs \ {i} : cb'[j] = cb[j]
  BY DEF Q!EngineEvent, Q!EngineEnd, Q!Processes, Q!SeriesInv, Q!EnginesInv, Q!TypeOK
<1>2. Q!Live(i) /\ i = nwf /\ wfMap = nwf /\ ~Q!NoneAtWork
  BY <1>1 DEF Q!SeriesInv, Q!EnginesInv, Q!NoneAtWork, Q!Live
<1>3. /\ \A j \in Q!Wfs \ {i} : wf'[j] = wf[j]
      /\ wf'[i].started = wf[i].started
      /\ wf'[i].ended <=> wf'[i].status \in Q!Final
      /\ wf'[i].status \in Q!Active \cup Q!Final
  <2>1. CASE Q!EngineEvent(i)
    BY <1>1, <2>1 DEF Q!EngineEvent, Q!SeriesInv, Q!EnginesInv
  <2>2. CASE Q!EngineEnd(i)
    <3>1. PICK st \in Q!Final : wf' = [wf EXCEPT ![i].status = st, ![i].ended = TRUE]
      BY <2>2 DEF Q!EngineEnd
    <3> QED
      BY <3>1 DEF Q!SeriesInv, Q!TypeOK
  <2> QED
    BY <2>1, <2>2
<1>4. nwf \in Nat /\ \A j \in Q!Wfs : j > nwf => j # nwf
  BY <1>2 DEF Q!Wfs
<1>5. Q!EnginesInv'
  BY <1>1, <1>2, <1>3, <1>4 DEF Q!EnginesInv, Q!SeriesInv, Q!Live
<1>6. run # "absent" /\ (~born => run = "absent")
  BY <1>2, AtWork DEF Q!SeriesInv, Q!RequestInv
<1> QED
  BY <1>1, <1>2, <1>5, <1>6, EngineKept

\* callback() reads the status of the engine: final if the run has ended.
LEMMA CallbackCalls ==
  ASSUME NEW i \in Q!Wfs, Q!SeriesInv, Q!CallbackCall(i)
  PROVE  Q!EnginesInv' /\ Q!RequestInv'
<1>1. /\ i = nwf /\ wf[i].started /\ ~Q!NoneAtWork
      /\ UNCHANGED <<run, born, wfMap, nwf, wf, pc, read, mine>>
  BY DEF Q!CallbackCall, Q!SeriesInv, Q!EnginesInv, Q!NoneAtWork
<1>2. /\ cb'[i].at = "begin" /\ cb'[i].status = wf[i].status
      /\ \A j \in Q!Wfs \ {i} : cb'[j] = cb[j]
  BY DEF Q!CallbackCall, Q!SeriesInv, Q!TypeOK
<1>3. Q!EnginesInv'
  BY <1>1, <1>2 DEF Q!EnginesInv, Q!SeriesInv, Q!Live
<1>4. run # "absent" /\ (~born => run = "absent")
  BY <1>1, AtWork DEF Q!SeriesInv, Q!RequestInv
<1> QED
  BY <1>1, <1>3, <1>4, EngineKept

\* UpdateRunByWfEvent() takes a run that ended out of wfMap.
LEMMA CallbackBegins ==
  ASSUME NEW i \in Q!Wfs, Q!SeriesInv, Q!CallbackBegin(i)
  PROVE  Q!EnginesInv' /\ Q!RequestInv'
<1>1. /\ i = nwf /\ cb[i].status \in Q!Active \cup Q!Final /\ ~Q!NoneAtWork /\ wf[i].started
      /\ cb[i].status \in Q!Final => wf[i].ended
  BY DEF Q!CallbackBegin, Q!SeriesInv, Q!EnginesInv, Q!NoneAtWork
<1>2. /\ UNCHANGED <<run, born, nwf, wf, pc, read, mine>>
      /\ wfMap' = IF cb[i].status \in Q!Final THEN 0 ELSE wfMap
      /\ cb'[i].at = "store" /\ cb'[i].status = cb[i].status
      /\ \A j \in Q!Wfs \ {i} : cb'[j] = cb[j]
  BY DEF Q!CallbackBegin, Q!SeriesInv, Q!TypeOK
<1>3. cb[i].status \in Q!Final => \A j \in Q!Wfs : ~Q!Live(j)
  BY <1>1 DEF Q!SeriesInv, Q!EnginesInv, Q!Live
<1>4. Q!EnginesInv'
  BY <1>1, <1>2, <1>3 DEF Q!EnginesInv, Q!SeriesInv, Q!Live
<1>5. run # "absent" /\ (~born => run = "absent")
  BY <1>1, AtWork DEF Q!SeriesInv, Q!RequestInv
<1> QED
  BY <1>1, <1>2, <1>4, <1>5, EngineKept

\* ... and then writes the record: with a final status nothing is left.
LEMMA CallbackStores ==
  ASSUME NEW i \in Q!Wfs, Q!SeriesInv, Q!CallbackStore(i)
  PROVE  Q!EnginesInv' /\ Q!RequestInv'
<1>1. /\ i = nwf /\ cb[i].status \in Q!Active \cup Q!Final /\ ~Q!NoneAtWork
      /\ cb[i].status \in Q!Final => wf[i].ended /\ wfMap = 0
  BY DEF Q!CallbackStore, Q!SeriesInv, Q!EnginesInv, Q!NoneAtWork
<1>2. /\ UNCHANGED <<born, wfMap, nwf, pc, read, mine>> /\ run' = cb[i].status
      /\ cb'[i].at = "none" /\ \A j \in Q!Wfs \ {i} : wf'[j] = wf[j] /\ cb'[j] = cb[j]
  BY DEF Q!CallbackStore, Q!Returns, Q!NoCallback, Q!SeriesInv, Q!TypeOK
<1>3. /\ wf'[i].status = wf[i].status /\ wf'[i].started = wf[i].started
      /\ wf'[i].ended = wf[i].ended /\ wf'[i].over = (wf[i].status \in Q!Final)
  BY DEF Q!CallbackStore, Q!Returns, Q!SeriesInv, Q!TypeOK
<1>4. nwf \in Nat /\ \A j \in Q!Wfs : j > nwf => j # nwf
  BY <1>1 DEF Q!Wfs
<1>5. Q!EnginesInv'
  BY <1>1, <1>2, <1>3, <1>4 DEF Q!EnginesInv, Q!SeriesInv, Q!Live
<1>6. cb[i].status \in Q!Final => Q!NothingLeft'
  BY <1>1, <1>2, <1>3 DEF Q!NothingLeft, Q!NoneAtWork, Q!Live, Q!SeriesInv, Q!EnginesInv
<1>7. run' # "absent" /\ (~born => run = "absent") /\ run # "absent"
  BY <1>1, <1>2, AtWork DEF Q!SeriesInv, Q!RequestInv, Q!Active, Q!Final
<1> QED
  BY <1>1, <1>2, <1>5, <1>6, <1>7, EngineKept

-----------------------------------------------------------------------------
(* The theorem *)

\* Every step of the series, and every step that leaves its state alone, keeps
\* the invariant, unless a final status is lost.
LEMMA SeriesStep == Q!SeriesInv /\ [Q!Next]_vars /\ ~revived' => Q!SeriesInv'
<1> SUFFICES ASSUME Q!SeriesInv, [Q!Next]_vars, ~revived' PROVE Q!SeriesInv'
  OBVIOUS
<1>1. ASSUME NEW t \in Q!Threads, Q!Request(t) \/ Q!Proceed(t) PROVE Q!SeriesInv'
  <2>1. t \in One /\ Q!TypeOK'
    BY <1>1, OnlyRequest, ProceedTypes DEF Q!SeriesInv
  <2>2. Q!EnginesInv' /\ Q!RequestInv'
    BY <1>1, <2>1, RequestQuiet, RequestMakes, RequestStarts, RequestCancels, RequestMarks
  <2> QED
    BY <2>1, <2>2 DEF Q!SeriesInv
<1>2. ASSUME NEW i \in Q!Wfs, Q!EngineEvent(i) \/ Q!EngineEnd(i) \/ Q!Callback(i)
      PROVE  Q!SeriesInv'
  <2>1. Q!TypeOK'
    BY <1>2, EngineTypes DEF Q!SeriesInv
  <2>2. ~Q!CallbackErr(i)
    BY AtWork DEF Q!CallbackErr, Q!NoneAtWork
  <2>3. Q!EnginesInv' /\ Q!RequestInv'
    BY <1>2, <2>2, EngineProcesses, CallbackCalls, CallbackBegins, CallbackStores DEF Q!Callback
  <2> QED
    BY <2>1, <2>3 DEF Q!SeriesInv
<1>3. CASE UNCHANGED vars
  BY <1>3 DEF vars, Q!SeriesInv, Q!TypeOK, Q!EnginesInv, Q!RequestInv, Q!NothingLeft,
              Q!NoneAtWork, Q!Live
<1> QED
  BY <1>1, <1>2, <1>3 DEF Q!Next

\* One request at a time: the engine at work is the one wfMap holds, so StopRun()
\* reaches it, and nothing is at work for a run DeleteRun() removed; until a Stop()
\* writes over a final status.
THEOREM EnginesStayReachable == MCSpec => []EnginesAreReachable
<1> DEFINE Kept == single /\ ~revived => Q!SeriesInv
<1>1. MCInit => Kept
  BY SeriesInit DEF MCInit
<1>2. Kept /\ [MCNext]_<<vars, single>> => Kept'
  <2> SUFFICES ASSUME Kept, [MCNext]_<<vars, single>> PROVE Kept'
    OBVIOUS
  <2>1. CASE MCNext
    BY <2>1, SeriesStep DEF MCNext
  <2>2. CASE UNCHANGED <<vars, single>>
    BY <2>2, SeriesStep DEF vars
  <2> QED
    BY <2>1, <2>2
<1>3. Kept => EnginesAreReachable
  BY DEF EnginesAreReachable, Q!SeriesInv, Q!EnginesInv, Q!RequestInv, Q!LiveIsStoppable,
         Q!DeletedRunIsOver, Q!NothingLeft, Q!NoneAtWork
<1>4. MCSpec => MCInit /\ [][MCNext]_<<vars, single>>
  BY PTL DEF MCSpec
<1> HIDE DEF Kept
<1> QED
  BY <1>1, <1>2, <1>3, <1>4, PTL
=============================================================================
