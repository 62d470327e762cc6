------------------------------ MODULE JobProofs ------------------------------
(***************************************************************************)
(* Proofs of the safety properties of JobProperties, for every set of jobs,*)
(* every bound on the losses and every choice of faults.                   *)
(***************************************************************************)
EXTENDS JobProperties, TLAPS

USE DEF WebPC, InFlight, Answered, MsgState, RunPC, Status, ErrorText,
        SyncAnswer, OnFailureLooks, RedisFaults, HashLoss, WebCrashes

\* What the web thread writes, and what on_failure writes when the key is gone.
LEMMA WrittenHashes ==
  /\ Pending(FALSE) \in Hash /\ Pending(TRUE) \in Hash
  /\ PartialHash \in Hash
  BY DEF Pending, PartialHash, Hash

\* What mark_processing, mark_completed and mark_failed make of a context.
LEMMA MarkedContexts ==
  ASSUME NEW c \in Hash, NEW e \in ErrorText
  PROVE  /\ MarkProcessing(c) \in Hash
         /\ MarkCompleted(c) \in Hash
         /\ MarkFailedWith(c, e) \in Hash
  BY DEF MarkProcessing, MarkCompleted, MarkFailedWith, Hash

\* The initial state has the types of TypeOK.
LEMMA TypeInit == Init => TypeOK
<1> SUFFICES ASSUME Init PROVE TypeOK
  OBVIOUS
<1>1. ctx \in [Jobs -> Hash]
  BY WrittenHashes DEF Init
<1>2. losses \in [Jobs -> 0 .. MaxLoss]
  BY LossAssumption DEF Init
<1> QED
  BY <1>1, <1>2 DEF Init, TypeOK

\* How a delivery ends, in the three steps that end one: the broker learns of it, or
\* the message comes back.
Settles(j) ==
    /\ DeliveryEnds(j, "acked")
    /\ run[j] = "ack" \/ (OnWorker(j) /\ run[j] = "engine")
    /\ Interrupted(j)
    /\ UNCHANGED <<web, ctx, hash, upload, runs, losses, twice>>

ComesBack(j) ==
    /\ DeliveredAgain(j)
    /\ run[j] = "ack" \/ OnWorker(j)
    /\ Interrupted(j)
    /\ UNCHANGED <<web, hash, upload, runs, twice>>

LEMMA DeliveryCases ==
  ASSUME NEW j \in Jobs, Ack(j) \/ HardLimit(j) \/ WorkerLost(j)
  PROVE  Settles(j) \/ ComesBack(j)
  BY DEF Ack, HardLimit, WorkerLost, Acknowledge, Settles, ComesBack, Interrupted

\* A delivery that the broker did not learn the end of leaves the types.
LEMMA DeliveryTypes ==
  ASSUME TypeOK, NEW j \in Jobs, DeliveredAgain(j)
  PROVE  /\ msg' \in [Jobs -> MsgState] /\ run' \in [Jobs -> RunPC]
         /\ ctx' \in [Jobs -> Hash] /\ exc' \in [Jobs -> ErrorText]
         /\ soft' \in [Jobs -> BOOLEAN] /\ losses' \in [Jobs -> 0 .. MaxLoss]
<1>1. ctx' \in [Jobs -> Hash]
  BY WrittenHashes DEF DeliveredAgain, TypeOK
<1>2. losses' \in [Jobs -> 0 .. MaxLoss]
  BY LossAssumption DEF DeliveredAgain, TypeOK
<1> QED
  BY <1>1, <1>2 DEF DeliveredAgain, DeliveryEnds, TypeOK

\* The web thread writes whole, pending hashes and moves between its own places.
LEMMA WebWrites ==
  ASSUME TypeOK, NEW j \in Jobs, RunOrEnqueue(j) \/ EnqueuePersist(j) \/ Confirm(j)
  PROVE  /\ hash' \in [Jobs -> Hash \cup {NoHash}]
         /\ web' \in [Jobs -> WebPC]
         /\ run' \in [Jobs -> RunPC] /\ ctx' \in [Jobs -> Hash]
         /\ UNCHANGED <<msg, exc, soft, upload, output, runs, losses, twice>>
<1>1. /\ \/ hash' = hash
         \/ \E h \in {Pending(FALSE), Pending(TRUE)} : hash' = [hash EXCEPT ![j] = h]
      /\ \E to \in WebPC : web' = [web EXCEPT ![j] = to]
      /\ run' = run \/ run' = [run EXCEPT ![j] = "begin"]
      /\ ctx' = ctx \/ ctx' = [ctx EXCEPT ![j] = Pending(FALSE)]
      /\ UNCHANGED <<msg, exc, soft, upload, output, runs, losses, twice>>
  <2>1. CASE RunOrEnqueue(j)
    BY <2>1 DEF RunOrEnqueue, WebTo, JobSet, Raises
  <2>2. CASE EnqueuePersist(j)
    BY <2>2 DEF EnqueuePersist, WebTo, JobSet, Raises
  <2>3. CASE Confirm(j)
    BY <2>3 DEF Confirm, WebTo, JobSet, Raises
  <2> QED
    BY <2>1, <2>2, <2>3
<1>2. hash \in [Jobs -> Hash \cup {NoHash}] /\ ctx \in [Jobs -> Hash]
  BY DEF TypeOK
<1>3. hash' \in [Jobs -> Hash \cup {NoHash}]
  BY <1>1, <1>2, WrittenHashes
<1>4. ctx' \in [Jobs -> Hash]
  BY <1>1, <1>2, WrittenHashes
<1>5. web' \in [Jobs -> WebPC] /\ run' \in [Jobs -> RunPC]
  BY <1>1 DEF TypeOK
<1> QED
  BY <1>1, <1>3, <1>4, <1>5

\* What may go wrong in a behaviour never changes.
LEMMA FaultsStay ==
  ASSUME NEW j \in Jobs, JobStep(j)
  PROVE  UNCHANGED faults
<1>1. CASE Accept(j) \/ Refuse(j) \/ NoAsyncTask(j) \/ WebStep(j) \/ WebCrash(j)
  BY <1>1 DEF Accept, Refuse, NoAsyncTask, WebStep, RunOrEnqueue, EnqueuePersist, Dispatch,
              Confirm, WebCrash
<1>2. CASE RunStep(j)
  BY <1>2 DEF RunStep, Load, Begin, EngineReturns, EngineRaises, Complete, Cleanup,
              MarkFailed, OnFailureRead, OnFailureWrite, Ack
<1>3. CASE Fetch(j) \/ SoftLimit(j) \/ HardLimit(j) \/ WorkerLost(j) \/ TwinStep(j)
  BY <1>3 DEF Fetch, SoftLimit, HardLimit, WorkerLost, TwinStep
<1>4. CASE HashExpires(j) \/ SweepUpload(j) \/ SweepOutput(j)
  BY <1>4 DEF HashExpires, SweepUpload, SweepOutput
<1> QED
  BY <1>1, <1>2, <1>3, <1>4 DEF JobStep

LEMMA TypeStep == TypeOK /\ [Next]_vars => TypeOK'
<1> SUFFICES ASSUME TypeOK, [Next]_vars PROVE TypeOK'
  OBVIOUS
<1> USE DEF TypeOK
<1>1. CASE UNCHANGED vars
  BY <1>1 DEF vars
<1>2. CASE RedisRestart
  BY <1>2 DEF RedisRestart
<1>3. ASSUME NEW j \in Jobs, JobStep(j) PROVE TypeOK'
  <2>0. faults' \in Environments
    BY <1>3, FaultsStay
  <2> USE <2>0
  <2>1. CASE Accept(j)
    BY <2>1 DEF Accept, WebTo
  <2>2. CASE Refuse(j)
    BY <2>2 DEF Refuse, WebTo
  <2>3. CASE NoAsyncTask(j)
    BY <2>3 DEF NoAsyncTask, WebTo
  <2>4. CASE RunOrEnqueue(j) \/ EnqueuePersist(j) \/ Confirm(j)
    BY <2>4, WebWrites
  <2>6. CASE Dispatch(j)
    <3>1. web' \in [Jobs -> WebPC]
      BY <2>6 DEF Dispatch, WebTo
    <3>2. msg' \in [Jobs -> MsgState] /\ twice' \in [Jobs -> BOOLEAN]
      <4>1. PICK copies \in {0, 1, 2} : Published(j, copies)
        BY <2>6 DEF Dispatch
      <4>2. msg' \in {[msg EXCEPT ![j] = "none"], [msg EXCEPT ![j] = "queued"]}
        BY <4>1 DEF Published
      <4>3. twice' = [twice EXCEPT ![j] = copies = 2]
        BY <4>1 DEF Published
      <4> HIDE <2>6
      <4> QED
        BY <4>2, <4>3
    <3>3. UNCHANGED <<run, ctx, exc, soft, hash, upload, output, runs, losses>>
      BY <2>6 DEF Dispatch
    <3> HIDE <2>6
    <3> QED
      BY <3>1, <3>2, <3>3
  <2>8. CASE WebCrash(j)
    BY <2>8 DEF WebCrash, Interrupted
  <2>9. CASE Fetch(j)
    BY <2>9 DEF Fetch, RunTo
  <2>10. CASE Load(j)
    BY <2>10 DEF Load, RunTo
  <2>11. CASE Begin(j)
    BY <2>11, MarkedContexts DEF Begin, RunTo, Persist, JobSet, Raises
  <2>12. CASE EngineReturns(j)
    BY <2>12 DEF EngineReturns, RunTo
  <2>13. CASE EngineRaises(j)
    BY <2>13 DEF EngineRaises, RunTo, Interrupted
  <2>14. CASE Complete(j)
    BY <2>14, MarkedContexts DEF Complete, RunTo, Persist, JobSet, Raises
  <2>15. CASE Cleanup(j)
    BY <2>15 DEF Cleanup
  <2>16. CASE MarkFailed(j)
    BY <2>16, MarkedContexts DEF MarkFailed, RunTo, Persist, JobSet, Raises
  <2>17. CASE OnFailureRead(j)
    BY <2>17 DEF OnFailureRead, RunTo
  <2>18. CASE OnFailureWrite(j)
    BY <2>18, WrittenHashes, MarkedContexts DEF OnFailureWrite, RunTo, Persist, JobSet, Raises
  <2>19. CASE Settles(j)
    BY <2>19 DEF Settles, DeliveryEnds, Interrupted
  <2>20. CASE SoftLimit(j)
    BY <2>20 DEF SoftLimit, RunTo, Interrupted
  <2>21. CASE ComesBack(j)
    BY <2>21, DeliveryTypes DEF ComesBack, Interrupted
  <2>23. CASE HashExpires(j)
    BY <2>23 DEF HashExpires, JobSet
  <2>24. CASE SweepUpload(j)
    BY <2>24 DEF SweepUpload
  <2>25. CASE SweepOutput(j)
    BY <2>25 DEF SweepOutput
  <2>26. CASE TwinStep(j)
    BY <2>26, WrittenHashes DEF TwinStep, WrittenByTwin, JobSet
  <2> QED
    BY <1>3, <2>1, <2>2, <2>3, <2>4, <2>6, <2>8, <2>9, <2>10, <2>11,
       <2>12, <2>13, <2>14, <2>15, <2>16, <2>17, <2>18, <2>19, <2>20, <2>21,
       <2>23, <2>24, <2>25, <2>26, DeliveryCases DEF JobStep, WebStep, RunStep
<1> QED
  BY <1>1, <1>2, <1>3 DEF Next

\* Type correctness: every variable stays within the values the code gives it.
THEOREM TypeCorrect == Spec => []TypeOK
<1>1. Init => TypeOK
  BY TypeInit
<1>2. TypeOK /\ [Next]_vars => TypeOK'
  BY TypeStep
<1> QED
  BY <1>1, <1>2, PTL DEF Spec

-----------------------------------------------------------------------------
(* The inductive invariant. *)

USE DEF BeforeDispatch

\* Marking a context leaves the fields it does not name.
LEMMA MarkedFields ==
  ASSUME NEW c \in Hash, NEW e \in ErrorText
  PROVE  /\ MarkProcessing(c).full = c.full
         /\ MarkCompleted(c).full = c.full
         /\ MarkFailedWith(c, e).full = c.full
         /\ MarkProcessing(c).is_async = c.is_async
         /\ MarkCompleted(c).is_async = c.is_async
         /\ MarkFailedWith(c, e).is_async = c.is_async
         /\ MarkProcessing(c).status = "processing"
         /\ MarkCompleted(c).status = "completed"
         /\ MarkFailedWith(c, e).status = "failed"
         /\ MarkFailedWith(c, e).error = e
  BY DEF MarkProcessing, MarkCompleted, MarkFailedWith, Hash

\* What is marked stays whole.
LEMMA MarkedStayFull ==
  ASSUME NEW c \in Hash, c.full
  PROVE  /\ MarkProcessing(c) # NoHash /\ MarkProcessing(c).full
         /\ MarkCompleted(c) # NoHash /\ MarkCompleted(c).full
<1>1. PICK e : e \in ErrorText
  BY DEF ErrorText
<1>2. MarkProcessing(c).full /\ MarkCompleted(c).full
  BY <1>1, MarkedFields
<1>3. MarkProcessing(c) \in Hash /\ MarkCompleted(c) \in Hash
  BY <1>1, MarkedContexts
<1> QED
  BY <1>2, <1>3, NoHashAssumption

LEMMA IInvInit == Init => IInv
<1> SUFFICES ASSUME Init PROVE IInv
  OBVIOUS
<1>1. TypeOK
  BY TypeInit
<1>2. ASSUME NEW j \in Jobs
      PROVE  MessageInv(j) /\ StartInv(j) /\ InputInv(j) /\ HashInv(j) /\ VerdictInv(j)
  BY DEF Init, MessageInv, StartInv, InputInv, HashInv, VerdictInv, HashCompleted, Pending
<1> QED
  BY <1>1, <1>2 DEF IInv

\* A step of job j keeps MessageInv of every job.
LEMMA MessageStep ==
  ASSUME IInv, NEW j \in Jobs, JobStep(j), UNCHANGED faults, NEW k \in Jobs
  PROVE  MessageInv(k)'
<1> USE DEF TypeOK, IInv, MessageInv
<1>1. CASE HashExpires(j) \/ SweepUpload(j) \/ SweepOutput(j)
  BY <1>1 DEF HashExpires, SweepUpload, SweepOutput
<1>2. CASE Accept(j)
  BY <1>2 DEF Accept, WebTo
<1>3. CASE Refuse(j)
  BY <1>3 DEF Refuse, WebTo
<1>4. CASE NoAsyncTask(j)
  BY <1>4 DEF NoAsyncTask, WebTo
<1>5. CASE RunOrEnqueue(j)
  <2>1. /\ web[j] = "route" /\ msg' = msg /\ twice' = twice
        /\ \A i \in Jobs \ {j} : web'[i] = web[i] /\ run'[i] = run[i]
    BY <1>5 DEF RunOrEnqueue, WebTo
  <2>2. ~twice[j] /\ msg[j] = "none" /\ run[j] = "off"
    BY <2>1
  <2>3. web'[j] \in BeforeDispatch => run'[j] = "off"
    BY <1>5, <2>2 DEF RunOrEnqueue, WebTo
  <2> QED
    BY <2>1, <2>2, <2>3
<1>6. CASE EnqueuePersist(j)
  BY <1>6 DEF EnqueuePersist, WebTo, JobSet, Raises
<1>7. CASE Dispatch(j)
  BY <1>7 DEF Dispatch, Published, WebTo
<1>8. CASE Confirm(j)
  <2>1. /\ web[j] = "confirm" /\ web' \in {[web EXCEPT ![j] = to] : to \in {"accepted", "failed"}}
        /\ UNCHANGED <<msg, run, ctx, exc, soft, upload, output, runs, losses, twice>>
    BY <1>8 DEF Confirm, WebTo
  <2> QED
    BY <2>1
<1>9. CASE WebCrash(j)
  BY <1>9 DEF WebCrash, Interrupted
<1>10. CASE Fetch(j)
  BY <1>10 DEF Fetch, RunTo
<1>11. CASE Load(j)
  BY <1>11 DEF Load, RunTo
<1>12. CASE Begin(j)
  BY <1>12 DEF Begin, RunTo, Persist, JobSet, Raises
<1>13. CASE EngineReturns(j)
  BY <1>13 DEF EngineReturns, RunTo
<1>14. CASE EngineRaises(j)
  BY <1>14 DEF EngineRaises, RunTo, Interrupted
<1>15. CASE Complete(j)
  BY <1>15 DEF Complete, RunTo, Persist, JobSet, Raises
<1>16. CASE Cleanup(j)
  BY <1>16 DEF Cleanup
<1>17. CASE MarkFailed(j)
  BY <1>17 DEF MarkFailed, RunTo, Persist, JobSet, Raises
<1>18. CASE OnFailureRead(j)
  BY <1>18 DEF OnFailureRead, RunTo
<1>19. CASE OnFailureWrite(j)
  BY <1>19 DEF OnFailureWrite, RunTo, Persist, JobSet, Raises
<1>20. CASE Settles(j)
  BY <1>20 DEF Settles, DeliveryEnds, Interrupted, OnWorker
<1>21. CASE SoftLimit(j)
  BY <1>21 DEF SoftLimit, RunTo, Interrupted, OnWorker
<1>23. CASE ComesBack(j)
  BY <1>23 DEF ComesBack, DeliveredAgain, DeliveryEnds, Interrupted, OnWorker, Pending
<1>24. CASE TwinStep(j)
  BY <1>24 DEF TwinStep, WrittenByTwin, JobSet
<1> QED
  BY <1>1, <1>2, <1>3, <1>4, <1>5, <1>6, <1>7, <1>8, <1>9, <1>10, <1>11, <1>12,
     <1>13, <1>14, <1>15, <1>16, <1>17, <1>18, <1>19, <1>20, <1>21,
     <1>23, <1>24, DeliveryCases DEF JobStep, WebStep, RunStep

\* A step of job j keeps StartInv of every job: only a loss pays for a new start.
LEMMA StartStep ==
  ASSUME IInv, NEW j \in Jobs, JobStep(j), UNCHANGED faults, NEW k \in Jobs
  PROVE  StartInv(k)'
<1> USE DEF TypeOK, IInv, MessageInv, StartInv
<1>1. CASE HashExpires(j) \/ SweepUpload(j) \/ SweepOutput(j)
  BY <1>1 DEF HashExpires, SweepUpload, SweepOutput
<1>2. CASE Accept(j)
  BY <1>2 DEF Accept, WebTo
<1>3. CASE Refuse(j)
  BY <1>3 DEF Refuse, WebTo
<1>4. CASE NoAsyncTask(j)
  BY <1>4 DEF NoAsyncTask, WebTo
<1>5. CASE RunOrEnqueue(j)
  <2>1. /\ web[j] = "route" /\ runs' = runs /\ losses' = losses /\ msg' = msg
        /\ run' = run \/ run' = [run EXCEPT ![j] = "begin"]
    BY <1>5 DEF RunOrEnqueue, WebTo
  <2>2. \A i \in Jobs : web'[i] = web[i] \/ i = j
    BY <1>5 DEF RunOrEnqueue, WebTo
  <2> QED
    BY <2>1, <2>2
<1>6. CASE EnqueuePersist(j)
  BY <1>6 DEF EnqueuePersist, WebTo, JobSet, Raises
<1>7. CASE Dispatch(j)
  BY <1>7 DEF Dispatch, Published, WebTo
<1>8. CASE Confirm(j)
  <2>1. /\ web[j] = "confirm" /\ web' \in {[web EXCEPT ![j] = to] : to \in {"accepted", "failed"}}
        /\ UNCHANGED <<msg, run, ctx, exc, soft, upload, output, runs, losses, twice>>
    BY <1>8 DEF Confirm, WebTo
  <2> QED
    BY <2>1
<1>9. CASE WebCrash(j)
  BY <1>9 DEF WebCrash, Interrupted
<1>10. CASE Fetch(j)
  BY <1>10 DEF Fetch, RunTo
<1>11. CASE Load(j)
  BY <1>11 DEF Load, RunTo
<1>12. CASE Begin(j)
  BY <1>12 DEF Begin, RunTo, Persist, JobSet, Raises
<1>13. CASE EngineReturns(j)
  BY <1>13 DEF EngineReturns, RunTo
<1>14. CASE EngineRaises(j)
  BY <1>14 DEF EngineRaises, RunTo, Interrupted
<1>15. CASE Complete(j)
  BY <1>15 DEF Complete, RunTo, Persist, JobSet, Raises
<1>16. CASE Cleanup(j)
  BY <1>16 DEF Cleanup
<1>17. CASE MarkFailed(j)
  BY <1>17 DEF MarkFailed, RunTo, Persist, JobSet, Raises
<1>18. CASE OnFailureRead(j)
  BY <1>18 DEF OnFailureRead, RunTo
<1>19. CASE OnFailureWrite(j)
  BY <1>19 DEF OnFailureWrite, RunTo, Persist, JobSet, Raises
<1>20. CASE Settles(j)
  BY <1>20 DEF Settles, DeliveryEnds, Interrupted, OnWorker
<1>21. CASE SoftLimit(j)
  BY <1>21 DEF SoftLimit, RunTo, Interrupted, OnWorker
<1>23. CASE ComesBack(j)
  BY <1>23 DEF ComesBack, DeliveredAgain, DeliveryEnds, Interrupted, OnWorker, Pending
<1>24. CASE TwinStep(j)
  BY <1>24 DEF TwinStep, WrittenByTwin, JobSet
<1> QED
  BY <1>1, <1>2, <1>3, <1>4, <1>5, <1>6, <1>7, <1>8, <1>9, <1>10, <1>11, <1>12,
     <1>13, <1>14, <1>15, <1>16, <1>17, <1>18, <1>19, <1>20, <1>21,
     <1>23, <1>24, DeliveryCases DEF JobStep, WebStep, RunStep

\* A step of job j keeps InputInv of every job: the steps that remove an upload belong
\* to a run, whose message is not waiting.
LEMMA InputStep ==
  ASSUME IInv, NEW j \in Jobs, JobStep(j), UNCHANGED faults, NEW k \in Jobs
  PROVE  InputInv(k)'
<1> USE DEF TypeOK, IInv, MessageInv, InputInv
<1>1. CASE Load(j) \/ Begin(j) \/ EngineReturns(j) \/ EngineRaises(j) \/ Complete(j) \/ MarkFailed(j) \/ OnFailureRead(j) \/ OnFailureWrite(j) \/ SoftLimit(j) \/ HashExpires(j) \/ SweepOutput(j)
  BY <1>1 DEF Load, Begin, EngineReturns, EngineRaises, Complete, MarkFailed, OnFailureRead, OnFailureWrite, SoftLimit, HashExpires, SweepOutput
<1>2. CASE Accept(j)
  BY <1>2 DEF Accept, WebTo
<1>3. CASE Refuse(j)
  BY <1>3 DEF Refuse, WebTo
<1>4. CASE NoAsyncTask(j)
  BY <1>4 DEF NoAsyncTask, WebTo
<1>5. CASE RunOrEnqueue(j)
  <2>1. /\ web[j] = "route" /\ \E to \in {"failed", "enqueue", "sync"} : web' = [web EXCEPT ![j] = to]
        /\ UNCHANGED <<msg, upload, losses, twice>>
    BY <1>5 DEF RunOrEnqueue, WebTo
  <2> QED
    BY <2>1
<1>6. CASE EnqueuePersist(j)
  BY <1>6 DEF EnqueuePersist, WebTo, JobSet, Raises
<1>7. CASE Dispatch(j)
  BY <1>7 DEF Dispatch, Published, WebTo
<1>8. CASE Confirm(j)
  BY <1>8 DEF Confirm, WebTo, JobSet, Raises
<1>9. CASE WebCrash(j)
  BY <1>9 DEF WebCrash, Interrupted
<1>10. CASE Fetch(j)
  BY <1>10 DEF Fetch, RunTo
<1>11. CASE Cleanup(j)
  BY <1>11 DEF Cleanup
<1>12. CASE Settles(j)
  BY <1>12 DEF Settles, DeliveryEnds, Interrupted, OnWorker
<1>14. CASE ComesBack(j)
  BY <1>14 DEF ComesBack, DeliveredAgain, DeliveryEnds, Interrupted, OnWorker, Pending
<1>15. CASE SweepUpload(j)
  BY <1>15 DEF SweepUpload
<1>16. CASE TwinStep(j)
  BY <1>16 DEF TwinStep, WrittenByTwin, JobSet
<1> QED
  BY <1>1, <1>2, <1>3, <1>4, <1>5, <1>6, <1>7, <1>8, <1>9, <1>10, <1>11, <1>12,
     <1>14, <1>15, <1>16, DeliveryCases DEF JobStep, WebStep, RunStep

\* A step of job j keeps HashInv of every job: every writer but on_failure writes a
\* whole context, and on_failure only updates a hash that is there.
LEMMA HashStep ==
  ASSUME IInv, NEW j \in Jobs, JobStep(j), UNCHANGED faults, NEW k \in Jobs
  PROVE  HashInv(k)'
<1> SUFFICES ASSUME ~HashLoss PROVE HashInv(k)'
  BY DEF HashInv
<1>1. CASE SweepUpload(j) \/ SweepOutput(j)
  BY <1>1 DEF SweepUpload, SweepOutput, TypeOK, IInv, MessageInv, HashInv
<1>2. CASE Accept(j)
  BY <1>2 DEF Accept, WebTo, Pending, TypeOK, IInv, MessageInv, HashInv
<1>3. CASE Refuse(j)
  BY <1>3 DEF Refuse, WebTo, Pending, TypeOK, IInv, MessageInv, HashInv
<1>4. CASE NoAsyncTask(j)
  BY <1>4 DEF NoAsyncTask, WebTo, Pending, TypeOK, IInv, MessageInv, HashInv
<1>5. CASE RunOrEnqueue(j)
  <2>1. Pending(FALSE).full /\ Pending(FALSE) # NoHash
    BY WrittenHashes, NoHashAssumption DEF Pending
  <2>2. /\ \A i \in Jobs : hash'[i] = hash[i] \/ (i = j /\ hash'[i] = Pending(FALSE))
        /\ \A i \in Jobs : ctx'[i] = ctx[i] \/ (i = j /\ ctx'[i] = Pending(FALSE))
    BY <1>5 DEF RunOrEnqueue, JobSet, Raises, TypeOK, IInv
  <2>3. /\ hash'[j] = Pending(FALSE) \/ web'[j] = "failed"
        /\ web[j] = "route" /\ msg' = msg /\ twice' = twice
        /\ \A i \in Jobs \ {j} : web'[i] = web[i] /\ run'[i] = run[i]
        /\ web'[j] = "failed" => run' = run
    BY <1>5 DEF RunOrEnqueue, WebTo, JobSet, TypeOK, IInv
  <2>4. ~twice[j] /\ msg[j] = "none" /\ run[j] = "off"
    BY <2>3 DEF IInv, MessageInv
  <2> QED
    BY <2>1, <2>2, <2>3, <2>4 DEF TypeOK, IInv, HashInv
<1>6. CASE EnqueuePersist(j)
  <2>1. Pending(FALSE).full /\ Pending(FALSE) # NoHash
    BY WrittenHashes, NoHashAssumption DEF Pending
  <2> QED
    BY ZenonT(60), <1>6, <2>1 DEF EnqueuePersist, WebTo, JobSet, Raises, TypeOK, IInv,
                MessageInv, HashInv
<1>7. CASE Dispatch(j)
  BY <1>7 DEF Dispatch, Published, WebTo, Pending, TypeOK, IInv, MessageInv, HashInv
<1>8. CASE Confirm(j)
  <2>1. Pending(TRUE).full /\ Pending(TRUE) # NoHash
    BY WrittenHashes, NoHashAssumption DEF Pending
  <2> QED
    BY ZenonT(60), <1>8, <2>1 DEF Confirm, WebTo, JobSet, Raises, TypeOK, IInv, MessageInv,
                HashInv
<1>9. CASE WebCrash(j)
  BY <1>9 DEF WebCrash, Interrupted, Pending, TypeOK, IInv, MessageInv, HashInv
<1>10. CASE Fetch(j)
  BY <1>10 DEF Fetch, RunTo, Pending, TypeOK, IInv, MessageInv, HashInv
<1>11. CASE Load(j)
  BY <1>11 DEF Load, RunTo, Pending, TypeOK, IInv, MessageInv, HashInv
<1>12. CASE Begin(j)
  <2>1. ctx[j] \in Hash /\ ctx[j].full /\ run[j] = "begin"
    BY <1>12 DEF Begin, RunTo, TypeOK, IInv, MessageInv, HashInv
  <2>2. MarkProcessing(ctx[j]) # NoHash /\ MarkProcessing(ctx[j]).full
    BY <2>1, MarkedStayFull
  <2> QED
    BY <1>12, <2>1, <2>2 DEF Begin, RunTo, Persist, JobSet, Raises, TypeOK, IInv,
                MessageInv, HashInv
<1>13. CASE EngineReturns(j)
  BY <1>13 DEF EngineReturns, RunTo, Pending, TypeOK, IInv, MessageInv, HashInv
<1>14. CASE EngineRaises(j)
  BY <1>14 DEF EngineRaises, RunTo, Interrupted, Pending, TypeOK, IInv,
               MessageInv, HashInv
<1>15. CASE Complete(j)
  <2>1. ctx[j] \in Hash /\ ctx[j].full /\ run[j] = "complete"
    BY <1>15 DEF Complete, RunTo, TypeOK, IInv, MessageInv, HashInv
  <2>2. MarkCompleted(ctx[j]) # NoHash /\ MarkCompleted(ctx[j]).full
    BY <2>1, MarkedStayFull
  <2> QED
    BY <1>15, <2>1, <2>2 DEF Complete, RunTo, Persist, JobSet, Raises, TypeOK,
                IInv, MessageInv, HashInv
<1>16. CASE Cleanup(j)
  BY <1>16 DEF Cleanup, Pending, TypeOK, IInv, MessageInv, HashInv
<1>17. CASE MarkFailed(j)
  <2>1. /\ ctx[j] \in Hash /\ ctx[j].full /\ run[j] = "markFailed"
        /\ exc[j] \in ErrorText
    BY <1>17 DEF MarkFailed, RunTo, TypeOK, IInv, MessageInv, HashInv
  <2>2. MarkFailedWith(ctx[j], exc[j]) # NoHash
    BY <2>1, MarkedContexts, NoHashAssumption
  <2>3. MarkFailedWith(ctx[j], exc[j]).full
    BY <2>1, MarkedFields
  <2> QED
    BY <1>17, <2>1, <2>2, <2>3 DEF MarkFailed, RunTo, Persist, JobSet, Raises, TypeOK,
                IInv, MessageInv, HashInv
<1>18. CASE OnFailureRead(j)
  BY <1>18 DEF OnFailureRead, RunTo, Pending, TypeOK, IInv, MessageInv, HashInv
<1>19. CASE OnFailureWrite(j)
  <2>1. ctx' = ctx /\ msg' = msg /\ web' = web /\ twice' = twice
    BY <1>19 DEF OnFailureWrite, TypeOK, IInv, MessageInv, HashInv
  <2>2. run[j] = "onFailureWrite" /\ run' = [run EXCEPT ![j] = "ack"]
    BY <1>19 DEF OnFailureWrite, RunTo, TypeOK, IInv, MessageInv, HashInv
  <2>3. hash[j] # NoHash /\ hash[j] \in Hash /\ hash[j].full
    BY <2>2 DEF TypeOK, IInv, MessageInv, HashInv
  <2>4. hash'[k] = hash[k] \/ (k = j /\ hash'[k] = MarkFailedWith(hash[j], "generic"))
    BY <1>19, <2>3 DEF OnFailureWrite, Persist, JobSet, Raises, TypeOK, IInv,
                MessageInv, HashInv
  <2>5. MarkFailedWith(hash[j], "generic") # NoHash /\ MarkFailedWith(hash[j], "generic").full
    BY <2>3, MarkedFields, MarkedContexts, NoHashAssumption
  <2> QED
    BY <2>1, <2>2, <2>3, <2>4, <2>5 DEF TypeOK, IInv, MessageInv, HashInv
<1>20. CASE Settles(j)
  BY <1>20 DEF Settles, DeliveryEnds, Interrupted, OnWorker, Pending, TypeOK, IInv, MessageInv, HashInv
<1>21. CASE SoftLimit(j)
  BY <1>21 DEF SoftLimit, RunTo, Interrupted, OnWorker, Pending, TypeOK, IInv,
               MessageInv, HashInv
<1>23. CASE ComesBack(j)
  BY <1>23 DEF ComesBack, DeliveredAgain, DeliveryEnds, Interrupted, OnWorker, Pending, TypeOK, IInv, MessageInv, HashInv
<1>24. CASE HashExpires(j)
  BY <1>24 DEF HashExpires, JobSet, Pending, TypeOK, IInv, MessageInv, HashInv
<1>25. CASE TwinStep(j)
  <2>1. UNCHANGED <<web, msg, run, ctx, twice>>
    BY <1>25 DEF TwinStep
  <2>2. hash'[k] = hash[k] \/ (hash'[k] \in Hash /\ hash'[k].full)
    BY <1>25 DEF TwinStep, WrittenByTwin, JobSet, TypeOK, IInv
  <2> QED
    BY <2>1, <2>2, NoHashAssumption DEF TypeOK, IInv, HashInv
<1> QED
  BY <1>1, <1>2, <1>3, <1>4, <1>5, <1>6, <1>7, <1>8, <1>9, <1>10, <1>11, <1>12,
     <1>13, <1>14, <1>15, <1>16, <1>17, <1>18, <1>19, <1>20, <1>21,
     <1>23, <1>24, <1>25, DeliveryCases DEF JobStep, WebStep, RunStep

\* A step of job j keeps VerdictInv of every job.
LEMMA VerdictStep ==
  ASSUME IInv, NEW j \in Jobs, JobStep(j), UNCHANGED faults, NEW k \in Jobs
  PROVE  VerdictInv(k)'
<1>1. CASE SweepUpload(j) \/ SweepOutput(j)
  BY <1>1 DEF SweepUpload, SweepOutput, HashCompleted, MarkedFailed, TypeOK,
              IInv, MessageInv, VerdictInv
<1>2. CASE Accept(j)
  BY <1>2 DEF Accept, WebTo, HashCompleted, MarkedFailed, Hash, Pending,
              PartialHash, MarkProcessing, MarkCompleted, MarkFailedWith, TypeOK,
              IInv, MessageInv, VerdictInv
<1>3. CASE Refuse(j)
  BY <1>3 DEF Refuse, WebTo, HashCompleted, MarkedFailed, Hash, Pending,
              PartialHash, MarkProcessing, MarkCompleted, MarkFailedWith, TypeOK,
              IInv, MessageInv, VerdictInv
<1>4. CASE NoAsyncTask(j)
  BY <1>4 DEF NoAsyncTask, WebTo, HashCompleted, MarkedFailed, Hash, Pending,
              PartialHash, MarkProcessing, MarkCompleted, MarkFailedWith, TypeOK,
              IInv, MessageInv, VerdictInv
<1>5. CASE RunOrEnqueue(j)
  BY <1>5 DEF RunOrEnqueue, WebTo, JobSet, Raises, HashCompleted, MarkedFailed,
              Hash, Pending, PartialHash, MarkProcessing, MarkCompleted,
              MarkFailedWith, TypeOK, IInv, MessageInv, VerdictInv
<1>6. CASE EnqueuePersist(j)
  BY <1>6 DEF EnqueuePersist, WebTo, JobSet, Raises, HashCompleted, MarkedFailed,
              Hash, Pending, PartialHash, MarkProcessing, MarkCompleted,
              MarkFailedWith, TypeOK, IInv, MessageInv, VerdictInv
<1>7. CASE Dispatch(j)
  BY <1>7 DEF Dispatch, Published, WebTo, HashCompleted, MarkedFailed, Hash, Pending,
              PartialHash, MarkProcessing, MarkCompleted, MarkFailedWith, TypeOK,
              IInv, MessageInv, VerdictInv
<1>8. CASE Confirm(j)
  BY <1>8 DEF Confirm, WebTo, JobSet, Raises, HashCompleted, MarkedFailed, Hash,
              Pending, PartialHash, MarkProcessing, MarkCompleted,
              MarkFailedWith, TypeOK, IInv, MessageInv, VerdictInv
<1>9. CASE WebCrash(j)
  BY <1>9 DEF WebCrash, Interrupted, HashCompleted, MarkedFailed, Hash, Pending,
              PartialHash, MarkProcessing, MarkCompleted, MarkFailedWith, TypeOK,
              IInv, MessageInv, VerdictInv
<1>10. CASE Fetch(j)
  BY <1>10 DEF Fetch, RunTo, HashCompleted, MarkedFailed, Hash, Pending,
               PartialHash, MarkProcessing, MarkCompleted, MarkFailedWith,
               TypeOK, IInv, MessageInv, VerdictInv
<1>11. CASE Load(j)
  BY <1>11 DEF Load, RunTo, HashCompleted, MarkedFailed, Hash, Pending,
               PartialHash, MarkProcessing, MarkCompleted, MarkFailedWith,
               TypeOK, IInv, MessageInv, VerdictInv
<1>12. CASE Begin(j)
  BY <1>12 DEF Begin, RunTo, Persist, JobSet, Raises, HashCompleted,
               MarkedFailed, Hash, Pending, PartialHash, MarkProcessing,
               MarkCompleted, MarkFailedWith, TypeOK, IInv, MessageInv,
               VerdictInv
<1>13. CASE EngineReturns(j)
  BY <1>13 DEF EngineReturns, RunTo, HashCompleted, MarkedFailed, Hash, Pending,
               PartialHash, MarkProcessing, MarkCompleted, MarkFailedWith,
               TypeOK, IInv, MessageInv, VerdictInv
<1>14. CASE EngineRaises(j)
  BY <1>14 DEF EngineRaises, RunTo, Interrupted, HashCompleted, MarkedFailed,
               Hash, Pending, PartialHash, MarkProcessing, MarkCompleted,
               MarkFailedWith, TypeOK, IInv, MessageInv, VerdictInv
<1>15. CASE Complete(j)
  BY <1>15 DEF Complete, RunTo, Persist, JobSet, Raises, HashCompleted,
               MarkedFailed, Hash, Pending, PartialHash, MarkProcessing,
               MarkCompleted, MarkFailedWith, TypeOK, IInv, MessageInv,
               VerdictInv
<1>16. CASE Cleanup(j)
  BY <1>16 DEF Cleanup, HashCompleted, MarkedFailed, Hash, Pending, PartialHash,
               MarkProcessing, MarkCompleted, MarkFailedWith, TypeOK, IInv,
               MessageInv, VerdictInv
<1>17. CASE MarkFailed(j)
  <2>1. /\ run[j] = "markFailed" /\ run' = [run EXCEPT ![j] = "onFailureRead"]
        /\ ctx[j] \in Hash /\ exc[j] \in ErrorText /\ exc[j] # "generic"
    BY <1>17 DEF MarkFailed, RunTo, TypeOK, IInv, MessageInv, VerdictInv
  <2>2. MarkFailedWith(ctx[j], exc[j]).status = "failed"
    BY <2>1, MarkedFields
  <2> QED
    BY <1>17, <2>1, <2>2 DEF MarkFailed, Persist, JobSet, Raises, HashCompleted,
                TypeOK, IInv, MessageInv, VerdictInv
<1>18. CASE OnFailureRead(j)
  BY <1>18 DEF OnFailureRead, RunTo, HashCompleted, MarkedFailed, Hash, Pending,
               PartialHash, MarkProcessing, MarkCompleted, MarkFailedWith,
               TypeOK, IInv, MessageInv, VerdictInv
<1>19. CASE OnFailureWrite(j)
  BY <1>19 DEF OnFailureWrite, RunTo, Persist, JobSet, Raises, HashCompleted,
               MarkedFailed, Hash, Pending, PartialHash, MarkProcessing,
               MarkCompleted, MarkFailedWith, TypeOK, IInv, MessageInv,
               VerdictInv
<1>20. CASE Settles(j)
  BY <1>20 DEF Settles, DeliveryEnds, Interrupted, OnWorker, HashCompleted, MarkedFailed, Hash, Pending, PartialHash, MarkProcessing, MarkCompleted, MarkFailedWith, TypeOK, IInv, MessageInv, VerdictInv
<1>21. CASE SoftLimit(j)
  BY <1>21 DEF SoftLimit, RunTo, Interrupted, OnWorker, HashCompleted,
               MarkedFailed, Hash, Pending, PartialHash, MarkProcessing,
               MarkCompleted, MarkFailedWith, TypeOK, IInv, MessageInv,
               VerdictInv
<1>23. CASE ComesBack(j)
  BY <1>23 DEF ComesBack, DeliveredAgain, DeliveryEnds, Interrupted, OnWorker, HashCompleted, MarkedFailed, Hash, Pending, PartialHash, MarkProcessing, MarkCompleted, MarkFailedWith, TypeOK, IInv, MessageInv, VerdictInv
<1>24. CASE HashExpires(j)
  BY <1>24 DEF HashExpires, JobSet, HashCompleted, MarkedFailed, Hash, Pending,
               PartialHash, MarkProcessing, MarkCompleted, MarkFailedWith,
               TypeOK, IInv, MessageInv, VerdictInv
<1>25. CASE TwinStep(j)
  BY <1>25 DEF TwinStep, WrittenByTwin, JobSet, HashCompleted,
               MarkedFailed, PartialHash, TypeOK, IInv, MessageInv, VerdictInv
<1> QED
  BY <1>1, <1>2, <1>3, <1>4, <1>5, <1>6, <1>7, <1>8, <1>9, <1>10, <1>11, <1>12,
     <1>13, <1>14, <1>15, <1>16, <1>17, <1>18, <1>19, <1>20, <1>21,
     <1>23, <1>24, <1>25, DeliveryCases DEF JobStep, WebStep, RunStep

LEMMA IInvStep == IInv /\ [Next]_vars => IInv'
<1> SUFFICES ASSUME IInv, [Next]_vars PROVE IInv'
  OBVIOUS
<1>1. TypeOK'
  BY TypeStep DEF IInv
<1>2. ASSUME NEW k \in Jobs
      PROVE  (MessageInv(k) /\ StartInv(k) /\ InputInv(k) /\ HashInv(k) /\ VerdictInv(k))'
  <2>1. CASE UNCHANGED vars
    BY <2>1 DEF vars, IInv, MessageInv, StartInv, InputInv, HashInv, VerdictInv,
                HashCompleted, MarkedFailed
  <2>2. CASE RedisRestart
    BY <2>2 DEF RedisRestart, IInv, TypeOK, MessageInv, StartInv, InputInv, HashInv,
                VerdictInv, HashCompleted, MarkedFailed
  <2>3. ASSUME NEW j \in Jobs, JobStep(j)
        PROVE  (MessageInv(k) /\ StartInv(k) /\ InputInv(k) /\ HashInv(k) /\ VerdictInv(k))'
    BY <2>3, FaultsStay, MessageStep, StartStep, InputStep, HashStep, VerdictStep
  <2> QED
    BY <2>1, <2>2, <2>3 DEF Next
<1> QED
  BY <1>1, <1>2 DEF IInv

\* The invariant holds in every reachable state.
THEOREM Invariance == Spec => []IInv
<1>1. Init => IInv
  BY IInvInit
<1>2. IInv /\ [Next]_vars => IInv'
  BY IInvStep
<1> QED
  BY <1>1, <1>2, PTL DEF Spec

-----------------------------------------------------------------------------
(* The answers and the hash agree with the disk. *)

\* What mark_processing and the first persist leave behind.
LEMMA BeginEffect ==
  ASSUME TypeOK, NEW j \in Jobs, Begin(j)
  PROVE  /\ RunTo(j, "begin", "engine")
         /\ ctx'[j] # NoHash /\ ctx'[j].status = "processing"
         /\ ctx'[j].full = ctx[j].full /\ ctx'[j].is_async = ctx[j].is_async
         /\ \/ hash'[j] = ctx'[j]
            \/ (RedisFaults \/ ~ctx[j].full) /\ hash'[j] = hash[j]
         /\ \A k \in Jobs \ {j} : ctx'[k] = ctx[k] /\ hash'[k] = hash[k]
         /\ UNCHANGED <<web, msg, exc, soft, upload, output, losses, twice>>
<1> DEFINE c == MarkProcessing(ctx[j])
<1>1. ctx[j] \in Hash /\ exc[j] \in ErrorText /\ "none" \in ErrorText
  BY DEF TypeOK
<1>2. c \in Hash /\ c.status = "processing" /\ c.full = ctx[j].full /\ c.is_async = ctx[j].is_async
  BY <1>1, MarkedContexts, MarkedFields
<1>3. c # NoHash
  BY <1>2, NoHashAssumption
<1>4. ctx' = [ctx EXCEPT ![j] = c] /\ ctx'[j] = c
  BY DEF Begin, TypeOK
<1>5. \/ hash' = [hash EXCEPT ![j] = ctx'[j]]
      \/ (RedisFaults \/ ~ctx[j].full) /\ hash' = hash
  BY DEF Begin, Persist, JobSet, Raises
<1>6. /\ RunTo(j, "begin", "engine")
      /\ UNCHANGED <<web, msg, exc, soft, upload, output, losses, twice>>
  BY DEF Begin
<1> HIDE DEF c
<1> QED
  BY <1>2, <1>3, <1>4, <1>5, <1>6 DEF TypeOK

\* What mark_completed and the second persist leave behind.
LEMMA CompleteEffect ==
  ASSUME TypeOK, NEW j \in Jobs, Complete(j)
  PROVE  /\ RunTo(j, "complete", "cleanOk")
         /\ ctx'[j] # NoHash /\ ctx'[j].status = "completed"
         /\ ctx'[j].full = ctx[j].full /\ ctx'[j].is_async = ctx[j].is_async
         /\ \/ hash'[j] = ctx'[j]
            \/ (RedisFaults) /\ hash'[j] = hash[j]
         /\ \A k \in Jobs \ {j} : ctx'[k] = ctx[k] /\ hash'[k] = hash[k]
         /\ UNCHANGED <<web, msg, exc, soft, upload, output, runs, losses, twice>>
<1> DEFINE c == MarkCompleted(ctx[j])
<1>1. ctx[j] \in Hash /\ exc[j] \in ErrorText /\ "none" \in ErrorText
  BY DEF TypeOK
<1>2. c \in Hash /\ c.status = "completed" /\ c.full = ctx[j].full /\ c.is_async = ctx[j].is_async
  BY <1>1, MarkedContexts, MarkedFields
<1>3. c # NoHash
  BY <1>2, NoHashAssumption
<1>4. ctx' = [ctx EXCEPT ![j] = c] /\ ctx'[j] = c
  BY DEF Complete, TypeOK
<1>5. \/ hash' = [hash EXCEPT ![j] = ctx'[j]]
      \/ (RedisFaults) /\ hash' = hash
  BY DEF Complete, Persist, JobSet, Raises
<1>6. /\ RunTo(j, "complete", "cleanOk")
      /\ UNCHANGED <<web, msg, exc, soft, upload, output, runs, losses, twice>>
  BY DEF Complete
<1> HIDE DEF c
<1> QED
  BY <1>2, <1>3, <1>4, <1>5, <1>6 DEF TypeOK

\* What mark_failed and its job_set leave behind.
LEMMA MarkFailedEffect ==
  ASSUME TypeOK, NEW j \in Jobs, MarkFailed(j)
  PROVE  /\ RunTo(j, "markFailed", "onFailureRead")
         /\ ctx'[j] # NoHash /\ ctx'[j].status = "failed"
         /\ ctx'[j].full = ctx[j].full /\ ctx'[j].is_async = ctx[j].is_async
         /\ \/ hash'[j] = ctx'[j]
            \/ (RedisFaults) /\ hash'[j] = hash[j]
         /\ \A k \in Jobs \ {j} : ctx'[k] = ctx[k] /\ hash'[k] = hash[k]
         /\ UNCHANGED <<web, msg, exc, soft, upload, output, runs, losses, twice>>
<1> DEFINE c == MarkFailedWith(ctx[j], exc[j])
<1>1. ctx[j] \in Hash /\ exc[j] \in ErrorText /\ "none" \in ErrorText
  BY DEF TypeOK
<1>2. c \in Hash /\ c.status = "failed" /\ c.full = ctx[j].full /\ c.is_async = ctx[j].is_async
  BY <1>1, MarkedContexts, MarkedFields
<1>3. c # NoHash
  BY <1>2, NoHashAssumption
<1>4. ctx' = [ctx EXCEPT ![j] = c] /\ ctx'[j] = c
  BY DEF MarkFailed, TypeOK
<1>5. \/ hash' = [hash EXCEPT ![j] = ctx'[j]]
      \/ (RedisFaults) /\ hash' = hash
  BY DEF MarkFailed, Persist, JobSet, Raises
<1>6. /\ RunTo(j, "markFailed", "onFailureRead")
      /\ UNCHANGED <<web, msg, exc, soft, upload, output, runs, losses, twice>>
  BY DEF MarkFailed
<1> HIDE DEF c
<1> QED
  BY <1>2, <1>3, <1>4, <1>5, <1>6 DEF TypeOK

\* What the job_update of on_failure leaves behind.
LEMMA OnFailureEffect ==
  ASSUME TypeOK, NEW j \in Jobs, OnFailureWrite(j)
  PROVE  /\ RunTo(j, "onFailureWrite", "ack")
         /\ \/ /\ hash'[j] # NoHash /\ hash'[j].status = "failed"
               /\ hash'[j].is_async => hash[j] # NoHash /\ hash[j].is_async
            \/ RedisFaults /\ hash'[j] = hash[j]
         /\ \A k \in Jobs \ {j} : hash'[k] = hash[k]
         /\ UNCHANGED <<web, msg, ctx, exc, soft, upload, output, runs, losses, twice>>
<1> DEFINE h == IF hash[j] = NoHash THEN PartialHash ELSE MarkFailedWith(hash[j], "generic")
<1>1. h # NoHash /\ h.status = "failed" /\ (h.is_async => hash[j] # NoHash /\ hash[j].is_async)
  <2>1. CASE hash[j] = NoHash
    BY <2>1, WrittenHashes, NoHashAssumption DEF PartialHash
  <2>2. CASE hash[j] # NoHash
    <3>1. hash[j] \in Hash /\ "generic" \in ErrorText
      BY <2>2 DEF TypeOK
    <3>2. /\ MarkFailedWith(hash[j], "generic") \in Hash
          /\ MarkFailedWith(hash[j], "generic").status = "failed"
          /\ MarkFailedWith(hash[j], "generic").is_async = hash[j].is_async
      BY <3>1, MarkedContexts, MarkedFields
    <3> QED
      BY <2>2, <3>2, NoHashAssumption
  <2> QED
    BY <2>1, <2>2
<1>2. \/ hash' = [hash EXCEPT ![j] = h]
      \/ RedisFaults /\ hash' = hash
  BY DEF OnFailureWrite, Persist, JobSet, Raises
<1>3. /\ RunTo(j, "onFailureWrite", "ack")
      /\ UNCHANGED <<web, msg, ctx, exc, soft, upload, output, runs, losses, twice>>
  BY DEF OnFailureWrite
<1> HIDE DEF h
<1> QED
  BY <1>1, <1>2, <1>3 DEF TypeOK

\* A step of job j keeps OutputInv of every job: nobody takes a finished output away
\* from a process that is about to report it.
LEMMA OutputStep ==
  ASSUME OutcomeInv, NEW j \in Jobs, JobStep(j), UNCHANGED faults, NEW k \in Jobs
  PROVE  OutputInv(k)'
<1> USE DEF OutcomeInv, IInv, TypeOK, MessageInv, HashCompleted, OutputInv, VerdictInv
<1>1. CASE Accept(j)
  BY <1>1 DEF Accept, WebTo
<1>2. CASE Refuse(j)
  BY <1>2 DEF Refuse, WebTo
<1>3. CASE NoAsyncTask(j)
  BY <1>3 DEF NoAsyncTask, WebTo
<1>4. CASE RunOrEnqueue(j)
  BY <1>4 DEF RunOrEnqueue, WebTo, JobSet, Raises, Pending
<1>5. CASE EnqueuePersist(j)
  BY <1>5 DEF EnqueuePersist, WebTo, JobSet, Raises, Pending
<1>6. CASE Dispatch(j)
  BY <1>6 DEF Dispatch, Published, WebTo
<1>7. CASE Confirm(j)
  BY <1>7 DEF Confirm, WebTo, JobSet, Raises, Pending
<1>8. CASE WebCrash(j)
  BY <1>8 DEF WebCrash, Interrupted
<1>9. CASE Fetch(j)
  BY <1>9 DEF Fetch, RunTo
<1>10. CASE Load(j)
  BY <1>10 DEF Load, RunTo
<1>11. CASE Begin(j)
  BY <1>11, BeginEffect DEF RunTo
<1>12. CASE EngineReturns(j)
  BY <1>12 DEF EngineReturns, RunTo
<1>13. CASE EngineRaises(j)
  BY <1>13 DEF EngineRaises, RunTo, Interrupted
<1>14. CASE Complete(j)
  BY <1>14, CompleteEffect DEF RunTo
<1>15. CASE Cleanup(j)
  BY <1>15 DEF Cleanup
<1>16. CASE MarkFailed(j)
  BY <1>16, MarkFailedEffect DEF RunTo
<1>17. CASE OnFailureRead(j)
  BY <1>17 DEF OnFailureRead, RunTo, MarkedFailed
<1>18. CASE OnFailureWrite(j)
  BY <1>18, OnFailureEffect DEF RunTo
<1>19. CASE Settles(j)
  BY <1>19 DEF Settles, DeliveryEnds, Interrupted, OnWorker
<1>20. CASE SoftLimit(j)
  BY <1>20 DEF SoftLimit, RunTo, Interrupted, OnWorker
<1>22. CASE ComesBack(j)
  BY <1>22 DEF ComesBack, DeliveredAgain, DeliveryEnds, Interrupted, OnWorker, Pending
<1>23. CASE HashExpires(j)
  BY <1>23 DEF HashExpires, JobSet
<1>24. CASE SweepUpload(j)
  BY <1>24 DEF SweepUpload
<1>25. CASE SweepOutput(j)
  BY <1>25 DEF SweepOutput
<1>26. CASE TwinStep(j)
  BY <1>26 DEF TwinStep, WrittenByTwin, JobSet
<1> QED
  BY <1>1, <1>2, <1>3, <1>4, <1>5, <1>6, <1>7, <1>8, <1>9, <1>10, <1>11,
     <1>12, <1>13, <1>14, <1>15, <1>16, <1>17, <1>18, <1>19, <1>20,
     <1>22, <1>23, <1>24, <1>25, <1>26, DeliveryCases DEF JobStep, WebStep, RunStep

\* A step of job j keeps AnswerInv of every job.
LEMMA AnswerStep ==
  ASSUME OutcomeInv, NEW j \in Jobs, JobStep(j), UNCHANGED faults, NEW k \in Jobs
  PROVE  AnswerInv(k)'
<1> USE DEF OutcomeInv, IInv, TypeOK, MessageInv, HashCompleted, AnswerInv, OutputInv
<1>1. CASE Accept(j)
  BY <1>1 DEF Accept, WebTo
<1>2. CASE Refuse(j)
  BY <1>2 DEF Refuse, WebTo
<1>3. CASE NoAsyncTask(j)
  BY <1>3 DEF NoAsyncTask, WebTo
<1>4. CASE RunOrEnqueue(j)
  BY <1>4 DEF RunOrEnqueue, WebTo, JobSet, Raises, Pending
<1>5. CASE EnqueuePersist(j)
  BY <1>5 DEF EnqueuePersist, WebTo, JobSet, Raises, Pending
<1>6. CASE Dispatch(j)
  BY <1>6 DEF Dispatch, Published, WebTo
<1>7. CASE Confirm(j)
  BY <1>7 DEF Confirm, WebTo, JobSet, Raises, Pending
<1>8. CASE WebCrash(j)
  BY <1>8 DEF WebCrash, Interrupted
<1>9. CASE Fetch(j)
  BY <1>9 DEF Fetch, RunTo
<1>10. CASE Load(j)
  BY <1>10 DEF Load, RunTo
<1>11. CASE Begin(j)
  BY <1>11, BeginEffect DEF RunTo
<1>12. CASE EngineReturns(j)
  BY <1>12 DEF EngineReturns, RunTo
<1>13. CASE EngineRaises(j)
  BY <1>13 DEF EngineRaises, RunTo, Interrupted
<1>14. CASE Complete(j)
  BY <1>14, CompleteEffect DEF RunTo
<1>15. CASE Cleanup(j)
  BY <1>15 DEF Cleanup
<1>16. CASE MarkFailed(j)
  BY <1>16, MarkFailedEffect DEF RunTo
<1>17. CASE OnFailureRead(j)
  BY <1>17 DEF OnFailureRead, RunTo, MarkedFailed
<1>18. CASE OnFailureWrite(j)
  BY <1>18, OnFailureEffect DEF RunTo
<1>19. CASE Settles(j)
  BY <1>19 DEF Settles, DeliveryEnds, Interrupted, OnWorker
<1>20. CASE SoftLimit(j)
  BY <1>20 DEF SoftLimit, RunTo, Interrupted, OnWorker
<1>22. CASE ComesBack(j)
  BY <1>22 DEF ComesBack, DeliveredAgain, DeliveryEnds, Interrupted, OnWorker, Pending
<1>23. CASE HashExpires(j)
  BY <1>23 DEF HashExpires, JobSet
<1>24. CASE SweepUpload(j)
  BY <1>24 DEF SweepUpload
<1>25. CASE SweepOutput(j)
  BY <1>25 DEF SweepOutput
<1>26. CASE TwinStep(j)
  BY <1>26 DEF TwinStep, WrittenByTwin, JobSet
<1> QED
  BY <1>1, <1>2, <1>3, <1>4, <1>5, <1>6, <1>7, <1>8, <1>9, <1>10, <1>11,
     <1>12, <1>13, <1>14, <1>15, <1>16, <1>17, <1>18, <1>19, <1>20,
     <1>22, <1>23, <1>24, <1>25, <1>26, DeliveryCases DEF JobStep, WebStep, RunStep

\* A step of job j keeps AgreeInv of every job: once the worker holds is_async, each
\* write of the hash is a write of its context, or the one of on_failure.
LEMMA AgreeStep ==
  ASSUME OutcomeInv, NEW j \in Jobs, JobStep(j), UNCHANGED faults, NEW k \in Jobs
  PROVE  AgreeInv(k)'
<1> USE DEF OutcomeInv, IInv, TypeOK, MessageInv, HashCompleted, AgreeInv, AnswerInv, HashInv
<1>1. CASE Accept(j)
  BY <1>1 DEF Accept, WebTo
<1>2. CASE Refuse(j)
  BY <1>2 DEF Refuse, WebTo
<1>3. CASE NoAsyncTask(j)
  BY <1>3 DEF NoAsyncTask, WebTo
<1>4. CASE RunOrEnqueue(j)
  BY <1>4 DEF RunOrEnqueue, WebTo, JobSet, Raises, Pending
<1>5. CASE EnqueuePersist(j)
  BY <1>5 DEF EnqueuePersist, WebTo, JobSet, Raises, Pending
<1>6. CASE Dispatch(j)
  BY <1>6 DEF Dispatch, Published, WebTo
<1>7. CASE Confirm(j)
  BY <1>7 DEF Confirm, WebTo, JobSet, Raises, Pending
<1>8. CASE WebCrash(j)
  BY <1>8 DEF WebCrash, Interrupted
<1>9. CASE Fetch(j)
  BY <1>9 DEF Fetch, RunTo
<1>10. CASE Load(j)
  BY <1>10 DEF Load, RunTo
<1>11. CASE Begin(j)
  BY <1>11, BeginEffect DEF RunTo
<1>12. CASE EngineReturns(j)
  BY <1>12 DEF EngineReturns, RunTo
<1>13. CASE EngineRaises(j)
  BY <1>13 DEF EngineRaises, RunTo, Interrupted
<1>14. CASE Complete(j)
  BY <1>14, CompleteEffect DEF RunTo
<1>15. CASE Cleanup(j)
  BY <1>15 DEF Cleanup
<1>16. CASE MarkFailed(j)
  BY <1>16, MarkFailedEffect DEF RunTo
<1>17. CASE OnFailureRead(j)
  BY <1>17 DEF OnFailureRead, RunTo, MarkedFailed
<1>18. CASE OnFailureWrite(j)
  BY <1>18, OnFailureEffect DEF RunTo
<1>19. CASE Settles(j)
  BY <1>19 DEF Settles, DeliveryEnds, Interrupted, OnWorker
<1>20. CASE SoftLimit(j)
  BY <1>20 DEF SoftLimit, RunTo, Interrupted, OnWorker
<1>22. CASE ComesBack(j)
  BY <1>22 DEF ComesBack, DeliveredAgain, DeliveryEnds, Interrupted, OnWorker, Pending
<1>23. CASE HashExpires(j)
  BY <1>23 DEF HashExpires, JobSet
<1>24. CASE SweepUpload(j)
  BY <1>24 DEF SweepUpload
<1>25. CASE SweepOutput(j)
  BY <1>25 DEF SweepOutput
<1>26. CASE TwinStep(j)
  BY <1>26 DEF TwinStep, WrittenByTwin, JobSet, PartialHash
<1> QED
  BY <1>1, <1>2, <1>3, <1>4, <1>5, <1>6, <1>7, <1>8, <1>9, <1>10, <1>11,
     <1>12, <1>13, <1>14, <1>15, <1>16, <1>17, <1>18, <1>19, <1>20,
     <1>22, <1>23, <1>24, <1>25, <1>26, DeliveryCases DEF JobStep, WebStep, RunStep

LEMMA OutcomeStep == OutcomeInv /\ [Next]_vars => OutcomeInv'
<1> SUFFICES ASSUME OutcomeInv, [Next]_vars PROVE OutcomeInv'
  OBVIOUS
<1>1. IInv'
  BY IInvStep DEF OutcomeInv
<1>2. ASSUME NEW k \in Jobs PROVE (OutputInv(k) /\ AnswerInv(k) /\ AgreeInv(k))'
  <2>1. CASE UNCHANGED vars
    BY <2>1 DEF vars, OutcomeInv, OutputInv, AnswerInv, AgreeInv, HashCompleted
  <2>2. CASE RedisRestart
    BY <2>2 DEF RedisRestart, OutcomeInv, IInv, TypeOK, OutputInv, AnswerInv, AgreeInv,
                HashCompleted
  <2>3. ASSUME NEW j \in Jobs, JobStep(j)
        PROVE  (OutputInv(k) /\ AnswerInv(k) /\ AgreeInv(k))'
    BY <2>3, FaultsStay, OutputStep, AnswerStep, AgreeStep
  <2> QED
    BY <2>1, <2>2, <2>3 DEF Next
<1> QED
  BY <1>1, <1>2 DEF OutcomeInv

\* The agreement of disk, hash and answer is kept in every reachable state.
THEOREM OutcomesAgree == Spec => []OutcomeInv
<1>1. Init => OutcomeInv
  <2> SUFFICES ASSUME Init PROVE OutcomeInv
    OBVIOUS
  <2>1. ASSUME NEW j \in Jobs PROVE OutputInv(j) /\ AnswerInv(j) /\ AgreeInv(j)
    BY DEF Init, OutputInv, AnswerInv, AgreeInv, HashCompleted, Pending
  <2> QED
    BY <2>1, IInvInit DEF OutcomeInv
<1>2. OutcomeInv /\ [Next]_vars => OutcomeInv'
  BY OutcomeStep
<1> QED
  BY <1>1, <1>2, PTL DEF Spec

-----------------------------------------------------------------------------
(* The properties. *)

\* The engine starts at most once more than deliveries ended unknown to the broker.
THEOREM EngineStartsAreBounded == Spec => []EngineStartsBounded
<1>1. IInv => EngineStartsBounded
  BY DEF IInv, StartInv, EngineStartsBounded
<1> QED
  BY <1>1, Invariance, PTL

\* A waiting message that was never delivered has its input, or the cleanup has it.
THEOREM InputsAreKept == Spec => []InputsOutliveQueue
<1>1. IInv => InputsOutliveQueue
  BY DEF IInv, InputInv, InputsOutliveQueue
<1> QED
  BY <1>1, Invariance, PTL

\* The worker always finds the job, with all its fields, as long as Redis keeps it.
THEOREM WorkerFindsJob == Spec => []DispatchedJobHasHash
<1>1. IInv => DispatchedJobHasHash
  BY DEF IInv, HashInv, DispatchedJobHasHash
<1> QED
  BY <1>1, Invariance, PTL

\* A hash that says completed stands for an output that the engine finished.
THEOREM CompletedJobsHaveOutput == Spec => []CompletedHasOutput
<1>1. OutcomeInv => CompletedHasOutput
  BY DEF OutcomeInv, OutputInv, HashCompleted, CompletedHasOutput
<1> QED
  BY <1>1, OutcomesAgree, PTL

\* When the message is gone, the hash tells what the worker did.
THEOREM HashTellsOutcome == Spec => []HashAgreesWhenAcked
<1>1. OutcomeInv => HashAgreesWhenAcked
  BY DEF OutcomeInv, AgreeInv, HashAgreesWhenAcked
<1> QED
  BY <1>1, OutcomesAgree, PTL

\* 200 is only answered for a finished output, and /jobs/<id> says the same.
THEOREM AnswerIsTrue == Spec => []SyncAnswerAgrees
<1>1. OutcomeInv => SyncAnswerAgrees
  BY DEF OutcomeInv, AnswerInv, HashCompleted, SyncAnswerAgrees
<1> QED
  BY <1>1, OutcomesAgree, PTL

\* Who writes the hash of a job that was published once, and what: nobody else does.
LEMMA HashWrites ==
  ASSUME TypeOK, [Next]_vars, NEW k \in Jobs
  PROVE  \/ hash'[k] \in {hash[k], NoHash, Pending(FALSE), Pending(TRUE)}
         \/ hash'[k] \in {MarkProcessing(ctx[k]), MarkCompleted(ctx[k])}
         \/ run[k] = "markFailed" /\ hash'[k] = MarkFailedWith(ctx[k], exc[k])
         \/ run[k] = "onFailureWrite" /\ hash[k] = NoHash /\ hash'[k] = PartialHash
         \/ run[k] = "onFailureWrite" /\ hash'[k] = MarkFailedWith(hash[k], "generic")
         \/ twice[k]
<1> USE DEF TypeOK
<1>1. CASE UNCHANGED hash
  BY <1>1
<1>2. CASE RedisRestart
  BY <1>2 DEF RedisRestart
<1>3. ASSUME NEW j \in Jobs, RunOrEnqueue(j) \/ EnqueuePersist(j) \/ Confirm(j)
      PROVE  hash'[k] \in {hash[k], Pending(FALSE), Pending(TRUE)}
  BY <1>3 DEF RunOrEnqueue, EnqueuePersist, Confirm, JobSet, Raises
<1>4. ASSUME NEW j \in Jobs, Begin(j) \/ Complete(j)
      PROVE  hash'[k] \in {hash[k], MarkProcessing(ctx[k]), MarkCompleted(ctx[k])}
  BY <1>4 DEF Begin, Complete, Persist, JobSet, Raises
<1>5. ASSUME NEW j \in Jobs, MarkFailed(j)
      PROVE  \/ hash'[k] = hash[k]
             \/ run[k] = "markFailed" /\ hash'[k] = MarkFailedWith(ctx[k], exc[k])
  BY <1>5 DEF MarkFailed, RunTo, Persist, JobSet, Raises
<1>6. ASSUME NEW j \in Jobs, OnFailureWrite(j)
      PROVE  \/ hash'[k] = hash[k]
             \/ run[k] = "onFailureWrite" /\ hash[k] = NoHash /\ hash'[k] = PartialHash
             \/ run[k] = "onFailureWrite" /\ hash'[k] = MarkFailedWith(hash[k], "generic")
  BY <1>6 DEF OnFailureWrite, RunTo, Persist, JobSet, Raises
<1>7. ASSUME NEW j \in Jobs, HashExpires(j)
      PROVE  hash'[k] \in {hash[k], NoHash}
  BY <1>7 DEF HashExpires, JobSet
<1>8. ASSUME NEW j \in Jobs,
             \/ Accept(j) \/ Refuse(j) \/ NoAsyncTask(j) \/ Dispatch(j) \/ WebCrash(j)
             \/ Fetch(j) \/ Load(j) \/ EngineReturns(j) \/ EngineRaises(j) \/ Cleanup(j)
             \/ OnFailureRead(j) \/ Ack(j) \/ SoftLimit(j) \/ HardLimit(j)
             \/ WorkerLost(j) \/ SweepUpload(j) \/ SweepOutput(j)
      PROVE  UNCHANGED hash
  BY <1>8 DEF Accept, Refuse, NoAsyncTask, Dispatch, WebCrash, Fetch, Load,
              EngineReturns, EngineRaises, Cleanup, OnFailureRead, Ack, SoftLimit,
              HardLimit, WorkerLost, SweepUpload, SweepOutput
<1>9. ASSUME NEW j \in Jobs, TwinStep(j)
      PROVE  hash'[k] = hash[k] \/ twice[k]
  BY <1>9 DEF TwinStep, JobSet
<1> QED
  BY <1>1, <1>2, <1>3, <1>4, <1>5, <1>6, <1>7, <1>8, <1>9
     DEF Next, JobStep, WebStep, RunStep, vars

\* The status of what the web thread and Pipeline.run write is not failed.
LEMMA NotFailed ==
  ASSUME NEW c \in Hash
  PROVE  /\ Pending(FALSE).status # "failed" /\ Pending(TRUE).status # "failed"
         /\ MarkProcessing(c).status # "failed" /\ MarkCompleted(c).status # "failed"
  BY DEF Pending, MarkProcessing, MarkCompleted, Hash

\* on_failure never replaces the text that _run_job wrote.
THEOREM FriendlyErrorIsKept == Spec => FriendlyErrorKept
<1> DEFINE Kept(j) == /\ MarkedFailed(hash[j]) /\ hash[j].error # "generic" /\ ~twice[j]
                      /\ MarkedFailed(hash'[j])
                      => hash'[j].error # "generic"
<1>1. ASSUME IInv, [Next]_vars, NEW k \in Jobs \ PlainJobs,
             MarkedFailed(hash[k]), hash[k].error # "generic", ~twice[k],
             MarkedFailed(hash'[k])
      PROVE  hash'[k].error # "generic"
  <2>1. /\ TypeOK /\ ctx[k] \in Hash /\ exc[k] \in ErrorText /\ exc[k] # "generic"
        /\ run[k] # "onFailureWrite" /\ hash[k] # NoHash
    BY <1>1 DEF IInv, TypeOK, VerdictInv, MarkedFailed
  <2>2. hash'[k] # NoHash /\ hash'[k].status = "failed"
    BY <1>1 DEF MarkedFailed
  <2>3. hash'[k] = hash[k] \/ hash'[k] = MarkFailedWith(ctx[k], exc[k])
    <3>1. \/ hash'[k] \in {hash[k], NoHash, Pending(FALSE), Pending(TRUE)}
          \/ hash'[k] \in {MarkProcessing(ctx[k]), MarkCompleted(ctx[k])}
          \/ hash'[k] = MarkFailedWith(ctx[k], exc[k])
      BY <1>1, <2>1, HashWrites
    <3>2. /\ Pending(FALSE).status # "failed" /\ Pending(TRUE).status # "failed"
          /\ MarkProcessing(ctx[k]).status # "failed"
          /\ MarkCompleted(ctx[k]).status # "failed"
      BY <2>1, NotFailed
    <3> QED
      BY <3>1, <3>2, <2>2
  <2>4. MarkFailedWith(ctx[k], exc[k]).error = exc[k]
    BY <2>1, MarkedFields
  <2> QED
    BY <1>1, <2>1, <2>3, <2>4
<1>2. IInv /\ [Next]_vars => [\A j \in Jobs \ PlainJobs : Kept(j)]_vars
  BY <1>1
<1> QED
  BY <1>2, Invariance, PTL DEF Spec, FriendlyErrorKept

\* After mark_completed, only a delivery that the broker did not learn the end of, a
\* message published twice or the soft limit can fail the job.
THEOREM CompletedIsKept == Spec => CompletedFailsOnlyAfterLoss
<1> DEFINE Kept(j) == /\ hash[j] # NoHash /\ hash[j].status = "completed"
                      /\ MarkedFailed(hash'[j])
                      => losses[j] > 0 \/ twice[j] \/ soft[j]
<1>1. ASSUME IInv, [Next]_vars, NEW k \in Jobs,
             hash[k] # NoHash, hash[k].status = "completed", MarkedFailed(hash'[k])
      PROVE  losses[k] > 0 \/ twice[k] \/ soft[k]
  <2>1. /\ TypeOK /\ ctx[k] \in Hash /\ losses[k] \in Nat
        /\ \/ losses[k] # 0 \/ soft[k] \/ twice[k]
           \/ run[k] \in {"off", "cleanOk", "ack"}
    BY <1>1, LossAssumption DEF IInv, TypeOK, VerdictInv, HashCompleted
  <2>2. hash'[k] # NoHash /\ hash'[k].status = "failed"
    BY <1>1 DEF MarkedFailed
  <2>3. run[k] \in {"markFailed", "onFailureWrite"} \/ twice[k]
    BY <1>1, <2>1, <2>2, HashWrites, NotFailed
  <2> QED
    BY <2>1, <2>3
<1>2. IInv /\ [Next]_vars => [\A j \in Jobs : Kept(j)]_vars
  BY <1>1
<1> QED
  BY <1>2, Invariance, PTL DEF Spec, CompletedFailsOnlyAfterLoss

=============================================================================
