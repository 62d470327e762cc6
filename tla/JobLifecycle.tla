---------------------------- MODULE JobLifecycle ----------------------------
(***************************************************************************)
(* One tool request from the HTTP handler to its last trace.               *)
(*                                                                         *)
(* A request is handled by a web thread (app/controllers/job_controller.py)*)
(* that either runs Pipeline.run inline or publishes a Celery message and  *)
(* answers 202.  A worker child (tasks/*_tasks.py) takes the message,      *)
(* rebuilds the JobContext from the Redis hash job:<id>, runs the same     *)
(* Pipeline.run (core/pipeline.py) and acknowledges the message last       *)
(* (task_acks_late).  The two processes share only Redis and the disk, so  *)
(* every Redis call is a step of its own and may interleave with the       *)
(* other's.  The hourly cleanup (tasks/system_tasks.py) deletes what has   *)
(* become old.                                                             *)
(*                                                                         *)
(* Of the hash the model keeps what somebody reads back: the status, the   *)
(* kind of error text, is_async (task_id moves with it) and whether the    *)
(* hash carries all the fields of to_redis() or only those of a partial    *)
(* job_update.                                                             *)
(***************************************************************************)
EXTENDS Integers

CONSTANTS
    Jobs,         \* requests, one job_id each
    PlainJobs,    \* those of an image or office tool, whose on_failure does not look first
    MaxLoss,      \* bound: deliveries of a job that may end without an acknowledgement
    Environments, \* the sets of faults, one of which a behaviour may meet
    NoHash        \* stands for the key job:<id> not being there

ASSUME PlainAssumption  == PlainJobs \subseteq Jobs
ASSUME LossAssumption   == MaxLoss \in Nat

Fault == {"refusals", "losses", "crashes"}

ASSUME EnvironmentAssumption == Environments \subseteq SUBSET Fault

VARIABLES
    web,     \* where the request's web thread stands, or what it answered
    msg,     \* the Celery message of the job
    run,     \* where the process inside the task body or Pipeline.run stands
    ctx,     \* the JobContext that process holds
    exc,     \* the exception on its way out of Pipeline.run
    soft,    \* has the soft time limit fired in this delivery?
    hash,    \* the Redis hash job:<id>
    upload,  \* the input file under UPLOAD_FOLDER
    output,  \* the file at ctx.output_path
    runs,    \* how many times the engine was started
    losses,  \* how many deliveries the broker did not learn the end of, because the
             \* worker died or Redis refused the acknowledgement
    twice,   \* has a retry of apply_async published the message more than once?
    faults   \* what may go wrong in this behaviour, from its first state on

vars == <<web, msg, run, ctx, exc, soft, hash, upload, output, runs, losses, twice, faults>>

-----------------------------------------------------------------------------
(* What may go wrong. *)

\* A Redis call may raise.
RedisFaults == "refusals" \in faults

\* Redis may lose keys (TTL, allkeys-lru, restart without persistence).
HashLoss == "losses" \in faults

\* A web worker may die in the middle of a request.
WebCrashes == "crashes" \in faults

-----------------------------------------------------------------------------
(* Values. *)

InFlight == {"route", "enqueue", "dispatch", "confirm"}
Answered == {"accepted", "ok", "failed"}          \* 202, 200, 4xx or 5xx
WebPC    == {"start", "sync", "crashed"} \cup InFlight \cup Answered

MsgState == {"none", "queued", "unacked", "acked", "lost"}

RunPC == {"off", "load", "begin", "engine", "complete", "cleanOk", "cleanErr",
          "markFailed", "onFailureRead", "onFailureWrite", "ack"}

Status == {"pending", "processing", "completed", "failed"}

\* engine: the message of a PDFWalaError; rawLimit: str(SoftTimeLimitExceeded());
\* limit: "Task exceeded time limit and was terminated"; generic: str(exc) of on_failure.
ErrorText == {"none", "engine", "rawLimit", "limit", "generic"}

Hash == [status: Status, error: ErrorText, is_async: BOOLEAN, full: BOOLEAN]

ASSUME NoHashAssumption == NoHash \notin Hash

MarkedFailed(h) == h # NoHash /\ h.status = "failed"

\* What to_redis() gives for the context the web thread built.
Pending(is_async) ==
    [status |-> "pending", error |-> "none", is_async |-> is_async, full |-> TRUE]

\* The hash that job_update creates when the key is gone.
PartialHash ==
    [status |-> "failed", error |-> "generic", is_async |-> FALSE, full |-> FALSE]

\* JobContext.mark_processing, mark_completed and mark_failed.  Only the last one
\* touches the error text.
MarkProcessing(c)     == [c EXCEPT !.status = "processing"]
MarkCompleted(c)      == [c EXCEPT !.status = "completed"]
MarkFailedWith(c, e)  == [c EXCEPT !.status = "failed", !.error = e]

OnWorker(j) == run[j] # "off" /\ web[j] # "sync"

-----------------------------------------------------------------------------
(* Redis calls. *)

JobSet(j, fields) == hash' = [hash EXCEPT ![j] = fields]

Raises == RedisFaults /\ UNCHANGED hash

\* A job_set or job_update whose failure changes nothing else: Pipeline._persist
\* swallows it, and the exception handlers of the task were raising anyway.
Persist(j, fields) == JobSet(j, fields) \/ Raises

-----------------------------------------------------------------------------
(* Parts of the steps. *)

WebTo(j, from, to) == web[j] = from /\ web' = [web EXCEPT ![j] = to]

RunTo(j, from, to) == run[j] = from /\ run' = [run EXCEPT ![j] = to]

\* What a process that stops before its engine returns leaves at output_path: a
\* context without an operation has no engine, and an engine whose input is
\* missing fails before it writes.
Interrupted(j) ==
    \/ UNCHANGED output
    \/ /\ run[j] = "engine" /\ ctx[j].full /\ upload[j] = "disk"
       /\ output' = [output EXCEPT ![j] = "partial"]

\* A delivery is over: the message goes to state m, unless a restart of Redis has
\* lost it, and the exception and the timer of the task are gone.
DeliveryEnds(j, m) ==
    /\ run'  = [run EXCEPT ![j] = "off"]
    /\ msg'  = [msg EXCEPT ![j] = IF @ = "unacked" THEN m ELSE @]
    /\ exc'  = [exc EXCEPT ![j] = "none"]
    /\ soft' = [soft EXCEPT ![j] = FALSE]

\* The copies of the message that apply_async leaves with the broker: the first one
\* is msg, two stand for all others.
Published(j, copies) ==
    /\ copies = 2 => RedisFaults
    /\ msg'   = [msg EXCEPT ![j] = IF copies = 0 THEN "none" ELSE "queued"]
    /\ twice' = [twice EXCEPT ![j] = copies = 2]

\* The broker has not learnt that a delivery ended: the message comes back, by
\* reject_on_worker_lost or after the visibility timeout.
DeliveredAgain(j) ==
    /\ losses[j] < MaxLoss
    /\ DeliveryEnds(j, "queued")
    /\ losses' = [losses EXCEPT ![j] = @ + 1]
    /\ ctx' = [ctx EXCEPT ![j] = Pending(FALSE)]

\* The acknowledgement is a call of Redis like any other.
Acknowledge(j) ==
    \/ DeliveryEnds(j, "acked") /\ UNCHANGED <<ctx, losses>>
    \/ RedisFaults /\ DeliveredAgain(j)

\* _run_sync: 200 when Pipeline.run returned, 4xx or 5xx for what it raised.
\* Nothing is written to the hash, whatever it says.
SyncAnswer(j, returned) ==
    /\ web' = [web EXCEPT ![j] = IF returned THEN "ok" ELSE "failed"]
    /\ run' = [run EXCEPT ![j] = "off"]
    /\ exc' = [exc EXCEPT ![j] = "none"]

\* Does the on_failure of this task look at the hash before it writes?
OnFailureLooks(j) == j \notin PlainJobs

-----------------------------------------------------------------------------
Init ==
    /\ web    = [j \in Jobs |-> "start"]
    /\ msg    = [j \in Jobs |-> "none"]
    /\ run    = [j \in Jobs |-> "off"]
    /\ ctx    = [j \in Jobs |-> Pending(FALSE)]
    /\ exc    = [j \in Jobs |-> "none"]
    /\ soft   = [j \in Jobs |-> FALSE]
    /\ hash   = [j \in Jobs |-> NoHash]
    /\ upload = [j \in Jobs |-> "none"]
    /\ output = [j \in Jobs |-> "none"]
    /\ runs   = [j \in Jobs |-> 0]
    /\ losses = [j \in Jobs |-> 0]
    /\ twice  = [j \in Jobs |-> FALSE]
    /\ faults \in Environments

-----------------------------------------------------------------------------
(* Plausible faults of this code, one per definition below: what the steps would *)
(* be if the code were wrong there.  No behaviour of Spec uses them.             *)

\* task_acks_on_failure_or_timeout off: a job that ran too long runs again.
HardLimitRedelivers(j) ==
    /\ OnWorker(j) /\ run[j] = "engine"
    /\ DeliveryEnds(j, "queued")
    /\ Interrupted(j)
    /\ UNCHANGED <<web, ctx, hash, upload, runs, losses, twice, faults>>

\* The except clause of _enqueue removes the upload before it answers 500.
DispatchFailureDropsInput(j) ==
    /\ \/ /\ WebTo(j, "dispatch", "confirm")
          /\ Published(j, 1)
          /\ UNCHANGED upload
       \/ /\ RedisFaults
          /\ WebTo(j, "dispatch", "failed")
          /\ \E copies \in {0, 1} : Published(j, copies)
          /\ upload' = [upload EXCEPT ![j] = "removed"]
    /\ UNCHANGED <<run, ctx, exc, soft, hash, output, runs, losses, faults>>

\* Pipeline.run swallows what the engine raises.
EngineErrorSwallowed(j) ==
    /\ RunTo(j, "engine", "complete")
    /\ Interrupted(j)
    /\ UNCHANGED <<web, msg, ctx, exc, soft, hash, upload, runs, losses, twice, faults>>

\* on_failure updates the hash whatever it says (as image_tasks and office_tasks do).
OnFailureUnconditional(j) ==
    /\ RunTo(j, "onFailureRead", "onFailureWrite")
    /\ UNCHANGED <<web, msg, ctx, exc, soft, hash, upload, output, runs, losses, twice, faults>>

\* _cleanup_inputs lets the OSError of os.remove out of Pipeline.run.
CleanupErrorRaised(j) ==
    /\ run[j] \in {"cleanOk", "cleanErr"}
    /\ \/ /\ upload[j] = "disk"
          /\ run' = [run EXCEPT ![j] = IF web[j] = "sync" THEN "off" ELSE "markFailed"]
          /\ UNCHANGED upload
       \/ /\ upload' = [upload EXCEPT ![j] = IF @ = "disk" THEN "removed" ELSE @]
          /\ run' = [run EXCEPT ![j] = IF web[j] = "sync" THEN "off" ELSE
                                      IF @ = "cleanOk" THEN "ack" ELSE "markFailed"]
    /\ web' = [web EXCEPT ![j] = IF @ = "sync" THEN "ok" ELSE @]
    /\ UNCHANGED <<msg, ctx, exc, soft, hash, output, runs, losses, twice, faults>>

\* run_or_enqueue leaves the first write to _enqueue, and _enqueue to the dispatch.
NothingWrittenBeforeDispatch(j) ==
    /\ WebTo(j, "route", "dispatch")
    /\ UNCHANGED <<msg, run, ctx, exc, soft, hash, upload, output, runs, losses, twice, faults>>

\* The second persist of Pipeline.run is missing.
CompleteNotPersisted(j) ==
    /\ RunTo(j, "complete", "cleanOk")
    /\ ctx' = [ctx EXCEPT ![j] = MarkCompleted(@)]
    /\ UNCHANGED <<web, msg, exc, soft, hash, upload, output, runs, losses, twice, faults>>

\* reject_on_worker_lost off and no visibility timeout: nobody gets the message back.
WorkerLostKeepsMessage(j) ==
    /\ OnWorker(j)
    /\ losses[j] < MaxLoss
    /\ DeliveryEnds(j, "unacked")
    /\ losses' = [losses EXCEPT ![j] = @ + 1]
    /\ ctx' = [ctx EXCEPT ![j] = Pending(FALSE)]
    /\ Interrupted(j)
    /\ UNCHANGED <<web, hash, upload, runs, twice, faults>>

\* The cleanup leaves alone the uploads of requests that were never answered 202.
SweepOnlyAccepted(j) ==
    /\ upload[j] = "disk"
    /\ web[j] = "accepted"
    /\ upload' = [upload EXCEPT ![j] = "swept"]
    /\ UNCHANGED <<web, msg, run, ctx, exc, soft, hash, output, runs, losses, twice, faults>>

-----------------------------------------------------------------------------
(* The web thread: tool_factory._handle and JobController. *)

\* The rate limit lets the request through and file_service saves the upload.
Accept(j) ==
    /\ WebTo(j, "start", "route")
    /\ upload' = [upload EXCEPT ![j] = "disk"]
    /\ UNCHANGED <<msg, run, ctx, exc, soft, hash, output, runs, losses, twice, faults>>

\* 429, or 400 from file_service, which keeps nothing on disk.
Refuse(j) ==
    /\ WebTo(j, "start", "failed")
    /\ UNCHANGED <<msg, run, ctx, exc, soft, hash, upload, output, runs, losses, twice, faults>>

\* 501: the task map has no task for an operation that must run on a worker.
\* The handler returns without removing what it has just saved.
NoAsyncTask(j) ==
    /\ WebTo(j, "start", "failed")
    /\ upload' = [upload EXCEPT ![j] = "disk"]
    /\ UNCHANGED <<msg, run, ctx, exc, soft, hash, output, runs, losses, twice, faults>>

\* run_or_enqueue: an unguarded job_set, then the sync / async decision.
RunOrEnqueue(j) ==
    \/ /\ Raises
       /\ WebTo(j, "route", "failed")
       /\ UNCHANGED <<msg, run, ctx, exc, soft, upload, output, runs, losses, twice, faults>>
    \/ /\ JobSet(j, Pending(FALSE))
       /\ WebTo(j, "route", "enqueue")
       /\ UNCHANGED <<msg, run, ctx, exc, soft, upload, output, runs, losses, twice, faults>>
    \/ /\ JobSet(j, Pending(FALSE))
       /\ WebTo(j, "route", "sync")
       /\ run' = [run EXCEPT ![j] = "begin"]
       /\ ctx' = [ctx EXCEPT ![j] = Pending(FALSE)]
       /\ UNCHANGED <<msg, exc, soft, upload, output, runs, losses, twice, faults>>

\* _enqueue, the job_set before the dispatch.
EnqueuePersist(j) ==
    /\ \/ JobSet(j, Pending(FALSE)) /\ WebTo(j, "enqueue", "dispatch")
       \/ Raises /\ WebTo(j, "enqueue", "failed")
    /\ UNCHANGED <<msg, run, ctx, exc, soft, upload, output, runs, losses, twice, faults>>

\* _enqueue, apply_async.  A publish that fails is retried (Celery's default), and
\* a failed one may have reached the broker: the message may be there more than
\* once, also when apply_async has given up and raises.
Dispatch(j) ==
    /\ \/ /\ WebTo(j, "dispatch", "confirm")
          /\ \E copies \in {1, 2} : Published(j, copies)
       \/ /\ RedisFaults
          /\ WebTo(j, "dispatch", "failed")
          /\ \E copies \in {0, 1, 2} : Published(j, copies)
    /\ UNCHANGED <<run, ctx, exc, soft, hash, upload, output, runs, losses, faults>>

\* _enqueue, the job_set after the dispatch: the whole context of the web
\* thread, whose status is still "pending", not only task_id and is_async.
Confirm(j) ==
    /\ \/ JobSet(j, Pending(TRUE)) /\ WebTo(j, "confirm", "accepted")
       \/ Raises /\ WebTo(j, "confirm", "failed")
    /\ UNCHANGED <<msg, run, ctx, exc, soft, upload, output, runs, losses, twice, faults>>

\* The gunicorn worker dies; what it was writing may be left half written.
WebCrash(j) ==
    /\ WebCrashes
    /\ web[j] \in InFlight \cup {"sync"}
    /\ web' = [web EXCEPT ![j] = "crashed"]
    /\ IF web[j] = "sync"
         THEN /\ run' = [run EXCEPT ![j] = "off"]
              /\ exc' = [exc EXCEPT ![j] = "none"]
              /\ Interrupted(j)
         ELSE UNCHANGED <<run, exc, output>>
    /\ UNCHANGED <<msg, ctx, soft, hash, upload, runs, losses, twice, faults>>

-----------------------------------------------------------------------------
(* Pipeline.run, in the web thread or in a worker child. *)

\* mark_processing and the first persist.  A context read from a partial hash has
\* no job_id: it is written under another key.
Begin(j) ==
    /\ RunTo(j, "begin", "engine")
    /\ ctx' = [ctx EXCEPT ![j] = MarkProcessing(@)]
    /\ IF ctx[j].full THEN Persist(j, ctx'[j]) ELSE UNCHANGED hash
    /\ runs' = [runs EXCEPT ![j] = @ + 1]
    /\ UNCHANGED <<web, msg, exc, soft, upload, output, losses, twice, faults>>

\* The engine returns; it has written the whole output.
EngineReturns(j) ==
    /\ RunTo(j, "engine", "complete")
    /\ ctx[j].full /\ upload[j] = "disk"
    /\ output' = [output EXCEPT ![j] = "whole"]
    /\ UNCHANGED <<web, msg, ctx, exc, soft, hash, upload, runs, losses, twice, faults>>

\* The engine raises, perhaps half way through its output.
EngineRaises(j) ==
    /\ RunTo(j, "engine", "cleanErr")
    /\ exc' = [exc EXCEPT ![j] = "engine"]
    /\ Interrupted(j)
    /\ UNCHANGED <<web, msg, ctx, soft, hash, upload, runs, losses, twice, faults>>

\* mark_completed and the second persist.
Complete(j) ==
    /\ RunTo(j, "complete", "cleanOk")
    /\ ctx' = [ctx EXCEPT ![j] = MarkCompleted(@)]
    /\ Persist(j, ctx'[j])
    /\ UNCHANGED <<web, msg, exc, soft, upload, output, runs, losses, twice, faults>>

\* The finally clause: _cleanup_inputs swallows OSError, so the file may stay.
\* Then the web thread answers, or the task body goes on.
Cleanup(j) ==
    /\ run[j] \in {"cleanOk", "cleanErr"}
    /\ \/ UNCHANGED upload
       \/ /\ ctx[j].full /\ upload[j] = "disk"
          /\ upload' = [upload EXCEPT ![j] = "removed"]
    /\ IF web[j] = "sync"
         THEN SyncAnswer(j, run[j] = "cleanOk")
         ELSE /\ run' = [run EXCEPT ![j] = IF run[j] = "cleanOk" THEN "ack" ELSE "markFailed"]
              /\ UNCHANGED <<web, exc>>
    /\ UNCHANGED <<msg, ctx, soft, hash, output, runs, losses, twice, faults>>

-----------------------------------------------------------------------------
(* The worker child: _run_job, on_failure and what Celery does around them. *)

\* A free child takes the message; it stays unacknowledged until the task ends.
Fetch(j) ==
    /\ msg[j] = "queued"
    /\ RunTo(j, "off", "load")
    /\ msg' = [msg EXCEPT ![j] = "unacked"]
    /\ UNCHANGED <<web, ctx, exc, soft, hash, upload, output, runs, losses, twice, faults>>

\* job_get and from_redis; a missing hash or a Redis error leaves the task body.
Load(j) ==
    /\ \/ /\ hash[j] # NoHash
          /\ RunTo(j, "load", "begin")
          /\ ctx' = [ctx EXCEPT ![j] = hash[j]]
       \/ /\ hash[j] = NoHash \/ RedisFaults
          /\ RunTo(j, "load", "onFailureRead")
          /\ UNCHANGED ctx
    /\ UNCHANGED <<web, msg, exc, soft, hash, upload, output, runs, losses, twice, faults>>

\* mark_failed and job_set; if job_set raises, that exception leaves instead.
MarkFailed(j) ==
    /\ RunTo(j, "markFailed", "onFailureRead")
    /\ ctx' = [ctx EXCEPT ![j] = MarkFailedWith(@, exc[j])]
    /\ Persist(j, ctx'[j])
    /\ UNCHANGED <<web, msg, exc, soft, upload, output, runs, losses, twice, faults>>

\* on_failure, job_get: a hash already marked failed is left alone.  The
\* on_failure of the image and office tasks goes straight to the write.
OnFailureRead(j) ==
    /\ \/ /\ OnFailureLooks(j) => ~MarkedFailed(hash[j])
          /\ RunTo(j, "onFailureRead", "onFailureWrite")
       \/ /\ OnFailureLooks(j)
          /\ RedisFaults \/ MarkedFailed(hash[j])
          /\ RunTo(j, "onFailureRead", "ack")
    /\ UNCHANGED <<web, msg, ctx, exc, soft, hash, upload, output, runs, losses, twice, faults>>

\* on_failure, job_update: two fields of the hash, or a new hash of two fields.
OnFailureWrite(j) ==
    /\ RunTo(j, "onFailureWrite", "ack")
    /\ Persist(j, IF hash[j] = NoHash THEN PartialHash
                  ELSE MarkFailedWith(hash[j], "generic"))
    /\ UNCHANGED <<web, msg, ctx, exc, soft, upload, output, runs, losses, twice, faults>>

\* acks_late: the message goes when the task has returned or failed.
Ack(j) ==
    /\ run[j] = "ack"
    /\ Acknowledge(j)
    /\ UNCHANGED <<web, hash, upload, output, runs, twice, faults>>

\* TASK_SOFT_TIMEOUT: the exception is raised wherever the child stands.  Inside
\* Pipeline.run's try it is caught there and wrapped (or swallowed by an engine
\* that catches everything); in the finally clause and after it, it reaches
\* _run_job as it is.
SoftLimit(j) ==
    /\ OnWorker(j) /\ ~soft[j]
    /\ soft' = [soft EXCEPT ![j] = TRUE]
    /\ \/ /\ run[j] = "engine"
          /\ UNCHANGED <<run, exc>>
       \/ /\ run[j] \in {"engine", "complete"}
          /\ run' = [run EXCEPT ![j] = "cleanErr"]
          /\ exc' = [exc EXCEPT ![j] = "rawLimit"]
       \/ /\ run[j] \in {"cleanOk", "cleanErr"}
          /\ run' = [run EXCEPT ![j] = "markFailed"]
          /\ exc' = [exc EXCEPT ![j] = "limit"]
       \/ /\ RunTo(j, "markFailed", "onFailureRead")
          /\ UNCHANGED exc
    /\ Interrupted(j)
    /\ UNCHANGED <<web, msg, ctx, hash, upload, runs, losses, twice, faults>>

\* TASK_HARD_TIMEOUT: the pool kills the child; Celery acknowledges the message
\* and no handler of the task runs.
HardLimit(j) ==
    /\ OnWorker(j) /\ run[j] = "engine"
    /\ Acknowledge(j)
    /\ Interrupted(j)
    /\ UNCHANGED <<web, hash, upload, runs, twice, faults>>

\* The child or its host dies: reject_on_worker_lost (or the visibility timeout)
\* puts the message back.
WorkerLost(j) ==
    /\ OnWorker(j)
    /\ DeliveredAgain(j)
    /\ Interrupted(j)
    /\ UNCHANGED <<web, hash, upload, runs, twice, faults>>

\* What the job's hash may say when a child with another copy has written it: one of
\* the contexts that its Pipeline.run and _run_job go through, read before or after
\* the web thread's last write ("engine" stands for any text of _run_job), or what
\* on_failure makes of a lost key.
WrittenByTwin(j) ==
    {h \in Hash : /\ h.full
                  /\ h.status # "pending" /\ h.error \in {"none", "engine", "generic"}
                  /\ h.status = "failed" => h.error # "none"
                  /\ h.is_async => web[j] = "accepted"}
    \cup (IF HashLoss THEN {PartialHash} ELSE {})

\* A message published twice is worked off twice, perhaps by two children at the
\* same time.  A child with another copy takes the steps above; the model keeps what
\* they do to what the copies share, in any order and at any time.
TwinStep(j) ==
    /\ twice[j]
    /\ \/ /\ \E h \in WrittenByTwin(j) : JobSet(j, h)
          /\ UNCHANGED <<upload, output>>
       \/ /\ \E o \in {"partial", "whole"} : output' = [output EXCEPT ![j] = o]
          /\ UNCHANGED <<hash, upload>>
       \/ /\ upload[j] = "disk"
          /\ upload' = [upload EXCEPT ![j] = "removed"]
          /\ UNCHANGED <<hash, output>>
    /\ UNCHANGED <<web, msg, run, ctx, exc, soft, runs, losses, twice, faults>>

-----------------------------------------------------------------------------
(* Redis and the disk. *)

\* REDIS_JOB_TTL or allkeys-lru takes the hash.
HashExpires(j) ==
    /\ HashLoss
    /\ hash[j] # NoHash
    /\ JobSet(j, NoHash)
    /\ UNCHANGED <<web, msg, run, ctx, exc, soft, upload, output, runs, losses, twice, faults>>

\* Redis restarts without a snapshot or an append-only file: hashes, queues and
\* the record of unacknowledged messages are gone.
RedisRestart ==
    /\ HashLoss
    /\ hash' = [j \in Jobs |-> NoHash]
    /\ msg'  = [j \in Jobs |-> IF msg[j] \in {"queued", "unacked"} THEN "lost" ELSE msg[j]]
    /\ hash' # hash \/ msg' # msg
    /\ UNCHANGED <<web, run, ctx, exc, soft, upload, output, runs, losses, twice, faults>>

\* The upload is more than UPLOAD_TTL_SEC old when the hourly cleanup runs.  A
\* request is routed within seconds of saving its upload.
SweepUpload(j) ==
    /\ upload[j] = "disk"
    /\ web[j] \notin InFlight
    /\ upload' = [upload EXCEPT ![j] = "swept"]
    /\ UNCHANGED <<web, msg, run, ctx, exc, soft, hash, output, runs, losses, twice, faults>>

\* The output is more than FILE_TTL_SEC old when the hourly cleanup runs.  The
\* steps that follow the engine take seconds.
SweepOutput(j) ==
    /\ output[j] \in {"whole", "partial"}
    /\ run[j] \notin {"complete", "cleanOk", "ack"}
    /\ output' = [output EXCEPT ![j] = "swept"]
    /\ UNCHANGED <<web, msg, run, ctx, exc, soft, hash, upload, runs, losses, twice, faults>>

-----------------------------------------------------------------------------
WebStep(j) == RunOrEnqueue(j) \/ EnqueuePersist(j) \/ Dispatch(j) \/ Confirm(j)

RunStep(j) ==
    \/ Load(j) \/ Begin(j) \/ EngineReturns(j) \/ EngineRaises(j) \/ Complete(j)
    \/ Cleanup(j) \/ MarkFailed(j) \/ OnFailureRead(j) \/ OnFailureWrite(j) \/ Ack(j)

JobStep(j) ==
    \/ Accept(j) \/ Refuse(j) \/ NoAsyncTask(j) \/ WebStep(j) \/ WebCrash(j)
    \/ Fetch(j) \/ RunStep(j) \/ SoftLimit(j) \/ HardLimit(j) \/ WorkerLost(j)
    \/ TwinStep(j)
    \/ HashExpires(j) \/ SweepUpload(j) \/ SweepOutput(j)

Next == RedisRestart \/ \E j \in Jobs : JobStep(j)

Spec == Init /\ [][Next]_vars

\* A live thread is scheduled, a queued message is taken by some child, the
\* engine ends (the subprocess and task time limits see to it) and Celery Beat
\* keeps starting the cleanup.  Requests, crashes and faults need not happen.
Fairness ==
    \A j \in Jobs :
        /\ WF_vars(WebStep(j))
        /\ WF_vars(Fetch(j))
        /\ WF_vars(RunStep(j))
        /\ WF_vars(SweepUpload(j))

FairSpec == Spec /\ Fairness

=============================================================================
