---------------------------- MODULE JobProperties ----------------------------
(***************************************************************************)
(* What the handling of one job promises, over JobLifecycle.               *)
(***************************************************************************)
EXTENDS JobLifecycle

\* Every variable stays within the values the code gives it.
TypeOK ==
    /\ web    \in [Jobs -> WebPC]
    /\ msg    \in [Jobs -> MsgState]
    /\ run    \in [Jobs -> RunPC]
    /\ ctx    \in [Jobs -> Hash]
    /\ exc    \in [Jobs -> ErrorText]
    /\ soft   \in [Jobs -> BOOLEAN]
    /\ hash   \in [Jobs -> Hash \cup {NoHash}]
    /\ upload \in [Jobs -> {"none", "disk", "removed", "swept"}]
    /\ output \in [Jobs -> {"none", "partial", "whole", "swept"}]
    /\ runs   \in [Jobs -> Nat]
    /\ losses \in [Jobs -> 0 .. MaxLoss]
    /\ twice  \in [Jobs -> BOOLEAN]
    /\ faults \in Environments

\* A message starts the engine once, and once more for each delivery whose end the
\* broker did not learn (a dead worker, a refused acknowledgement): nothing else that
\* Redis loses or refuses, no time limit and no failure makes it run again.  A copy
\* that a retry of apply_async left has deliveries of its own.
EngineStartsBounded == \A j \in Jobs : runs[j] <= losses[j] + 1

\* While a message that no worker has yet taken to its end is waiting, the input
\* it names is on disk, unless the cleanup took it for an orphan: no error path
\* of the web thread removes the input of a message it may have published.
InputsOutliveQueue ==
    \A j \in Jobs :
        msg[j] = "queued" /\ losses[j] = 0 /\ ~twice[j] => upload[j] \in {"disk", "swept"}

\* job_controller.py:92, "Write job to Redis BEFORE dispatching so the worker
\* always finds it": as long as Redis keeps its keys, every message that is out
\* names a hash with all its fields, at any redelivery too.
DispatchedJobHasHash ==
    ~HashLoss => \A j \in Jobs :
        msg[j] \in {"queued", "unacked"} => hash[j] # NoHash /\ hash[j].full

\* A hash that says completed, on whose strength /jobs/<id> hands out a download
\* link, stands for an output the engine finished (and that the cleanup may have
\* taken since).  A redelivery could be overwriting it: then the hash must have
\* left completed first, which only a refused Redis write can prevent.  A message
\* published twice may have one child write over what the other has finished.
CompletedHasOutput ==
    \A j \in Jobs :
        /\ hash[j] # NoHash /\ hash[j].status = "completed"
        /\ (losses[j] = 0 /\ ~twice[j]) \/ ~RedisFaults
        => output[j] \in {"whole", "swept"}

\* When the message is gone, the hash tells the outcome: completed exactly if the
\* worker completed, failed if it failed.  Provided the worker read the job after
\* the web thread's last write (is_async is in its context) and Redis took every
\* write; the late write of the web thread is what would hide a finished job.
HashAgreesWhenAcked ==
    ~RedisFaults /\ ~HashLoss => \A j \in Jobs :
        msg[j] = "acked" /\ ctx[j].is_async =>
            /\ hash[j].status = "completed" <=> ctx[j].status = "completed"
            /\ ctx[j].status = "failed" => hash[j].status = "failed"
            /\ hash[j].status # "pending"

\* 200 is only answered for a finished output, whose hash (if Redis took the
\* write and kept it) says completed: /jobs/<id> and the answer agree.
SyncAnswerAgrees ==
    \A j \in Jobs : web[j] = "ok" =>
        /\ output[j] \in {"whole", "swept"}
        /\ ~RedisFaults /\ ~HashLoss => hash[j] # NoHash /\ hash[j].status = "completed"

-----------------------------------------------------------------------------
(* The inductive invariant behind the safety properties. *)

BeforeDispatch == {"start", "route", "enqueue", "dispatch"}

HashCompleted(h) == h # NoHash /\ h.status = "completed"

\* A message waits while no process holds the job; a request whose message is not
\* published, or that runs inline, has no message.
MessageInv(j) ==
    /\ msg[j] = "queued" => run[j] = "off"
    /\ web[j] \in BeforeDispatch => msg[j] = "none" /\ run[j] = "off"
    /\ web[j] = "sync" => msg[j] = "none"
    /\ twice[j] => RedisFaults /\ web[j] \notin BeforeDispatch \cup {"sync", "ok"}

\* A start that may still come has been paid for by a loss.
StartInv(j) ==
    /\ runs[j] <= losses[j] + 1
    /\ msg[j] = "queued" \/ run[j] \in {"load", "begin"} => runs[j] <= losses[j]
    /\ web[j] \in BeforeDispatch => runs[j] = 0

\* The input is there when the message goes out, and only a run removes it.
InputInv(j) ==
    /\ web[j] \in {"route", "enqueue", "dispatch"} => upload[j] = "disk"
    /\ msg[j] = "queued" /\ losses[j] = 0 /\ ~twice[j] => upload[j] \in {"disk", "swept"}

\* As long as Redis keeps its keys, nobody ever sees less than a whole hash.
HashInv(j) ==
    ~HashLoss =>
        /\ hash[j] # NoHash => hash[j].full
        /\ \/ web[j] \in {"enqueue", "dispatch", "confirm"}
           \/ msg[j] # "none" \/ run[j] # "off" \/ twice[j]
           => hash[j] # NoHash
        /\ ctx[j].full

\* What the process has yet to write cannot spoil a completed hash, or a failed
\* one that carries its own text.
VerdictInv(j) ==
    /\ exc[j] # "generic"
    /\ run[j] \in {"off", "load", "begin"} \/ web[j] = "sync" => ~soft[j]
    /\ run[j] = "onFailureWrite" /\ j \notin PlainJobs /\ ~twice[j] =>
          ~(MarkedFailed(hash[j]) /\ hash[j].error # "generic")
    /\ HashCompleted(hash[j]) /\ losses[j] = 0 /\ ~soft[j] /\ ~twice[j] =>
          /\ run[j] \in {"off", "cleanOk", "ack"}
          /\ msg[j] # "queued"
          /\ web[j] \notin BeforeDispatch

IInv ==
    TypeOK /\ \A j \in Jobs :
        MessageInv(j) /\ StartInv(j) /\ InputInv(j) /\ HashInv(j) /\ VerdictInv(j)

-----------------------------------------------------------------------------
(* What it takes for the answers and the hash to agree with the disk. *)

\* What the engine finished is there until the process has moved on, and a hash
\* that says completed is not contradicted by an engine that is writing again.
OutputInv(j) ==
    /\ run[j] \in {"complete", "cleanOk"} /\ ~twice[j] => output[j] = "whole"
    /\ HashCompleted(hash[j]) /\ ((losses[j] = 0 /\ ~twice[j]) \/ ~RedisFaults) =>
          /\ output[j] \in {"whole", "swept"}
          /\ ~(run[j] = "engine" /\ ctx[j].full)

\* A request that ran inline has no message and, once answered, no process; what
\* Pipeline.run wrote last is still there.
AnswerInv(j) ==
    /\ web[j] = "ok" =>
          msg[j] = "none" /\ run[j] = "off" /\ output[j] \in {"whole", "swept"}
    /\ /\ ~RedisFaults /\ ~HashLoss
       /\ web[j] = "ok" \/ (web[j] = "sync" /\ run[j] = "cleanOk")
       => HashCompleted(hash[j])

\* A process that has read is_async read the hash after the last write of the web
\* thread, so from there on the hash follows its context, but for on_failure.
AgreeInv(j) ==
    /\ msg[j] = "acked" => run[j] = "off"
    /\ (hash[j] # NoHash /\ hash[j].is_async) \/ ctx[j].is_async => web[j] = "accepted"
    /\ ~RedisFaults /\ ~HashLoss /\ ctx[j].is_async =>
          /\ run[j] \in {"engine", "complete", "cleanOk", "cleanErr", "markFailed",
                         "onFailureRead", "onFailureWrite"}
             => hash[j].status = ctx[j].status
          /\ run[j] \in {"engine", "complete", "cleanErr"} => ctx[j].status = "processing"
          /\ run[j] = "cleanOk" => ctx[j].status = "completed"
          /\ run[j] = "markFailed" =>
                \/ ctx[j].status = "processing"
                \/ ctx[j].status = "completed" /\ soft[j]
          /\ run[j] \in {"onFailureRead", "onFailureWrite"} =>
                ctx[j].status \in {"processing", "failed"}
          /\ run[j] = "ack" \/ msg[j] = "acked" =>
                \/ hash[j].status = ctx[j].status /\ ctx[j].status # "pending"
                \/ hash[j].status = "failed" /\ ctx[j].status = "processing"

OutcomeInv ==
    IInv /\ \A j \in Jobs : OutputInv(j) /\ AnswerInv(j) /\ AgreeInv(j)

-----------------------------------------------------------------------------
(* What a step may never do. *)

\* tasks/pdf_tasks.py:33-35: on_failure does not clobber the better message that
\* _run_job wrote.  From one failed hash to the next, the text stays, if the
\* message was published once.
FriendlyErrorKept ==
    [][\A j \in Jobs \ PlainJobs :
          /\ MarkedFailed(hash[j]) /\ hash[j].error # "generic" /\ ~twice[j]
          /\ MarkedFailed(hash'[j])
          => hash'[j].error # "generic"]_vars

\* A job the client has seen completed turns to failed only because the broker did
\* not learn that its delivery ended, because it was published twice, or because the
\* soft limit fired after the result had been written: nothing else after
\* mark_completed may fail it.
CompletedFailsOnlyAfterLoss ==
    [][\A j \in Jobs :
          /\ hash[j] # NoHash /\ hash[j].status = "completed"
          /\ MarkedFailed(hash'[j])
          => losses[j] > 0 \/ twice[j] \/ soft[j]]_vars

\* job_controller.py:95, "Update Redis with task_id/is_async fields set by
\* dispatch()": the write after the dispatch changes nothing else of the job.
ConfirmUpdatesOnlyDispatchFields ==
    [][\A j \in Jobs :
          web[j] = "confirm" /\ web'[j] = "accepted" /\ hash[j] # NoHash
          => hash'[j].status = hash[j].status]_vars

-----------------------------------------------------------------------------
(* What must happen. *)

\* Every published message is settled: acknowledged at the end of some delivery,
\* however many workers die on the way (or gone with a Redis restart).
PublishedSettles ==
    \A j \in Jobs : msg[j] = "queued" ~> msg[j] \in {"acked", "lost"}

\* Whatever path the request takes (an early return, a refused write, a crash of
\* either side, a failed os.remove), its input does not stay on disk for ever.
UploadsDrain ==
    \A j \in Jobs : upload[j] = "disk" ~> upload[j] # "disk"

=============================================================================
