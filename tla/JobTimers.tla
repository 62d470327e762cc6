------------------------------ MODULE JobTimers ------------------------------
(***************************************************************************)
(* The clocks that run while a job is queued and processed: the time       *)
(* limits and the visibility timeout of Celery (workers/celery_app.py), the*)
(* expiry of the Redis hash (services/redis_service.py) and the hourly     *)
(* cleanup with its ages (tasks/system_tasks.py).  JobLifecycle lets these *)
(* events happen whenever its guards allow; this module has the clocks and *)
(* shows which orders of events the configured values exclude.             *)
(*                                                                         *)
(* One asynchronous job; ages are counted in ticks.                        *)
(***************************************************************************)
EXTENDS Integers

CONSTANTS
    Child,       \* the children of all workers
    SoftLimit,   \* TASK_SOFT_TIMEOUT
    TaskLimit,   \* TASK_HARD_TIMEOUT
    UploadTTL,   \* UPLOAD_TTL_SEC
    TmpTTL,      \* the age of an orphaned .tmp fragment
    TempTTL,     \* TEMP_TTL_SEC
    FileTTL,     \* FILE_TTL_SEC
    JobTTL,      \* REDIS_JOB_TTL
    Period,      \* crontab(minute=0)
    MaxDelay,    \* bound: ticks the cleanup task waits in the fast queue
    MaxLoss      \* bound: deliveries that end without an acknowledgement

ASSUME ClocksAssumption ==
    {SoftLimit, TaskLimit, UploadTTL, TmpTTL, TempTTL, FileTTL, JobTTL, Period} \subseteq Nat \ {0}
ASSUME BoundsAssumption == {MaxDelay, MaxLoss} \subseteq Nat
ASSUME LimitsAssumption == SoftLimit < TaskLimit

\* The order of the values in config.py: 2100 s of a task and 3600 s of temp/, and
\* 7200 s of outputs swept every hour against 14400 s of hashes.
ASSUME OrderAssumption == TaskLimit <= TempTTL /\ FileTTL + Period + MaxDelay < JobTTL

VARIABLES
    beat,     \* ticks until the next full hour
    cleanup,  \* how long the cleanup task has been waiting, or Off
    msg,      \* the message of the job
    unacked,  \* how long ago the message was last delivered
    runs,     \* for each child: how long it has been running the job, or Off
    scratch,  \* for each child: the age of the temporary files of its run, or Off
    saved,    \* how long ago the upload was saved
    upload,   \* the input file
    output,   \* the age of the output file, or Off
    hash,     \* the age of the last write to job:<id>, or Off when it has expired
    done,     \* does the hash say completed?
    losses    \* deliveries whose end the broker did not learn

files == <<scratch, upload, output>>
vars == <<beat, cleanup, msg, unacked, runs, files, saved, hash, done, losses>>

Off == -1

Cap == FileTTL + JobTTL
Older(age) == IF age = Off \/ age = Cap THEN age ELSE age + 1

Init ==
    /\ beat \in 1 .. Period /\ cleanup = Off
    /\ msg = "queued" /\ unacked = 0
    /\ runs = [c \in Child |-> Off] /\ scratch = [c \in Child |-> Off]
    /\ saved = 0 /\ upload = "disk" /\ output = Off
    /\ hash = 0 /\ done = FALSE /\ losses = 0

-----------------------------------------------------------------------------
\* Fault: the visibility timeout follows the soft limit.
VisibilityOfSoftLimit == SoftLimit

\* visibility_timeout = TASK_HARD_TIMEOUT + 60
VisibilityTimeout == TaskLimit + 1

\* Fault: every folder is swept as the fragments are.
FragmentAge(ttl) == TmpTTL

\* Fault: every folder is kept as long as the hashes.
AgeOfHash(ttl) == JobTTL

\* The age a sweep lets a file reach.
AgeOf(ttl) == ttl

Old(age, ttl) == age # Off /\ age > AgeOf(ttl)

-----------------------------------------------------------------------------
\* The message is acknowledged, or Redis refuses that and it stays where it is until
\* the visibility timeout.
Acknowledge ==
    \/ msg' = "gone" /\ UNCHANGED losses
    \/ /\ losses < MaxLoss
       /\ losses' = losses + 1
       /\ UNCHANGED msg

\* A free child takes the message (worker_prefetch_multiplier = 1 with acks_late:
\* nothing is delivered ahead), finds the hash and marks it processing.
Start(c) ==
    /\ msg = "queued" /\ runs[c] = Off /\ hash # Off
    /\ msg' = "unacked" /\ unacked' = 0
    /\ runs' = [runs EXCEPT ![c] = 0]
    /\ scratch' = [scratch EXCEPT ![c] = 0]
    /\ hash' = 0 /\ done' = FALSE
    /\ UNCHANGED <<beat, cleanup, saved, upload, output, losses>>

\* The hash has expired: "Job not found in Redis", and on_failure writes a new one.
StartFails ==
    /\ msg = "queued" /\ hash = Off
    /\ msg' = "gone"
    /\ hash' = 0 /\ done' = FALSE
    /\ UNCHANGED <<beat, cleanup, unacked, runs, files, saved, losses>>

\* The output is written, the result stored, the input removed, the message
\* acknowledged.
Finish(c) ==
    /\ runs[c] # Off
    /\ runs' = [runs EXCEPT ![c] = Off]
    /\ scratch' = [scratch EXCEPT ![c] = Off]
    /\ output' = 0 /\ hash' = 0 /\ done' = TRUE
    /\ upload' = IF upload = "disk" THEN "removed" ELSE upload
    /\ Acknowledge
    /\ UNCHANGED <<beat, cleanup, unacked, saved>>

\* The engine raised, or the soft limit did: failed is stored.
Fail(c) ==
    /\ runs[c] # Off
    /\ runs' = [runs EXCEPT ![c] = Off]
    /\ scratch' = [scratch EXCEPT ![c] = Off]
    /\ hash' = 0 /\ done' = FALSE
    /\ upload' = IF upload = "disk" THEN "removed" ELSE upload
    /\ Acknowledge
    /\ UNCHANGED <<beat, cleanup, unacked, saved, output>>

\* The hard limit: the child is killed and the message acknowledged.
HardLimit(c) ==
    /\ runs[c] = TaskLimit
    /\ runs' = [runs EXCEPT ![c] = Off]
    /\ Acknowledge
    /\ UNCHANGED <<beat, cleanup, unacked, files, saved, hash, done>>

\* A child dies.  Its parent rejects the message at once; when the whole host is
\* gone the message stays unacknowledged.
WorkerLost(c) ==
    /\ runs[c] # Off /\ losses < MaxLoss
    /\ runs' = [runs EXCEPT ![c] = Off]
    /\ losses' = losses + 1
    /\ msg' \in {"queued", msg}
    /\ UNCHANGED <<beat, cleanup, unacked, files, saved, hash, done>>

\* The broker puts back what has been unacknowledged for too long.
Redeliver ==
    /\ msg = "unacked" /\ unacked >= VisibilityTimeout
    /\ msg' = "queued"
    /\ UNCHANGED <<beat, cleanup, unacked, runs, files, saved, hash, done, losses>>

\* Celery Beat publishes the cleanup on the hour.
Beat ==
    /\ beat = 0
    /\ beat' = Period
    /\ cleanup' = IF cleanup = Off THEN 0 ELSE cleanup
    /\ UNCHANGED <<msg, unacked, runs, files, saved, hash, done, losses>>

\* cleanup_output_files runs on a fast worker and sweeps the three folders.
Cleanup ==
    /\ cleanup # Off
    /\ cleanup' = Off
    /\ upload' = IF upload = "disk" /\ Old(saved, UploadTTL) THEN "swept" ELSE upload
    /\ scratch' = [c \in Child |-> IF Old(scratch[c], TempTTL) THEN Off ELSE scratch[c]]
    /\ output' = IF Old(output, FileTTL) THEN Off ELSE output
    /\ UNCHANGED <<beat, msg, unacked, runs, saved, hash, done, losses>>

\* Time passes unless something is due: the kill of a child, the beat, a cleanup
\* that has waited MaxDelay.
Tick ==
    /\ \A c \in Child : runs[c] < TaskLimit
    /\ beat > 0 /\ cleanup < MaxDelay
    /\ beat' = beat - 1
    /\ cleanup' = Older(cleanup) /\ saved' = Older(saved) /\ output' = Older(output)
    /\ unacked' = IF msg = "unacked" THEN Older(unacked) ELSE 0
    /\ runs' = [c \in Child |-> Older(runs[c])]
    /\ scratch' = [c \in Child |-> Older(scratch[c])]
    /\ hash' = IF hash >= JobTTL THEN Off ELSE Older(hash)
    /\ UNCHANGED <<msg, upload, done, losses>>

Next ==
    \/ \E c \in Child : Start(c) \/ Finish(c) \/ Fail(c) \/ HardLimit(c) \/ WorkerLost(c)
    \/ StartFails \/ Redeliver \/ Beat \/ Cleanup \/ Tick

Spec == Init /\ [][Next]_vars

-----------------------------------------------------------------------------
(* Properties. *)

\* A message comes back only when the child that had it is gone: however many children
\* there are, one delivery of the job is never worked on while another is.
OneRunAtATime == \A c, d \in Child : runs[c] # Off /\ runs[d] # Off => c = d

\* The cleanup never takes the temporary files of a run in progress, and its input
\* only if the job waited longer than UploadTTL - TaskLimit before that run.
FilesOfRunsKept ==
    \A c \in Child : runs[c] # Off =>
        /\ scratch[c] # Off
        /\ (saved - runs[c]) + TaskLimit <= UploadTTL => upload # "swept"

\* As long as the output of a completed job is there to download, /jobs/<id> still
\* knows the job.
HashOutlivesOutput == done /\ output # Off => hash # Off

=============================================================================
