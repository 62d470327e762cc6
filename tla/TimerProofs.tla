----------------------------- MODULE TimerProofs -----------------------------
(***************************************************************************)
(* Proofs of the properties of JobTimers, for every setting of the clocks  *)
(* that keeps the order of config.py: a task ends before its temporary     *)
(* files are old, and outputs are swept before hashes expire.              *)
(***************************************************************************)
EXTENDS JobTimers, TLAPS

USE DEF Off, OneRunAtATime

LEMMA Constants ==
  /\ SoftLimit \in Nat /\ TaskLimit \in Nat /\ TaskLimit > 0 /\ UploadTTL \in Nat
  /\ TmpTTL \in Nat /\ TempTTL \in Nat /\ FileTTL \in Nat /\ JobTTL \in Nat /\ JobTTL > 0
  /\ Period \in Nat /\ MaxDelay \in Nat /\ MaxLoss \in Nat
  BY ClocksAssumption, BoundsAssumption

-----------------------------------------------------------------------------
(* The inductive invariant. *)

Age == Nat \cup {Off}

TypeInv ==
    /\ beat \in 0 .. Period
    /\ cleanup \in Off .. MaxDelay
    /\ msg \in {"queued", "unacked", "gone"}
    /\ unacked \in Nat
    /\ runs \in [Child -> Off .. TaskLimit]
    /\ scratch \in [Child -> Age]
    /\ saved \in Nat
    /\ upload \in {"disk", "removed", "swept"}
    /\ output \in Age
    /\ hash \in Age
    /\ done \in BOOLEAN
    /\ losses \in 0 .. MaxLoss

\* A child that runs the job holds its message, which was delivered when the run
\* began; its temporary files are as old as the run.
RunInv ==
    /\ \A c \in Child : runs[c] # Off =>
          msg = "unacked" /\ unacked = runs[c] /\ scratch[c] = runs[c]
    /\ OneRunAtATime

\* Only an upload that is old is swept.
UploadInv == upload = "swept" => saved > UploadTTL

\* How old an output can get: the beat still to come, or the cleanup that waits,
\* takes it.
OutputInv ==
    output # Off =>
        IF cleanup = Off THEN output <= FileTTL + Period - beat
                         ELSE output <= FileTTL + Period + cleanup

\* While the output of a completed job is there, its hash is of the same age.
HashInv == done /\ output # Off => hash = output

IInv == TypeInv /\ RunInv /\ UploadInv /\ OutputInv /\ HashInv

-----------------------------------------------------------------------------
\* An age that may grow is still an age, and does not go back.
LEMMA OlderAge ==
  ASSUME NEW a \in Age
  PROVE  /\ Older(a) \in Age /\ (Older(a) = Off <=> a = Off)
         /\ a # Off => Older(a) >= a /\ Older(a) <= a + 1
  BY Constants DEF Age, Older, Cap

\* The values the steps assign are within the types.
LEMMA AssignedValues ==
  /\ Off \in Off .. MaxDelay /\ 0 \in Off .. MaxDelay
  /\ Off \in Off .. TaskLimit /\ 0 \in Off .. TaskLimit
  /\ Off \in Age /\ 0 \in Age
  /\ Period \in 0 .. Period /\ 0 \in 0 .. MaxLoss /\ 1 .. Period \subseteq 0 .. Period
  BY Constants DEF Age

LEMMA OlderNat ==
  ASSUME NEW a \in Nat
  PROVE  Older(a) \in Nat /\ Older(a) >= a /\ Older(a) <= a + 1
  BY Constants DEF Older, Cap

\* A run that has not reached the limit stays within it.
LEMMA OlderRun ==
  ASSUME NEW r \in Off .. TaskLimit, r < TaskLimit
  PROVE  Older(r) \in Off .. TaskLimit
  BY Constants DEF Older, Cap

\* The cleanup task waits one tick longer, up to its bound.
LEMMA OlderCleanup ==
  ASSUME NEW w \in Off .. MaxDelay, w < MaxDelay
  PROVE  /\ Older(w) \in Off .. MaxDelay
         /\ Older(w) = IF w = Off THEN Off ELSE w + 1
  BY Constants, OrderAssumption DEF Older, Cap

-----------------------------------------------------------------------------
LEMMA IInvInit == Init => IInv
<1> SUFFICES ASSUME Init PROVE IInv
  OBVIOUS
<1> USE DEF Init
<1>1. TypeInv
  BY AssignedValues DEF TypeInv
<1>2. RunInv /\ UploadInv /\ OutputInv /\ HashInv
  BY DEF RunInv, UploadInv, OutputInv, HashInv
<1> QED
  BY <1>1, <1>2 DEF IInv

\* Acknowledged or not, the message is where it was or gone.
LEMMA Acknowledged ==
  ASSUME TypeInv, Acknowledge
  PROVE  msg' \in {"gone", msg} /\ losses' \in 0 .. MaxLoss
  BY Constants DEF TypeInv, Acknowledge

LEMMA TypeStep == IInv /\ [Next]_vars => TypeInv'
<1> SUFFICES ASSUME TypeInv, [Next]_vars PROVE TypeInv'
  BY DEF IInv
<1> USE AssignedValues DEF TypeInv
<1>1. ASSUME NEW c \in Child, Start(c) PROVE TypeInv'
  BY <1>1 DEF Start
<1>2. ASSUME NEW c \in Child, Finish(c) PROVE TypeInv'
  BY <1>2, Acknowledged DEF Finish
<1>3. ASSUME NEW c \in Child, Fail(c) PROVE TypeInv'
  BY <1>3, Acknowledged DEF Fail
<1>4. ASSUME NEW c \in Child, HardLimit(c) PROVE TypeInv'
  BY <1>4, Acknowledged DEF HardLimit, files
<1>5. ASSUME NEW c \in Child, WorkerLost(c) PROVE TypeInv'
  <2>1. losses' \in 0 .. MaxLoss
    BY <1>5, Constants DEF WorkerLost
  <2> QED
    BY <1>5, <2>1 DEF WorkerLost, files
<1>6. CASE StartFails
  BY <1>6 DEF StartFails, files
<1>7. CASE Redeliver
  BY <1>7 DEF Redeliver, files
<1>8. CASE Beat
  BY <1>8 DEF Beat, files
<1>9. CASE Cleanup
  BY <1>9 DEF Cleanup
<1>10. CASE Tick
  <2>1. beat' \in 0 .. Period /\ UNCHANGED <<msg, upload, done, losses>>
    BY <1>10, Constants DEF Tick
  <2>2. cleanup' \in Off .. MaxDelay
    BY <1>10, OlderCleanup DEF Tick
  <2>3. unacked' \in Nat /\ saved' \in Nat
    BY <1>10, OlderNat DEF Tick
  <2>4. runs' \in [Child -> Off .. TaskLimit]
    BY <1>10, OlderRun DEF Tick
  <2>5. scratch' \in [Child -> Age] /\ output' \in Age
    BY <1>10, OlderAge DEF Tick
  <2>6. hash' \in Age
    BY <1>10, OlderAge DEF Tick, Age
  <2> QED
    BY <2>1, <2>2, <2>3, <2>4, <2>5, <2>6
<1>11. CASE UNCHANGED vars
  BY <1>11 DEF vars, files
<1> QED
  BY <1>1, <1>2, <1>3, <1>4, <1>5, <1>6, <1>7, <1>8, <1>9, <1>10, <1>11 DEF Next

\* A message comes back only when nobody runs it: the visibility timeout is longer
\* than any run, and the temporary files of a run are too young to be swept.
LEMMA RunStep == IInv /\ [Next]_vars => RunInv'
<1> SUFFICES ASSUME TypeInv, RunInv, [Next]_vars PROVE RunInv'
  BY DEF IInv
<1> USE Constants DEF TypeInv, RunInv
<1>1. ASSUME NEW c \in Child, Start(c) PROVE RunInv'
  BY <1>1 DEF Start
<1>2. ASSUME NEW c \in Child, Finish(c) PROVE RunInv'
  BY <1>2 DEF Finish
<1>3. ASSUME NEW c \in Child, Fail(c) PROVE RunInv'
  BY <1>3 DEF Fail
<1>4. ASSUME NEW c \in Child, HardLimit(c) PROVE RunInv'
  BY <1>4 DEF HardLimit, files
<1>5. ASSUME NEW c \in Child, WorkerLost(c) PROVE RunInv'
  BY <1>5 DEF WorkerLost, files
<1>6. CASE StartFails
  BY <1>6 DEF StartFails, files
<1>7. CASE Redeliver
  <2>1. \A c \in Child : runs[c] = Off
    BY <1>7 DEF Redeliver, VisibilityTimeout
  <2> QED
    BY <1>7, <2>1 DEF Redeliver, files
<1>8. CASE Beat
  BY <1>8 DEF Beat, files
<1>9. CASE Cleanup
  <2>1. ASSUME NEW c \in Child, runs[c] # Off PROVE ~Old(scratch[c], TempTTL)
    BY <2>1, OrderAssumption DEF Old, AgeOf
  <2> QED
    BY <1>9, <2>1 DEF Cleanup
<1>10. CASE Tick
  <2>1. ASSUME NEW c \in Child, runs'[c] # Off
        PROVE  msg' = "unacked" /\ unacked' = runs'[c] /\ scratch'[c] = runs'[c]
    <3>1. runs'[c] = Older(runs[c]) /\ scratch'[c] = Older(scratch[c])
      BY <1>10 DEF Tick
    <3>2. runs[c] # Off
      BY <2>1, <3>1 DEF Older
    <3> QED
      BY <1>10, <3>1, <3>2 DEF Tick
  <2>2. ASSUME NEW c \in Child, NEW d \in Child, runs'[c] # Off, runs'[d] # Off
        PROVE  c = d
    <3>1. runs'[c] = Older(runs[c]) /\ runs'[d] = Older(runs[d])
      BY <1>10 DEF Tick
    <3>2. runs[c] # Off /\ runs[d] # Off
      BY <2>2, <3>1 DEF Older
    <3> QED
      BY <3>2
  <2> QED
    BY <2>1, <2>2
<1>11. CASE UNCHANGED vars
  BY <1>11 DEF vars, files
<1> QED
  BY <1>1, <1>2, <1>3, <1>4, <1>5, <1>6, <1>7, <1>8, <1>9, <1>10, <1>11 DEF Next

\* The age of the upload does not go back.
LEMMA UploadStep == IInv /\ [Next]_vars => UploadInv'
<1> SUFFICES ASSUME TypeInv, UploadInv, [Next]_vars PROVE UploadInv'
  BY DEF IInv
<1> USE Constants DEF TypeInv, UploadInv
<1>1. ASSUME NEW c \in Child, Finish(c) \/ Fail(c) PROVE UploadInv'
  BY <1>1 DEF Finish, Fail
<1>2. ASSUME NEW c \in Child, Start(c) \/ HardLimit(c) \/ WorkerLost(c) PROVE UploadInv'
  BY <1>2 DEF Start, HardLimit, WorkerLost, files
<1>3. CASE StartFails \/ Redeliver \/ Beat
  BY <1>3 DEF StartFails, Redeliver, Beat, files
<1>4. CASE Cleanup
  BY <1>4 DEF Cleanup, Old, AgeOf
<1>5. CASE Tick
  <2>1. saved' >= saved /\ saved' \in Nat /\ upload' = upload
    BY <1>5, OlderNat DEF Tick
  <2> QED
    BY <2>1
<1>6. CASE UNCHANGED vars
  BY <1>6 DEF vars, files
<1> QED
  BY <1>1, <1>2, <1>3, <1>4, <1>5, <1>6 DEF Next

\* An output ages only until the cleanup of the next full hour.
LEMMA OutputStep == IInv /\ [Next]_vars => OutputInv'
<1> SUFFICES ASSUME TypeInv, OutputInv, [Next]_vars PROVE OutputInv'
  BY DEF IInv
<1> USE Constants DEF TypeInv, OutputInv
<1>1. ASSUME NEW c \in Child, Finish(c) PROVE OutputInv'
  BY <1>1 DEF Finish
<1>2. ASSUME NEW c \in Child, Start(c) \/ Fail(c) \/ HardLimit(c) \/ WorkerLost(c)
      PROVE  OutputInv'
  BY <1>2 DEF Start, Fail, HardLimit, WorkerLost, files
<1>3. CASE StartFails \/ Redeliver
  BY <1>3 DEF StartFails, Redeliver, files
<1>4. CASE Beat
  BY <1>4 DEF Beat, files, Age
<1>5. CASE Cleanup
  BY <1>5 DEF Cleanup, Old, AgeOf, Age
<1>6. CASE Tick
  <2> SUFFICES ASSUME output' # Off
               PROVE  IF cleanup' = Off THEN output' <= FileTTL + Period - beat'
                                        ELSE output' <= FileTTL + Period + cleanup'
    OBVIOUS
  <2>1. /\ output \in Nat /\ output' \in Nat /\ output' <= output + 1
        /\ beat \in Nat /\ beat' = beat - 1 /\ beat' \in Nat
    BY <1>6, OlderAge DEF Tick, Age
  <2>2. cleanup' = IF cleanup = Off THEN Off ELSE cleanup + 1
    BY <1>6, OlderCleanup DEF Tick
  <2> QED
    BY <2>1, <2>2
<1>7. CASE UNCHANGED vars
  BY <1>7 DEF vars, files
<1> QED
  BY <1>1, <1>2, <1>3, <1>4, <1>5, <1>6, <1>7 DEF Next

\* A hash of the age of an output that is still there has not expired.
LEMMA HashStep == IInv /\ [Next]_vars => HashInv'
<1> SUFFICES ASSUME TypeInv, OutputInv, HashInv, [Next]_vars PROVE HashInv'
  BY DEF IInv
<1> USE Constants DEF TypeInv, HashInv
<1>1. ASSUME NEW c \in Child, Start(c) \/ Finish(c) \/ Fail(c) PROVE HashInv'
  BY <1>1 DEF Start, Finish, Fail
<1>2. ASSUME NEW c \in Child, HardLimit(c) \/ WorkerLost(c) PROVE HashInv'
  BY <1>2 DEF HardLimit, WorkerLost, files
<1>3. CASE StartFails \/ Redeliver \/ Beat
  BY <1>3 DEF StartFails, Redeliver, Beat, files
<1>4. CASE Cleanup
  BY <1>4 DEF Cleanup
<1>5. CASE Tick
  <2> SUFFICES ASSUME done', output' # Off PROVE hash' = output'
    OBVIOUS
  <2>1. output \in Nat /\ output # Off /\ output' = Older(output)
    BY <1>5, OlderAge DEF Tick, Age
  <2>2. hash = output
    BY <1>5, <2>1 DEF Tick
  <2>3. output <= FileTTL + Period + MaxDelay
    BY <2>1 DEF OutputInv
  <2>4. hash < JobTTL
    BY <2>1, <2>2, <2>3, OrderAssumption
  <2> QED
    BY <1>5, <2>1, <2>2, <2>4 DEF Tick
<1>6. CASE UNCHANGED vars
  BY <1>6 DEF vars, files
<1> QED
  BY <1>1, <1>2, <1>3, <1>4, <1>5, <1>6 DEF Next

\* The clocks keep this order in every reachable state.
THEOREM ClocksInvariance == Spec => []IInv
<1>1. IInv /\ [Next]_vars => IInv'
  BY TypeStep, RunStep, UploadStep, OutputStep, HashStep DEF IInv
<1> QED
  BY <1>1, IInvInit, PTL DEF Spec

-----------------------------------------------------------------------------
(* The properties. *)

\* The broker never hands a job to a second child while the first one runs it.
THEOREM JobsRunOnce == Spec => []OneRunAtATime
<1>1. IInv => OneRunAtATime
  BY DEF IInv, RunInv, OneRunAtATime
<1> QED
  BY <1>1, ClocksInvariance, PTL

\* The cleanup never takes what a run is working with.
THEOREM RunsKeepTheirFiles == Spec => []FilesOfRunsKept
<1>1. IInv => FilesOfRunsKept
  <2> SUFFICES ASSUME IInv, NEW c \in Child, runs[c] # Off
               PROVE  /\ scratch[c] # Off
                      /\ (saved - runs[c]) + TaskLimit <= UploadTTL => upload # "swept"
    BY DEF FilesOfRunsKept
  <2>1. scratch[c] # Off
    BY DEF IInv, RunInv
  <2>2. runs[c] \in Nat /\ runs[c] <= TaskLimit /\ saved \in Nat
    BY Constants DEF IInv, TypeInv
  <2> QED
    BY <2>1, <2>2, Constants DEF IInv, UploadInv
<1> QED
  BY <1>1, ClocksInvariance, PTL

\* As long as a finished output can be downloaded, /jobs/<id> knows the job.
THEOREM HashesOutliveOutputs == Spec => []HashOutlivesOutput
<1>1. IInv => HashOutlivesOutput
  BY DEF IInv, HashInv, HashOutlivesOutput
<1> QED
  BY <1>1, ClocksInvariance, PTL

=============================================================================
