------------------------------ MODULE EngineCall ------------------------------
(***************************************************************************)
(* What Pipeline.run (core/pipeline.py) and the task around it rely on     *)
(* when they call an engine: the call settles, by returning or by raising, *)
(* and where it returns, the whole of what was asked is at output_path.    *)
(* Before that anything may be there, also what an earlier run of the same *)
(* job has left; where it raises, nobody looks.                            *)
(***************************************************************************)
CONSTANTS Absent, Torn, Whole

VARIABLES
    output,  \* what is at output_path
    result   \* how the call ended: "none", "returned", "raised"

Init == output \in {Absent, Torn} /\ result = "none"

Write ==
    /\ result = "none"
    /\ output' \in {Absent, Torn, Whole}
    /\ UNCHANGED result

Return ==
    /\ result = "none"
    /\ result' = "returned" /\ output' = Whole

Raise ==
    /\ result = "none"
    /\ result' = "raised" /\ output' \in {Absent, Torn, Whole}

Next == Write \/ Return \/ Raise

Spec == Init /\ [][Next]_<<output, result>>

\* The call settles.
Settles == <>(result # "none")

===============================================================================
