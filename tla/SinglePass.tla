------------------------------ MODULE SinglePass ------------------------------
(***************************************************************************)
(* What a caller of chunked_pdf_processor relies on (utils/pdf_utils.py,   *)
(* its docstring): True means that output_path holds the document a single *)
(* pass would have written; False means that output_path was not touched,  *)
(* so that a single pass can still write it.                               *)
(***************************************************************************)
EXTENDS Integers, Sequences

CONSTANT TotalPages   \* pages of the source document

VARIABLES
    output,  \* the page ranges that output_path holds, in their order
    result   \* what the call is going to return

\* The ranges, half open as in the code, cover the pages 0 .. TotalPages - 1 one
\* after the other.
Tiles(rs) ==
    /\ Len(rs) > 0 /\ rs[1].first = 0 /\ rs[Len(rs)].end = TotalPages
    /\ \A i \in 1 .. Len(rs) : rs[i].first < rs[i].end
    /\ \A i \in 1 .. Len(rs) - 1 : rs[i].end = rs[i + 1].first

Init == output = <<>> /\ result = "none"

Succeed == result = "none" /\ result' = "true" /\ Tiles(output')

GiveUp == result = "none" /\ result' = "false" /\ UNCHANGED output

Spec == Init /\ [][Succeed \/ GiveUp]_<<output, result>>

=============================================================================
