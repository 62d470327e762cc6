-------------------------------- MODULE Engines --------------------------------
(***************************************************************************)
(* One call of an engine: the tools together.  The tool of the call says   *)
(* whose actions apply.                                                    *)
(***************************************************************************)
EXTENDS PageTools, EditTools, OptimizeTools, ImageTools, OfficeTools,
        TextTools

Next == PageNext \/ EditNext \/ OptimizeNext \/ ImageNext \/ OfficeNext \/ TextNext

Spec == Init /\ [][Next]_vars

\* The functions are sequential, and what they call outside ends by itself or
\* at its timeout: a call goes on while it can.
FairSpec == Spec /\ WF_vars(Next)

===============================================================================
