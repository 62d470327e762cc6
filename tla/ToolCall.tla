------------------------------- MODULE ToolCall -------------------------------
(***************************************************************************)
(* The shape most engine functions share: check what was asked, open the   *)
(* input, do the units of a plan one after the other, and put the result   *)
(* at ctx.output_path.  The modules of the tools say what each of them     *)
(* checks and plans; this one, how the work gets from there to the file.   *)
(*                                                                         *)
(* A soft time limit is an exception like any other here: it may strike    *)
(* wherever one can be raised.                                             *)
(***************************************************************************)
EXTENDS Integers, Sequences, FiniteSets

CONSTANTS
    Calls,       \* the calls that are made
    StreamAbove  \* _ZIP_STREAM_THRESHOLD_PAGES

ASSUME StreamAssumption == StreamAbove \in Nat

VARIABLES
    call,   \* the call: its tool and what it was given; it never changes
    pc,     \* where it stands
    todo,   \* the units that have not been done
    built,  \* what the units that have been done made, in memory
    file,   \* what is at output_path
    temps   \* the temporary files and directories it has made and not removed

vars == <<call, pc, todo, built, file, temps>>

-----------------------------------------------------------------------------
(* Values. *)

Tool == call.tool

Settled == {"returned", "raised"}

\* A file is "open" until all of it is written.  "stale" is what an earlier run
\* of the same job has left: a task may be delivered again.
NoFile == [state |-> "absent", holds |-> <<>>]
StaleFile == [state |-> "stale", holds |-> <<>>]
Opened(entries) == [state |-> "open", holds |-> entries]
Closed(entries) == [state |-> "closed", holds |-> entries]

\* What a write that fails half way leaves.
TornFiles(entries) == {Opened(SubSeq(entries, 1, k)) : k \in 0 .. Len(entries)}

\* The numbers of S, one after the other.
Ascending(S) ==
    [k \in 1 .. Cardinality(S) |-> CHOOSE n \in S : Cardinality({m \in S : m < n}) = k - 1]

\* The members of a list at the places of S, in their order.
At(list, S) == [k \in 1 .. Cardinality(S) |-> list[Ascending(S)[k]]]

-----------------------------------------------------------------------------
(* Plausible faults of this code; no behaviour of Spec uses them. *)

\* The document is saved after each unit.
SavedAsItGrows(entries) == file' = Closed(entries)

\* The clean-up is at the end of the function, not in a finally.
CleanedOnSuccess == temps' = IF pc' = "returned" THEN {} ELSE temps

-----------------------------------------------------------------------------
(* Steps. *)

\* A ValidationError or a missing library, before anything is done.
Refuse ==
    /\ pc = "check" /\ pc' = "raised"
    /\ UNCHANGED <<call, todo, built, file, temps>>

\* The input is open and the plan is made.
Start(plan) ==
    /\ pc = "check" /\ pc' = "work"
    /\ todo' = plan
    /\ UNCHANGED <<call, built>>

\* One pass of the loop.
Pass(entries) ==
    /\ pc = "work" /\ todo # <<>>
    /\ todo' = Tail(todo) /\ built' = built \o entries
    /\ UNCHANGED <<call, pc>>

\* A document in memory is written when it is complete, not before.
InMemory(entries) == UNCHANGED file

\* finally: what the call has made beside its output is removed.
CleanUp == temps' = {}

\* An exception in the loop.
Break ==
    /\ pc = "work" /\ pc' = "raised"
    /\ UNCHANGED <<call, todo, built>>

\* The result is at output_path.
Return(entries) ==
    /\ pc' = "returned" /\ built' = entries /\ file' = Closed(entries)
    /\ UNCHANGED <<call, todo>>

\* The loop is over, and so is the call.
Finish(entries) == pc = "work" /\ todo = <<>> /\ Return(entries)

\* The loop is over, and the result cannot be written.
FailToWrite ==
    /\ pc = "work" /\ todo = <<>>
    /\ pc' = "raised" /\ file' \in {file} \cup TornFiles(built)
    /\ UNCHANGED <<call, todo, built>>

-----------------------------------------------------------------------------
(* Archives. *)

\* _open_zip_writer: one with many entries is written to the disk at once.
OpenZip(count) ==
    IF count > StreamAbove THEN file' = Opened(<<>>) ELSE UNCHANGED file

\* zf.writestr
InZip(entries) ==
    IF file.state = "open" THEN file' = Opened(entries) ELSE UNCHANGED file

\* _finalise_zip, in finally: also what an exception interrupts becomes an
\* archive, of the entries it has by then.
BreakZip == Break /\ file' \in {Closed(built)} \cup TornFiles(built)

-----------------------------------------------------------------------------

Init ==
    /\ call \in Calls
    /\ pc = "check"
    /\ todo = <<>> /\ built = <<>>
    /\ file \in {NoFile, StaleFile}
    /\ temps = {}

===============================================================================
