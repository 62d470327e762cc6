------------------------------- MODULE MCCanvas -------------------------------
(* CanvasProperties for TLC: a handful of requests, alike addresses. *)
EXTENDS CanvasProperties, TLC

Change(p, f) == [page |-> p, box |-> TRUE, blank |-> FALSE, face |-> f]
Deletion(p) == [Change(p, "regular") EXCEPT !.blank = TRUE]
Boxless(c) == [c EXCEPT !.box = FALSE]

SaveOf(n, chs) == [kind |-> "save", pages |-> n, changes |-> chs]
ParseOf(n) == [kind |-> "parse", pages |-> n, changes |-> <<>>]

R(p) == Change(p, "regular")

MCRequests == {
    ParseOf(0), ParseOf(2), ParseOf(3),
    SaveOf(0, <<R(0)>>), SaveOf(2, <<>>), SaveOf(2, <<R(0), R(0), R(0), R(0)>>),
    SaveOf(2, <<R(Unreadable)>>), SaveOf(2, <<R(-1), R(2)>>),
    SaveOf(2, <<R(0), R(1), R(-1)>>), SaveOf(3, <<R(2), Deletion(0), R(1)>>),
    SaveOf(1, <<Change(0, "bold"), Change(0, "bolditalic"), Change(0, "bold")>>),
    SaveOf(2, <<Boxless(Deletion(0)), Deletion(1), Boxless(R(1))>>) }

IdSymmetry == Permutations(Ids) \cup Permutations(Threads)

===============================================================================
