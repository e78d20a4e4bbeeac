---------------------------- MODULE MCIntervals ----------------------------
(***************************************************************************)
(* Every call with at most three cuts between the instants 0 and Last,     *)
(* reversed and empty intervals included, on a range that cuts can cross   *)
(* on either side and on an empty range.                                   *)
(***************************************************************************)
EXTENDS IntervalLoop

CONSTANT Last

Cuts == [start : 0..Last, end : 0..Last]

Ranges == {[start |-> 1, end |-> Last - 1], [start |-> 2, end |-> 2]}

BoundedCalls ==
    [range : Ranges, cuts : {{}} \cup {{a, b, c} : a, b, c \in Cuts}]
=============================================================================
