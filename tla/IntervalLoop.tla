---------------------------- MODULE IntervalLoop ----------------------------
(***************************************************************************)
(* subtractIntervals as the loop it is: one step per iteration of the      *)
(* `for` over the cuts, so that its loop invariant can be stated, and      *)
(* proved for every call.                                                  *)
(***************************************************************************)
EXTENDS Intervals

CONSTANT Calls      \* the calls made: a range and its cuts

ASSUME CallsAssumption == Calls \subseteq [range : Interval, cuts : SUBSET Interval]

\* The cuts come as an array.
ASSUME CutsAssumption == \A c \in Calls : IsFiniteSet(c.cuts)

VARIABLES
    call,   \* the arguments
    todo,   \* the clipped cuts the loop has not come to
    free    \* the pieces of the range that are left

vars == <<call, todo, free>>

-----------------------------------------------------------------------------
Init ==
    /\ call \in Calls
    /\ free = Whole(call.range)
    /\ todo = Clipped(call.range, call.cuts)

\* The cuts are sorted by their start; which of two that start together comes
\* first is left open.
Cut ==
    /\ \E c \in todo :
         /\ \A d \in todo : c.start <= d.start
         /\ free' = Subtract(free, c)
         /\ todo' = todo \ {c}
    /\ UNCHANGED call

Spec == Init /\ [][Cut]_vars

-----------------------------------------------------------------------------
(* Properties *)

Covers(pieces, p) == \E f \in pieces : f.start <= p /\ p < f.end

TypeOK ==
    /\ call \in Calls
    /\ todo \subseteq Interval
    /\ free \subseteq Interval

\* Loop invariant: an instant of the range that is still free and that no cut
\* still to come will take is an instant no cut of the call covers; so at the
\* end the free pieces are exactly the range without the cuts.
FreeIsRemainder ==
    \A p \in call.range.start .. (call.range.end - 1) :
        Covers(free, p) /\ ~Covers(todo, p) <=> ~Covers(call.cuts, p)

\* Pieces are not empty and stay inside the range.
FreeInRange ==
    \A f \in free : /\ Nonempty(f)
                    /\ call.range.start <= f.start /\ f.end <= call.range.end

\* Pieces are as long as they can be: between two of them something was cut.
FreeIsSeparate ==
    \A f, g \in free : f = g \/ f.end < g.start \/ g.end < f.start

\* The order of the cuts does not matter to the result.
OrderIsIrrelevant ==
    todo = {} => free = SubtractIntervals(call.range, call.cuts)

=============================================================================
