----------------------------- MODULE Intervals -----------------------------
(***************************************************************************)
(* interval.util.ts: what is left of a range once a list of intervals is   *)
(* cut out of it.  The listings of free and bookable slots rest on it.     *)
(*                                                                         *)
(* The cuts are a set, since cutting twice changes nothing, and so are the *)
(* free pieces, since every caller sorts them before it answers.           *)
(***************************************************************************)
EXTENDS Integers, FiniteSetsExt

Interval == [start : Int, end : Int]

Later(x, y)   == IF x > y THEN x ELSE y
Earlier(x, y) == IF x < y THEN x ELSE y

Nonempty(f) == f.start < f.end

\* The cut c leaves the piece f alone.
Misses(f, c) == c.end <= f.start \/ c.start >= f.end

\* Mutant: the part after the cut begins where the cut begins.
SubtractOneHalf(f, c) ==
    IF Misses(f, c)
      THEN {f}
      ELSE {p \in {[start |-> f.start, end |-> Earlier(c.start, f.end)],
                   [start |-> Later(c.start, f.start), end |-> f.end]} : Nonempty(p)}

\* Mutant: the final filter is missing.
SubtractOneUnfiltered(f, c) ==
    IF Misses(f, c)
      THEN {f}
      ELSE {[start |-> f.start, end |-> Earlier(c.start, f.end)],
            [start |-> Later(c.end, f.start), end |-> f.end]}

\* What the cut c leaves of the piece f: the part before it, the part after it,
\* both filtered by start < end (which says what the two `if`s say as well).
SubtractOne(f, c) ==
    IF Misses(f, c)
      THEN {f}
      ELSE {p \in {[start |-> f.start, end |-> Earlier(c.start, f.end)],
                   [start |-> Later(c.end, f.start), end |-> f.end]} : Nonempty(p)}

\* flatMap over the pieces.
Subtract(pieces, c) == UNION {SubtractOne(f, c) : f \in pieces}

Clip(c, range) ==
    [start |-> Later(c.start, range.start), end |-> Earlier(c.end, range.end)]

\* Mutant: empty cuts are not filtered out.
ClippedUnfiltered(range, cuts) ==
    {Clip(c, range) : c \in cuts}

\* The cuts clipped to the range, without those that become empty.
Clipped(range, cuts) ==
    {k \in {Clip(c, range) : c \in cuts} : Nonempty(k)}

Whole(range) == IF Nonempty(range) THEN {range} ELSE {}

\* The function as a whole, for the modules that call it.
SubtractIntervals(range, cuts) ==
    FoldSet(LAMBDA c, pieces : Subtract(pieces, c),
            Whole(range), Clipped(range, cuts))

=============================================================================
