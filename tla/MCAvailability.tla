--------------------------- MODULE MCAvailability ---------------------------
(***************************************************************************)
(* Instances of Availability for TLC: consultant c1 serves both tenants,   *)
(* c2 only t1, c3 is not active.                                           *)
(***************************************************************************)
EXTENDS Availability, TLC

CONSTANTS k1, k2, k3, c1, c2, c3, t1, t2, ed1, ed2

Scope == [c \in Consultants |-> IF c = c2 THEN {t1} ELSE {t1, t2}]

\* Two blocks that touch: patches can make them collide.
TwoBlocks ==
    {[id |-> k1, consultant |-> c1, tenant |-> t1, start |-> 0, end |-> 1],
     [id |-> k2, consultant |-> c1, tenant |-> t2, start |-> 1, end |-> 2]}

\* No action reads the answer of a finished request, see MCBooking.
AnswersForgotten ==
    <<blocks, [r \in Editors |-> IF edit[r].pc = "idle" THEN Idle ELSE edit[r]], drawn>>

Symmetric == Permutations(Editors)
=============================================================================
