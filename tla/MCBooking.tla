----------------------------- MODULE MCBooking -----------------------------
(***************************************************************************)
(* Instances of Booking for TLC.  The cfg files choose among the values    *)
(* below; model values stand for ObjectIds and keys.                       *)
(***************************************************************************)
EXTENDS BookingRefinement, TLC

CONSTANTS b1, b2, b3, b4, r1, r2, r3, e1, e2, c1, c2, t1, t2, k1

\* Time is in units of the cutoff: MinNotice is 0 or 1.
Early == [start |-> 2, end |-> 4]
Late  == [start |-> 4, end |-> 6]

TwoSlots == {Early, Late}

OneTenant == [e \in Employees |-> t1]
TwoTenants == [e \in Employees |-> IF e = e1 THEN t1 ELSE t2]
ServesAll  == [c \in Consultants |-> Tenants]

\* A closure that fits its outcome and one that does not.
SomeClosures == {<<"completed", "delivered_completed">>,
                 <<"cancelled", "no_show_employee">>}
AllClosures  == Outcomes \X Reasons

\* Every consultant is published for every tenant all the time.
OneBlockEach == Consultants \X Tenants
AllDay == {[id |-> i, consultant |-> i[1], tenant |-> i[2], start |-> 0, end |-> 8] :
              i \in OneBlockEach}

\* No action and no state invariant reads the answer of a finished request;
\* action properties see it in the step that gives it.  Two states that differ
\* only there are one state.
Forgotten(q) ==
    IF q.pc = "idle" THEN Idle ELSE q

AnswersForgotten ==
    <<bookings, idem, audit, blocks, [r \in Requests |-> Forgotten(req[r])],
      now, faults, origin>>

Symmetric == Permutations(Bookings) \cup Permutations(Requests) \cup Permutations(Employees)
=============================================================================
