----------------------------- MODULE MCOverlap -----------------------------
(***************************************************************************)
(* An instance of Scheduling for TLC in which sessions of one consultant   *)
(* can come to overlap: e1 and e2 are employees of different tenants, the  *)
(* consultant has published one block, for the tenant of e1.               *)
(***************************************************************************)
EXTENDS Scheduling, TLC

CONSTANTS b1, b2, r1, r2, e1, e2, c1, t1, t2, k1, k2, ed1

TwoTenants == [e \in Employees |-> IF e = e1 THEN t1 ELSE t2]
ServesAll == [c \in Consultants |-> Tenants]

\* A session and one that covers it.
TwoSlots == {[start |-> 2, end |-> 3], [start |-> 1, end |-> 3]}

OneBlock == {[id |-> k1, consultant |-> c1, tenant |-> t1, start |-> 1, end |-> 3]}

Symmetric == Permutations(Bookings) \cup Permutations(Requests)
=============================================================================
