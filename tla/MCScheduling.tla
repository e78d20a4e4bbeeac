---------------------------- MODULE MCScheduling ----------------------------
(***************************************************************************)
(* Instances of LegacyMigration for TLC: e1 and e2 are employees of        *)
(* different tenants; every consultant serves every tenant.                *)
(***************************************************************************)
EXTENDS SchedulingInvariant, TLC

CONSTANTS b1, b2, b3, r1, e1, e2, c1, c2, t1, t2, k1, k2, ed1

TwoTenants == [e \in Employees |-> IF e = e1 THEN t1 ELSE t2]
ServesAll == [c \in Consultants |-> Tenants]

\* A session and one that covers it.
TwoSlots == {[start |-> 2, end |-> 3], [start |-> 1, end |-> 3]}

\* Once the window is computed nothing reads the patch of an update but
\* PatchKeepsTheRest, and of the patch only this: which fields it leaves out that the
\* window would change all the same.  (The block cannot change before the write:
\* there is one editor.)
ChangedUnasked(q) ==
    {field \in DOMAIN q.patch :
       \E k \in Availability!Owned(q.id, q.consultant) :
         q.patch[field] = None /\ q.next[field] # k[field]}

Seen(q) ==
    IF q.pc = "idle" THEN Availability!Idle ELSE [q EXCEPT !.patch = ChangedUnasked(q)]

\* No action reads the answer of a finished request, the audit trail or origin,
\* and neither does a property of these runs.
WhatMatters ==
    <<bookings, idem, blocks, now, faults, drawn, legacy, undone,
      [r \in Requests |-> IF req[r].pc = "idle" THEN Idle ELSE req[r]],
      [r \in Editors |-> Seen(edit[r])]>>

\* Nothing tells the two tenants apart, each with its employee.
SwapTenants == e1 :> e2 @@ e2 :> e1 @@ t1 :> t2 @@ t2 :> t1

Symmetric == Permutations(Bookings) \cup Permutations(BlockIds) \cup {SwapTenants}
=============================================================================
