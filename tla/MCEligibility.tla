--------------------------- MODULE MCEligibility ---------------------------
(***************************************************************************)
(* An instance of Eligibility for TLC: HR of two tenants, an employee of   *)
(* the first, and a platform operator.                                     *)
(***************************************************************************)
EXTENDS Eligibility, TLC

CONSTANTS h1, h2, c1, op, A, B, i1, i2, i3, r1, r2, r3

WhoseTenant == (h1 :> A) @@ (c1 :> A) @@ (h2 :> B) @@ (op :> None)

WhichRoles ==
    (h1 :> {"hr_admin"}) @@ (c1 :> {"collaborator"}) @@ (h2 :> {"hr_admin"})
      @@ (op :> {"planning_consultant"})

\* No action and no property reads the answer of a finished request, or the account
\* of anyone but a collaborator.
WhatMatters ==
    <<[u \in {v \in Users : "collaborator" \in RolesOf[v]} |-> accounts[u]],
      rows, audit, faults, unlogged, barred,
      [r \in Requests |-> IF InFlight(r) THEN req[r] ELSE Idle]>>

Symmetric == Permutations(Rows) \cup Permutations(Requests)
=============================================================================
