--------------------------- MODULE MCAuthSession ---------------------------
(***************************************************************************)
(* Instances of AuthSession for TLC: u1 is an account of a tenant, u2 one  *)
(* of the platform.                                                        *)
(***************************************************************************)
EXTENDS AuthSession, TLC

CONSTANTS u1, u2, p1, p2, t1, t2, t3, k1, k2, r1, r2

AllStartWithP1 == [u \in Users |-> p1]

\* No action reads the answer of a finished request, nor, of a token that is not
\* live, what opened its session: a refresh copies that when it reads the token.
\* The invariants ask it of live tokens, and TokensOwned of every token, which
\* keeps what it had while it was live.
WhatMatters ==
    <<users, links, faults, interrupted,
      [t \in Tokens |-> IF Live(t) THEN tokens[t]
                        ELSE [tokens[t] EXCEPT !.proof = None, !.late = FALSE]],
      [r \in Requests |-> IF req[r].pc = "idle" THEN Idle ELSE req[r]]>>

Symmetric == Permutations(Tokens) \cup Permutations(Links) \cup Permutations(Requests)
=============================================================================
