-------------------------- MODULE MCLoginThrottle --------------------------
(* Instances of LoginThrottle for TLC. *)
EXTENDS LoginThrottle, TLC

CONSTANTS k1, k2, i1, i2, i3, r1, r2
=============================================================================
