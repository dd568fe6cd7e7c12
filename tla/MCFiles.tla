------------------------------- MODULE MCFiles -------------------------------
(* Two files of two owners on one resource, and three handlers at once.      *)
EXTENDS Files, TLC

CONSTANTS f1, f2, u1, u2, x1, r1, r2, r3

MCOwnerOf == (f1 :> u1) @@ (f2 :> u2)
MCResourceOf == [f \in File |-> x1]
=============================================================================
