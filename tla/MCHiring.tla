------------------------------ MODULE MCHiring ------------------------------
(* One job, proposals of two freelancers for it (p3 is f1's second one) and *)
(* two contract ids.                                                        *)
EXTENDS Hiring, TLC

CONSTANTS j1, p1, p2, p3, c1, c2, client, f1, f2, r1, r2

MCOwnerOf == (j1 :> client)
MCJobOf == [p \in Proposal |-> j1]
MCFreelancerOf == [p \in Proposal |-> IF p = p2 THEN f2 ELSE f1]

\* Handlers are interchangeable.  The ids are not permuted: the constants
\* OwnerOf, JobOf and FreelancerOf name them.
Symmetry == Permutations(Request) \cup Permutations(Contract)
=============================================================================
