--------------------------- MODULE MCContractWork ---------------------------
(* One contract with two milestones; the client may post two reviews of it, *)
(* the freelancer one.                                                      *)
EXTENDS ContractWork, TLC

CONSTANTS c1, m1, m2, v1, v2, v3, r1, r2

MCContractOf == [m \in Milestone |-> c1]
MCReviewedContract == [v \in Review |-> c1]
MCReviewerRole == [v \in Review |-> IF v = v3 THEN "FREELANCER" ELSE "CLIENT"]

Symmetry == Permutations(Request) \cup Permutations(Milestone)
=============================================================================
