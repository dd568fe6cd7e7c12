---------------------------- MODULE MCAnalytics ----------------------------
(* A job with one of two skills, two proposals for it, and days around a    *)
(* new year: day 0 is 1 January 2024, a Monday, day 366 is the      *)
(* Wednesday on which 2025 begins, and day 371 its first Monday.             *)
EXTENDS Analytics

CONSTANTS j1, p1, p2, c1, client, f1, f2, s1, s2

MCOwnerOf == [j \in Job |-> client]
MCJobOf == [p \in Proposal |-> j1]
MCFreelancerOf == [p \in Proposal |-> IF p = p1 THEN f1 ELSE f2]
MCRoleOf == [u \in User |-> IF u = client THEN "CLIENT" ELSE "FREELANCER"]
MCSkillsOf == [j \in Job |-> {s1}]

\* The evening of 31 December, the morning of 1 January, and of the Monday after it.
MCMoment == {2 * 365 + 1, 2 * 366, 2 * 371}
MCMonthStarts == {0, 335, 366, 397}
MCYearStarts == {0, 366}
Range(from, to) == [from |-> from, to |-> to]
MCAsked == {Range(365, 365), Range(366, 371), Range(365, 372), Range(NoDay, 366), Range(371, 366)}
MCSession ==
    {[dialect |-> "postgresql", shift |-> 0], [dialect |-> "postgresql", shift |-> 1],
     [dialect |-> "sqlite", shift |-> 0]}
=============================================================================
