----------------------------- MODULE MCListings -----------------------------
(* A job, a profile and two skills; two handlers at once.  Of the five names *)
(* two differ only in case from two others; two hold a `_`, which matches    *)
(* any character, and two a `\`, which takes the next one literally.         *)
EXTENDS Listings, Sequences, TLC

CONSTANTS j1, p1, s1, s2, r1, r2

Spelling == "a_b" :> <<"a", "_", "b">> @@ "A_b" :> <<"A", "_", "b">> @@
            "c" :> <<"c">> @@ "a\\b" :> <<"a", "\\", "b">> @@ "A\\b" :> <<"A", "\\", "b">>
MCName == DOMAIN Spelling

Lower(c) == IF c = "A" THEN "a" ELSE c
MCFold == [n \in Name |-> [i \in DOMAIN Spelling[n] |-> Lower(Spelling[n][i])]]

\* ILIKE: whether the pattern from i on matches the text from j on.
Matches(pattern, text) ==
    LET m[i \in 1..Len(pattern) + 1, j \in 1..Len(text) + 1] ==
          IF i > Len(pattern) THEN j > Len(text)
          ELSE /\ j <= Len(text)
               /\ CASE pattern[i] = "_" -> m[i + 1, j + 1]
                    [] pattern[i] = "\\" -> pattern[i + 1] = text[j] /\ m[i + 2, j + 1]
                    [] OTHER -> pattern[i] = text[j] /\ m[i + 1, j + 1]
    IN m[1, 1]
MCLikes == [n \in Name |-> {o \in Name : Matches(MCFold[n], MCFold[o])}]

\* Bound: while there are listings, or requests for them, all skills have one name, for
\* to a listing their names are all the same.
NamesApart ==
    \/ /\ \A s \in Skill : skills[s] \in {"NONE", "DELETED", "a_b"}
       /\ \A r \in Request : reqs[r].name \in {"NONE", "a_b"}
    \/ /\ \A l \in Listing : ~Exists(l)
       /\ \A r \in Request : reqs[r].id \notin Listing

MCWanted == {{s} : s \in Skill}

Symmetry == Permutations(Request) \cup Permutations(Skill)
=============================================================================
