----------------------------- MODULE MCAccounts -----------------------------
(* Three accounts, two of them for one email, so that registrations collide; *)
(* two posts of one author.                                                  *)
EXTENDS Accounts, TLC

CONSTANTS a1, a2, a3, mail, other, x1, x2, r1, r2, r3

MCEmailOf == (a1 :> mail) @@ (a2 :> mail) @@ (a3 :> other)
MCAuthorOf == [x \in Post |-> a1]

Symmetry == Permutations(Request) \cup Permutations(Post)
=============================================================================
