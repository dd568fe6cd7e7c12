------------------------------ MODULE MCOutbox ------------------------------
(* Two notifications for one user, one of them of a category that can be    *)
(* opted out of; a worker loop and a test request.                          *)
EXTENDS Outbox, TLC

CONSTANTS k1, k2, u1, contract, job, e1, e2, worker, tester

MCRecipientOf == (k1 :> u1) @@ (k2 :> u1)
MCCategoryOf == (k1 :> contract) @@ (k2 :> job)
=============================================================================
