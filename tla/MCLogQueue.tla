------------------------------ MODULE MCLogQueue ------------------------------
(* Instances of LogQueue for TLC. *)
EXTENDS LogQueueProperties, TLC

CONSTANTS r1, r2, r3, o1, o2, w1, w2

(* r1 and r2 are submitted as one batch, r3 alone by another tenant. *)
MCRequests == {r1, r2, r3}
MCOrgs     == {o1, o2}
MCOrgOf    == [r \in MCRequests |-> IF r = r3 THEN o2 ELSE o1]
MCBatches  == {<<r1, r2>>}
MCBlank    == {r2}
OneLeaves  == {o2}
MCWorkers  == {w1, w2}
Symmetry   == Permutations(MCWorkers)
===============================================================================
