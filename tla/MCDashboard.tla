------------------------------ MODULE MCDashboard ------------------------------
(* An instance of Dashboard for TLC: a tab in which two organizations sign *)
(* in, with two calls under way at a time.                                 *)
EXTENDS Dashboard, TLC

CONSTANTS b1, a1, a2, t1, t2

MCTabs      == {b1}
MCAccounts  == {a1, a2}
MCTokens    == {t1, t2}
MCAccountOf == t1 :> a1 @@ t2 :> a2
MCCalls     == 1..2
===============================================================================
