----------------------------- MODULE MCAuthSession -----------------------------
(* Instances of AuthSession for TLC. *)
EXTENDS AuthSessionProperties, TLC

CONSTANTS p1, p2, i1, s1, s2, t1, t2, t3, old, new

TwoRequests   == {p1, p2}
OneSession    == {s1}
TwoSessions   == {s1, s2}
ThreeTokens   == {t1, t2, t3}
MCIdentities  == {i1}
OnePassword   == {old}
TwoPasswords  == {old, new}
TwoTokens     == {t1, t2}
Symmetry ==
    Permutations(TwoRequests) \union Permutations(TwoSessions) \union Permutations(ThreeTokens)
===============================================================================
