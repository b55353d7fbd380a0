------------------------------- MODULE MCAccount -------------------------------
(* Instances of Account for TLC. *)
EXTENDS Account, TLC

CONSTANTS p1, p2, o1, o2, a1, a2, l1, b1, b2, n1, n2

TwoRequests == {p1, p2}
TwoOrgs     == {o1, o2}
TwoAdmins   == {a1, a2}
OneLog      == {l1}
TwoBoxes    == {b1, b2}
OneBox      == {b1}
TwoPhones   == {n1, n2}
OnePhone    == {n1}
Symmetry    == UNION {Permutations(TwoRequests), Permutations(TwoOrgs), Permutations(TwoAdmins),
                      Permutations(TwoBoxes), Permutations(TwoPhones)}
===============================================================================
