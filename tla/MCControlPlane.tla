--------------------------- MODULE MCControlPlane ---------------------------
(* Small instances of ControlPlane.                                        *)
EXTENDS ControlPlane, TLC

CONSTANTS r1, r2, a, b

Alone == {}
OneRequest == {r1}
TwoRequests == {r1, r2}
OneSet == {a}
TwoSets == {a, b}

\* Two requests are interchangeable, and so are two rule sets.
Symmetry == Permutations(TwoRequests) \cup Permutations(TwoSets)
=============================================================================
