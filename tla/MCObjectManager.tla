--------------------------- MODULE MCObjectManager ---------------------------
\* Small instances of ObjectManager: three wrappers on two pages that belong to
\* two browser contexts.
EXTENDS ObjectManager, TLC

CONSTANTS p1, p2, f1, f2

TwoProfiles == (p1 :> f1) @@ (p2 :> f2)

Symmetry == Permutations(Wrappers)
=============================================================================
