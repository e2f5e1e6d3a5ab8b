--------------------------- MODULE MCPackageRegistry ---------------------------
EXTENDS PackageRegistry, TLC

CONSTANTS p1, p2, t1, t2, t3

TwoPackages == {p1, p2}
ThreeTasks  == {t1, t2, t3}

Symmetry == Permutations(TwoPackages) \union Permutations(ThreeTasks)
=============================================================================
