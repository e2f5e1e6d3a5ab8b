------------------------- MODULE MCPackageDataStream -------------------------
(* Packages of 2 to 5 bytes in segments of 2 bytes, two to a data file: exact *)
(* multiples of a segment and of a data file, a short last segment and a      *)
(* second data file; two slots that ask for up to two segments in any order.  *)
EXTENDS PackageDataStream

CONSTANTS s1, s2

MCSizes    == 2..5
MCSlots    == {s1, s2}
MCSymmetry == Permutations(MCSlots)
=============================================================================
