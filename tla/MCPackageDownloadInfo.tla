----------------------- MODULE MCPackageDownloadInfo -----------------------
(* Three segments, the last one short, two to a bitmap byte; two slots. *)
EXTENDS PackageDownloadInfo, TLC

CONSTANTS a, b

MCSlots == {a, b}

SlotSymmetry == Permutations(MCSlots)
=============================================================================
