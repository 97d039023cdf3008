------------------------- MODULE MCRetentionCapture -------------------------
(* RetentionCapture on small groups: o1, o2 and o3 are alike, l1 is a      *)
(* terminal symlink.                                                       *)
EXTENDS RetentionCapture, TLC

CONSTANTS o1, o2, o3, o4, l1, p1, p2

TreeSymmetry == Permutations({o1, o2, o3, o4} \cap Objects) \cup Permutations(Pruners)
=============================================================================
