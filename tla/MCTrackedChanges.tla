-------------------------- MODULE MCTrackedChanges --------------------------
(* Small instances of TrackedChanges: the formats are interchangeable.      *)
EXTENDS TrackedChanges

FormatSymmetry == Permutations(Formats)
=============================================================================
