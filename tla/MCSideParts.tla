---------------------------- MODULE MCSideParts ----------------------------
EXTENDS SideParts

(* Commands and files are interchangeable; no property here is temporal.   *)
Symmetry == Permutations(Commands) \cup Permutations(Files)
=============================================================================
