--------------------------- MODULE MCInputTagger ---------------------------
(***************************************************************************)
(* A keyboard and a mouse, and readers that come and go.                   *)
(***************************************************************************)
EXTENDS InputTagger, TLC

Symmetry == Permutations(Devices) \cup Permutations(Readers)
=============================================================================
