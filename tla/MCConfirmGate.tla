--------------------------- MODULE MCConfirmGate ---------------------------
(* Proposals of the confirmation gate for TLC.                             *)
EXTENDS ConfirmGate

CONSTANTS p1, p2, p3

=============================================================================
