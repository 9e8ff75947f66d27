----------------------------- MODULE MCAuditLog -----------------------------
(* Threads and instances of the audit log for TLC.                         *)
EXTENDS AuditLog, TLC

CONSTANTS t1, t2, t3, i1, i2

TwoOwners == [t \in Threads |-> IF t = t3 THEN i2 ELSE i1]

(* t1 and t2 share an instance and nothing tells them apart.               *)
SameOwner == Permutations({t1, t2})
=============================================================================
