----------------------------- MODULE SideParts -----------------------------
(***************************************************************************)
(* What lies beside the agent's own path: the pure decisions, and the two  *)
(* ways back, snapshots of the system and copies of the configuration.     *)
(* They share no state (the two ways back use different configurations of  *)
(* snapper, too), so that interleaving them would show nothing: a behaviour*)
(* shows one of them, chosen at the start, and leaves the others as they   *)
(* were.                                                                   *)
(***************************************************************************)
EXTENDS Rules, Snapshots, ConfigRestore

VARIABLE shown

vars == <<subject, snapshotVars, restoreVars, shown>>

Init ==
  /\ RulesInit
  /\ SnapshotsInit
  /\ RestoreInit
  /\ shown \in {"decisions", "snapshots", "configuration"}

Next ==
  /\ UNCHANGED shown
  /\ \/ shown = "decisions" /\ Judge /\ UNCHANGED <<snapshotVars, restoreVars>>
     \/ shown = "snapshots" /\ SnapshotsNext /\ UNCHANGED <<subject, restoreVars>>
     \/ shown = "configuration" /\ RestoreNext /\ UNCHANGED <<subject, snapshotVars>>

Spec == Init /\ [][Next]_vars
=============================================================================
