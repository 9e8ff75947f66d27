--------------------------- MODULE ConfigRestore ---------------------------
(***************************************************************************)
(* recovery/recovery_core/restore_config.py: the configuration is put back *)
(* from a snapshot, after a copy of it to a directory of backups, or from  *)
(* those backups.                                                          *)
(*                                                                         *)
(* The functions are called one at a time by an operator, who may edit the *)
(* files in between.  Each copies file by file and stops at the first      *)
(* error; a content is a version, 0 where there is no file.                *)
(***************************************************************************)
EXTENDS Naturals, FiniteSets

CONSTANTS
  Files,      \* names matched by *.yaml
  MaxVersion, \* bound: contents of a file; the snapshot's is 1
  MaxCalls    \* bound: calls and edits

ASSUME RestoreAssumption == MaxVersion \in Nat \ {0} /\ MaxCalls \in Nat

VARIABLES
  config,     \* CONFIG_DIR
  backup,     \* BACKUP_DIR
  call,       \* the function under way: its phase and the files it has still to do
  calls,      \* calls and edits so far
  kept        \* history: config when the latest backup began, and if it was completed

restoreVars == <<config, backup, call, calls, kept>>

Contents == [Files -> 0..MaxVersion]
Existing(dir) == {f \in Files : dir[f] # 0}

Phases == {"idle", "backing up", "undoing", "restoring", "restored"}

RestoreTypeOK ==
  /\ config \in Contents
  /\ backup \in Contents
  /\ call \in [phase : Phases, left : SUBSET Files]
  /\ calls \in 0..MaxCalls
  /\ kept \in [config : Contents, whole : BOOLEAN]

Idle == [phase |-> "idle", left |-> {}]

RestoreInit ==
  /\ config = [f \in Files |-> 1]
  /\ backup = [f \in Files |-> 0]
  /\ call = Idle
  /\ calls = 0
  /\ kept = [config |-> config, whole |-> FALSE]

Between == call.phase \in {"idle", "restored"} /\ calls < MaxCalls

(* A file is edited, made or deleted.                                      *)
Edit(f, version) ==
  /\ Between
  /\ config' = [config EXCEPT ![f] = version]
  /\ call' = Idle
  /\ calls' = calls + 1
  /\ UNCHANGED <<backup, kept>>

-----------------------------------------------------------------------------

(* restore_from_snapshot(), backup_current(): the names are listed first.  *)
Restore ==
  /\ Between
  /\ call' = [phase |-> "backing up", left |-> Existing(config)]
  /\ calls' = calls + 1
  /\ kept' = [config |-> config, whole |-> FALSE]
  /\ UNCHANGED <<config, backup>>

(* Mutant: a file that has a backup is not copied again.                   *)
Copied_Once(f) == IF backup[f] = 0 THEN config[f] ELSE backup[f]

(* What copy2() leaves in BACKUP_DIR.                                      *)
Copied(f) == config[f]

BackUpFile(f) ==
  /\ call.phase = "backing up" /\ f \in call.left
  /\ backup' = [backup EXCEPT ![f] = Copied(f)]
  /\ call' = [call EXCEPT !.left = @ \ {f}]
  /\ UNCHANGED <<config, calls, kept>>

(* Whether all was copied or an error ended it, its result is not looked   *)
(* at, and the snapshot's files are put back.                              *)
BackedUp ==
  /\ call.phase = "backing up"
  /\ kept' = [kept EXCEPT !.whole = call.left = {}]
  /\ call' = [phase |-> "undoing", left |-> Files]
  /\ UNCHANGED <<config, backup, calls>>

(* snapper undochange, file by file; the process is killed after 30 s.     *)
UndoFile(f) ==
  /\ call.phase = "undoing" /\ f \in call.left
  /\ config' = [config EXCEPT ![f] = 1]
  /\ call' = [call EXCEPT !.left = @ \ {f}]
  /\ UNCHANGED <<backup, calls, kept>>

UndoEnds ==
  /\ call.phase = "undoing"
  /\ call' = Idle
  /\ UNCHANGED <<config, backup, calls, kept>>

(* restore_from_backup()                                                   *)
RestoreFromBackup ==
  /\ Between
  /\ call' = [phase |-> "restoring", left |-> Existing(backup)]
  /\ calls' = calls + 1
  /\ UNCHANGED <<config, backup, kept>>

RestoreFile(f) ==
  /\ call.phase = "restoring" /\ f \in call.left
  /\ config' = [config EXCEPT ![f] = backup[f]]
  /\ call' = [call EXCEPT !.left = @ \ {f}]
  /\ UNCHANGED <<backup, calls, kept>>

(* It says that it succeeded only with every file copied.                  *)
Restored ==
  /\ call.phase = "restoring"
  /\ call' = IF call.left = {} THEN [phase |-> "restored", left |-> {}] ELSE Idle
  /\ UNCHANGED <<config, backup, calls, kept>>

RestoreNext ==
  \/ \E f \in Files, version \in 0..MaxVersion : Edit(f, version)
  \/ \E f \in Files : BackUpFile(f) \/ UndoFile(f) \/ RestoreFile(f)
  \/ Restore \/ BackedUp \/ UndoEnds \/ RestoreFromBackup \/ Restored

-----------------------------------------------------------------------------

(* A restore can be taken back: once restore_from_backup() has succeeded,  *)
(* every file that there was when the latest restore_from_snapshot() began *)
(* has the content it had, however far that restore came and whatever older*)
(* backups lay there.  The one case left out is a backup that an error     *)
(* ended, which restore_from_snapshot() does not look at.                  *)
RestoreUndoable ==
  call.phase = "restored" /\ kept.whole =>
    \A f \in Existing(kept.config) : config[f] = kept.config[f]
=============================================================================
