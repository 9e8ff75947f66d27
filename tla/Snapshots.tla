----------------------------- MODULE Snapshots -----------------------------
(***************************************************************************)
(* recovery/snapshot.py: the snapshots that commands take of the system    *)
(* before they act, and the rollback to one of them.                       *)
(*                                                                         *)
(* The agent runs its commands as tasks of one event loop, so that several *)
(* take() calls may be under way, each waiting for a snapper process of its*)
(* own.  A call that gives up on its process leaves it running.            *)
(*                                                                         *)
(* The system is the set of the commands whose action it shows.  That      *)
(* snapper numbers snapshots in the order it makes them, and that its      *)
(* rollback leaves the system that runs as it is and chooses what the next *)
(* boot starts, is external.  The boot itself ends the process, and is not *)
(* modelled.                                                               *)
(***************************************************************************)
EXTENDS Naturals, Sequences

CONSTANTS
  Commands,       \* callers of take(), each of which acts once
  MaxRollbacks    \* bound: calls of rollback()

ASSUME SnapshotsAssumption == MaxRollbacks \in Nat

VARIABLES
  enabled,    \* cfg["snapshots"]["enabled"]
  last,       \* _last_snapshot_num; 0 is None, as in the "or" of rollback()
  take,       \* where each command is
  num,        \* the number take() returned to it, 0 for None
  runs,       \* its snapper is running
  made,       \* the snapshot its snapper made, 0 for none
  snapshots,  \* the system in each snapshot
  system,     \* the commands whose action the system shows
  roll,       \* the latest call of rollback()
  strays,     \* the targets of rollbacks still running that were given up
  boot,       \* the snapshot the next boot starts from, 0 for the system as it is
  rollbacks,  \* calls of rollback() so far
  before,     \* history: the commands whose take() had ended when one began
  late        \* history: strays that were performed after the latest call's rollback

takeVars == <<last, take, num, runs, made, snapshots, before>>
rollVars == <<roll, strays, boot, rollbacks, late>>
snapshotVars == <<enabled, takeVars, system, rollVars>>

Numbers == 0..Len(snapshots)

SnapshotsTypeOK ==
  /\ enabled \in BOOLEAN
  /\ last \in Numbers
  /\ take \in [Commands -> {"idle", "waiting", "returned", "acted"}]
  /\ num \in [Commands -> Numbers]
  /\ runs \in [Commands -> BOOLEAN]
  /\ made \in [Commands -> Numbers]
  /\ snapshots \in Seq(SUBSET Commands)
  /\ system \subseteq Commands
  /\ roll \in [at : {"none", "running", "returned"}, target : Nat, performed : BOOLEAN, ok : BOOLEAN]
  /\ strays \subseteq Nat
  /\ boot \in Numbers
  /\ late \subseteq Nat
  /\ rollbacks \in 0..MaxRollbacks
  /\ before \in [Commands -> SUBSET Commands]

SnapshotsInit ==
  /\ enabled \in BOOLEAN
  /\ last = 0
  /\ take = [c \in Commands |-> "idle"]
  /\ num = [c \in Commands |-> 0]
  /\ runs = [c \in Commands |-> FALSE]
  /\ made = [c \in Commands |-> 0]
  /\ snapshots = << >>
  /\ system = {}
  /\ roll = [at |-> "none", target |-> 0, performed |-> FALSE, ok |-> FALSE]
  /\ strays = {}
  /\ boot = 0
  /\ late = {}
  /\ rollbacks = 0
  /\ before = [c \in Commands |-> {}]

-----------------------------------------------------------------------------
(* take() *)

(* A process is started, unless snapshots are off or it cannot be.         *)
CallTake(c) ==
  /\ take[c] = "idle"
  /\ before' = [before EXCEPT ![c] = {d \in Commands : take[d] \in {"returned", "acted"}}]
  /\ \/ enabled /\ take' = [take EXCEPT ![c] = "waiting"] /\ runs' = [runs EXCEPT ![c] = TRUE]
     \/ take' = [take EXCEPT ![c] = "returned"] /\ UNCHANGED runs
  /\ UNCHANGED <<enabled, last, num, made, snapshots, system, rollVars>>

(* snapper makes the snapshot, whether or not its caller still waits.      *)
Make(c) ==
  /\ runs[c]
  /\ runs' = [runs EXCEPT ![c] = FALSE]
  /\ snapshots' = Append(snapshots, system)
  /\ made' = [made EXCEPT ![c] = Len(snapshots')]
  /\ UNCHANGED <<enabled, last, take, num, before, system, rollVars>>

MakeFails(c) ==
  /\ runs[c]
  /\ runs' = [runs EXCEPT ![c] = FALSE]
  /\ UNCHANGED <<enabled, last, take, num, made, snapshots, before, system, rollVars>>

(* Mutant: the first snapshot stays the last one.                          *)
Taken_First(n) == IF last = 0 THEN n ELSE last

(* The number that is kept for a rollback without one.                     *)
Taken(n) == n

(* The number is read from what snapper wrote; without one, int() raises.  *)
Resume(c) ==
  /\ take[c] = "waiting" /\ ~runs[c]
  /\ take' = [take EXCEPT ![c] = "returned"]
  /\ num' = [num EXCEPT ![c] = made[c]]
  /\ last' = IF made[c] = 0 THEN last ELSE Taken(made[c])
  /\ UNCHANGED <<enabled, runs, made, snapshots, before, system, rollVars>>

(* 10 s have passed: the process is left to itself.                        *)
GiveUp(c) ==
  /\ take[c] = "waiting"
  /\ take' = [take EXCEPT ![c] = "returned"]
  /\ UNCHANGED <<enabled, last, num, runs, made, snapshots, before, system, rollVars>>

(* Mutant: the action does not wait for the snapshot.                      *)
MayAct_AtOnce(c) == take[c] \in {"waiting", "returned"} /\ c \notin system

MayAct(c) == take[c] = "returned"

(* The command's action, after take() and whatever it returned.            *)
Act(c) ==
  /\ MayAct(c)
  /\ take' = [take EXCEPT ![c] = IF @ = "returned" THEN "acted" ELSE @]
  /\ system' = system \cup {c}
  /\ UNCHANGED <<enabled, last, num, runs, made, snapshots, before, rollVars>>

-----------------------------------------------------------------------------
(* rollback() *)

(* For no number the last one taken; without that the call is over.        *)
CallRollback(n) ==
  LET target == IF n # 0 THEN n ELSE last
  IN  /\ roll.at # "running" /\ rollbacks < MaxRollbacks
      /\ rollbacks' = rollbacks + 1
      /\ roll' = [at |-> IF target = 0 THEN "returned" ELSE "running", target |-> target,
                  performed |-> FALSE, ok |-> FALSE]
      /\ UNCHANGED <<enabled, takeVars, system, strays, boot, late>>

(* snapper chooses the snapshot for the next boot, for this call or for    *)
(* one given up.                                                           *)
RollBack ==
  /\ roll.at = "running" /\ ~roll.performed /\ roll.target <= Len(snapshots)
  /\ boot' = roll.target
  /\ roll' = [roll EXCEPT !.performed = TRUE]
  /\ late' = {}
  /\ UNCHANGED <<enabled, takeVars, system, strays, rollbacks>>

RollBackStray(n) ==
  /\ n \in strays /\ n <= Len(snapshots)
  /\ boot' = n
  /\ strays' = strays \ {n}
  /\ late' = late \cup {n}
  /\ UNCHANGED <<enabled, takeVars, system, roll, rollbacks>>

(* Mutant: that the process is over is taken for success.                  *)
Succeeded_Ended == TRUE

(* proc.returncode == 0 *)
Succeeded == roll.performed

EndRollback ==
  /\ roll.at = "running"
  /\ roll' = [roll EXCEPT !.at = "returned", !.ok = Succeeded]
  /\ UNCHANGED <<enabled, takeVars, system, strays, boot, rollbacks, late>>

(* 30 s have passed: the answer is no, and snapper may still do it.        *)
GiveUpRollback ==
  /\ roll.at = "running"
  /\ roll' = [roll EXCEPT !.at = "returned"]
  /\ strays' = IF roll.performed THEN strays ELSE strays \cup {roll.target}
  /\ UNCHANGED <<enabled, takeVars, system, boot, rollbacks, late>>

SnapshotsNext ==
  \/ \E c \in Commands :
       CallTake(c) \/ Make(c) \/ MakeFails(c) \/ Resume(c) \/ GiveUp(c) \/ Act(c)
  \/ \E n \in 0..Len(snapshots) + 1 : CallRollback(n)
  \/ \E n \in strays : RollBackStray(n)
  \/ RollBack \/ EndRollback \/ GiveUpRollback

-----------------------------------------------------------------------------

(* The last snapshot is outdated by overlapping calls only: if a command   *)
(* got a newer one than _last_snapshot_num, its take() had begun before the*)
(* end of the one that set it.                                             *)
LastNotOvertaken ==
  \A c, d \in Commands : last # 0 /\ num[d] = last /\ num[c] > last => d \notin before[c]

(* From the return of True on, the next boot starts from the snapshot that *)
(* was asked for, or from that of a rollback that was given up, answered   *)
(* False and was performed since; and without the action of the command    *)
(* that this snapshot was taken for, whatever other commands take and do   *)
(* meanwhile.                                                              *)
RollbackUndoes ==
  roll.at = "returned" /\ roll.ok =>
    /\ boot # roll.target => boot \in late
    /\ \A c \in Commands : num[c] = boot => c \notin snapshots[boot]
=============================================================================
