---------------------------- MODULE GateContract ----------------------------
(***************************************************************************)
(* What security/confirm_gate.py promises of a proposal, with no sockets,  *)
(* threads, timers or log: it is decided once, executed only after consent *)
(* where its level asks for that, and then executed once.                  *)
(***************************************************************************)
CONSTANT Proposals

VARIABLES
  fate,   \* what has become of each proposal
  level,  \* what classify_risk() said of it
  yes     \* the proposals the user has said yes to

vars == <<fate, level, yes>>

Levels == {"AUTO", "NOTIFY", "CONFIRM", "BLOCK"}

Init ==
  /\ fate = [p \in Proposals |-> "unseen"]
  /\ level = [p \in Proposals |-> "AUTO"]
  /\ yes = {}

Become(p, next) == fate' = [fate EXCEPT ![p] = next]

(* AUTO is granted at once; BLOCK may be refused at once.                  *)
Submit(p, l) ==
  /\ fate[p] = "unseen"
  /\ level' = [level EXCEPT ![p] = l]
  /\ \/ l = "AUTO" /\ Become(p, "granted")
     \/ l = "BLOCK" /\ Become(p, "refused")
     \/ l # "AUTO" /\ Become(p, "open")
  /\ UNCHANGED yes

(* The user may say yes when it is too late, which changes nothing.        *)
Consent(p) ==
  /\ level[p] = "CONFIRM"
  /\ yes' = yes \cup {p}
  /\ UNCHANGED <<fate, level>>

Grant(p) ==
  /\ fate[p] = "open"
  /\ level[p] = "NOTIFY" \/ (level[p] = "CONFIRM" /\ p \in yes)
  /\ Become(p, "granted")
  /\ UNCHANGED <<level, yes>>

Refuse(p) ==
  /\ fate[p] = "open"
  /\ Become(p, "refused")
  /\ UNCHANGED <<level, yes>>

Execute(p) ==
  /\ fate[p] = "granted"
  /\ Become(p, "executed")
  /\ UNCHANGED <<level, yes>>

(* The proposal ends in an exception: its caller learns of no outcome.     *)
Drop(p) ==
  /\ fate[p] = "open"
  /\ Become(p, "dropped")
  /\ UNCHANGED <<level, yes>>

(* The agent is shut down: an open proposal is refused or dropped, and one *)
(* that was granted may or may not have been executed; or its task goes on.*)
Close ==
  /\ fate' \in [Proposals -> {"unseen", "open", "granted", "refused", "executed", "dropped"}]
  /\ \A p \in Proposals :
       CASE fate[p] = "open" -> fate'[p] \in {"open", "refused", "dropped"}
         [] fate[p] = "granted" -> fate'[p] \in {"granted", "dropped"}
         [] OTHER -> fate'[p] = fate[p]
  /\ UNCHANGED <<level, yes>>

Next ==
  \/ \E p \in Proposals : \E l \in Levels : Submit(p, l)
  \/ \E p \in Proposals : Consent(p) \/ Grant(p) \/ Refuse(p) \/ Execute(p) \/ Drop(p)
  \/ Close

Spec == Init /\ [][Next]_vars
=============================================================================
