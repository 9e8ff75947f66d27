---------------------------- MODULE MCAgentLoop ----------------------------
(***************************************************************************)
(* Plans of up to two actions, of every kind the loop tells apart.         *)
(***************************************************************************)
EXTENDS AgentLoop

Type == [risky |-> FALSE, world |-> FALSE, broker |-> TRUE, malformed |-> FALSE]
Install == [Type EXCEPT !.risky = TRUE, !.broker = FALSE]
Pay == [Install EXCEPT !.world = TRUE]
Garbled == [Install EXCEPT !.malformed = TRUE]

MCPlans == {<<Install, Garbled>>, <<Type, Pay>>}
=============================================================================
