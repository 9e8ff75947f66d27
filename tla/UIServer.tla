------------------------------ MODULE UIServer ------------------------------
(***************************************************************************)
(* ui/ui_server.py, its browsers' side: a handler per WebSocket connection *)
(* takes its messages one at a time, and for a command asks the agent over *)
(* a Unix socket of that command's own.  The browser may close, the agent  *)
(* may be absent, dead or restarted, and its answer may come after the 60  *)
(* seconds the handler waits for it.                                       *)
(*                                                                         *)
(* An action is what a handler does from one await to the next.  Of the    *)
(* websockets library the model has: messages received before a close are  *)
(* still handed out, send() raises once the connection is closed, and the  *)
(* end of a handler closes its connection.                                 *)
(***************************************************************************)
EXTENDS Integers, Sequences

CONSTANTS
  Connections,
  MaxMessages  \* bound: messages of all browsers together

ASSUME UIAssumption == MaxMessages \in Nat

(* "text" is a typed command or a transcribed one, "voice" the page's      *)
(* "voice_audio", "other" a ping or what is not JSON; "odd" is JSON that   *)
(* is no object, or has a text that is no string.                          *)
Kinds == {"text", "resume", "confirm", "voice", "other", "odd"}

Ids == 1..MaxMessages

VARIABLES
  service,    \* "up", "closing" after a signal, "down"
  socket,     \* the agent's socket: "absent", "stale" (nobody accepts), "served"
  open,       \* the connection is open, as the server sees it
  sent,       \* what the browsers have sent, an id being the place in it
  inbox,      \* ids of the received messages the handler has not taken yet
  stage,      \* where the handler of a connection waits
  command,    \* the id of the command it is at work on, 0 for none
  connected,  \* _connected_clients
  agent,      \* what became of a message at the agent's side
  shown,      \* history: what each browser was sent about its commands
  forwarded   \* history: the clicks forwarded to the gate

vars == <<service, socket, open, sent, inbox, stage, command, connected, agent, shown, forwarded>>

-----------------------------------------------------------------------------

Init ==
  /\ service = "up"
  /\ socket \in {"absent", "stale", "served"}
  /\ open = [k \in Connections |-> FALSE]
  /\ sent = << >>
  /\ inbox = [k \in Connections |-> << >>]
  /\ stage = [k \in Connections |-> "new"]
  /\ command = [k \in Connections |-> 0]
  /\ connected = {}
  /\ agent = [i \in Ids |-> "none"]
  /\ shown = [k \in Connections |-> << >>]
  /\ forwarded = {}

Goto(k, s, c) ==
  /\ stage' = [stage EXCEPT ![k] = s]
  /\ command' = [command EXCEPT ![k] = c]

Show(k, of, as) ==
  shown' = [shown EXCEPT ![k] = Append(@, [of |-> of, as |-> as])]

(* Mutant: a handler that ends in the middle of a command does not discard *)
(* its connection from _connected_clients.                                 *)
End_Stays(k) ==
  /\ Goto(k, "over", 0)
  /\ open' = [open EXCEPT ![k] = FALSE]
  /\ connected' = IF command[k] = 0 THEN connected \ {k} ELSE connected

(* The handler ends, by the end of its messages or by an exception.        *)
End(k) ==
  /\ Goto(k, "over", 0)
  /\ open' = [open EXCEPT ![k] = FALSE]
  /\ connected' = connected \ {k}

(* Mutant: an error is sent and the command tried again.                   *)
Respond_Retries(k, as) ==
  IF open[k]
  THEN /\ Show(k, command[k], as)
       /\ IF as = "error" /\ Len(shown[k]) < 4
          THEN UNCHANGED <<stage, command>> ELSE Goto(k, "idle", 0)
       /\ UNCHANGED <<open, connected>>
  ELSE End(k) /\ UNCHANGED shown

(* send(), and back to the next message; on a closed connection it raises. *)
Respond(k, as) ==
  IF open[k]
  THEN /\ Show(k, command[k], as)
       /\ Goto(k, "idle", 0)
       /\ UNCHANGED <<open, connected>>
  ELSE End(k) /\ UNCHANGED shown

-----------------------------------------------------------------------------
(* The browsers.                                                           *)

(* A connection from a foreign origin is closed at once.                   *)
Accept(k) ==
  /\ service = "up"
  /\ stage[k] = "new"
  /\ \/ /\ Goto(k, "idle", 0)
        /\ open' = [open EXCEPT ![k] = TRUE]
        /\ connected' = connected \cup {k}
     \/ /\ Goto(k, "over", 0)
        /\ UNCHANGED <<open, connected>>
  /\ UNCHANGED <<service, socket, sent, inbox, agent, shown, forwarded>>

Send(k, kind) ==
  /\ open[k]
  /\ Len(sent) < MaxMessages
  /\ sent' = Append(sent, [by |-> k, kind |-> kind])
  /\ inbox' = [inbox EXCEPT ![k] = Append(@, Len(sent) + 1)]
  /\ UNCHANGED <<service, socket, open, stage, command, connected, agent, shown, forwarded>>

Leave(k) ==
  /\ open[k]
  /\ open' = [open EXCEPT ![k] = FALSE]
  /\ UNCHANGED <<service, socket, sent, inbox, stage, command, connected, agent, shown, forwarded>>

-----------------------------------------------------------------------------
(* The handler.                                                            *)

(* A message is taken.  A text is acknowledged before the agent is asked;  *)
(* a resume is not, and reaches the agent also if its browser has left.    *)
(* Audio is a type the handler does not know; of the others only some are  *)
(* replied to, and thereby find a closed connection.  An odd message raises*)
(* AttributeError.                                                         *)
Take(k) ==
  /\ inbox[k] # << >> /\ stage[k] = "idle"
  /\ inbox' = [inbox EXCEPT ![k] = Tail(@)]
  /\ LET id == Head(inbox[k])
         kind == sent[id].kind
     IN  \/ /\ kind = "text" /\ open[k]
            /\ Show(k, id, "thinking")
            /\ Goto(k, "connecting", id)
            /\ UNCHANGED <<open, connected, forwarded>>
         \/ /\ kind = "resume"
            /\ Goto(k, "connecting", id)
            /\ UNCHANGED <<open, connected, forwarded, shown>>
         \/ /\ kind = "odd" \/ (kind \in {"text", "other"} /\ ~open[k])
            /\ End(k)
            /\ UNCHANGED <<forwarded, shown>>
         \/ /\ kind \in {"confirm", "voice", "other"}
            /\ forwarded' = IF kind = "confirm" THEN forwarded \cup {id} ELSE forwarded
            /\ UNCHANGED <<open, connected, shown, stage, command>>
  /\ UNCHANGED <<service, socket, sent, agent>>

(* The agent's socket: without the file a text is answered with an error,  *)
(* while a resume ends the handler, as does a socket nobody accepts on.    *)
Connect(k) ==
  /\ stage[k] = "connecting"
  /\ \/ /\ socket = "served"
        /\ agent' = [agent EXCEPT ![command[k]] = "working"]
        /\ Goto(k, "asking", command[k])
        /\ UNCHANGED <<open, connected, shown>>
     \/ /\ socket = "absent" /\ sent[command[k]].kind = "text"
        /\ Respond(k, "error")
        /\ UNCHANGED agent
     \/ /\ socket = "stale" \/ (socket = "absent" /\ sent[command[k]].kind = "resume")
        /\ End(k)
        /\ UNCHANGED <<agent, shown>>
  /\ UNCHANGED <<service, socket, sent, inbox, forwarded>>

(* The agent's line, or the end of its connection without one, has come.   *)
Reply(k) ==
  /\ stage[k] = "asking"
  /\ \/ /\ agent[command[k]] = "answered"
        /\ agent' = [agent EXCEPT ![command[k]] = "read"]
        /\ Respond(k, "response")
     \/ /\ agent[command[k]] = "broken"
        /\ Respond(k, "invalid")
        /\ UNCHANGED agent
     \/ /\ agent[command[k]] = "broken"  \* reset, a line too long, or no object
        /\ End(k)
        /\ UNCHANGED <<agent, shown>>
  /\ UNCHANGED <<service, socket, sent, inbox, forwarded>>

(* Mutant: readline() is awaited without wait_for().                       *)
TimesOut_Never(k) == FALSE /\ UNCHANGED vars

(* After 60 s the handler says so, and leaves the agent to it.             *)
TimesOut(k) ==
  /\ stage[k] = "asking"
  /\ Respond(k, "timeout")
  /\ UNCHANGED <<service, socket, sent, inbox, agent, forwarded>>

(* The messages of a closed connection are used up.                        *)
Ends(k) ==
  /\ stage[k] = "idle" /\ ~open[k] /\ inbox[k] = << >>
  /\ End(k)
  /\ UNCHANGED <<service, socket, sent, inbox, agent, shown, forwarded>>

Handler(k) == Take(k) \/ Connect(k) \/ Reply(k) \/ TimesOut(k) \/ Ends(k)

-----------------------------------------------------------------------------
(* The agent, and the end of the server.                                   *)

Answer(i) ==
  /\ agent[i] = "working"
  /\ \E end \in {"answered", "broken"} : agent' = [agent EXCEPT ![i] = end]
  /\ UNCHANGED <<service, socket, open, sent, inbox, stage, command, connected, shown, forwarded>>

(* The agent starts, exits or dies; with it go the connections it had.     *)
SocketChanges ==
  /\ \E s \in {"absent", "stale", "served"} \ {socket} : socket' = s
  /\ agent' = [i \in Ids |-> IF agent[i] = "working" THEN "broken" ELSE agent[i]]
  /\ UNCHANGED <<service, open, sent, inbox, stage, command, connected, shown, forwarded>>

(* A signal: the server is closed, and every connection with it.           *)
Signal ==
  /\ service = "up"
  /\ service' = "closing"
  /\ open' = [k \in Connections |-> FALSE]
  /\ UNCHANGED <<socket, sent, inbox, stage, command, connected, agent, shown, forwarded>>

(* wait_closed() returns when the last handler is over.                    *)
Down ==
  /\ service = "closing"
  /\ \A k \in Connections : stage[k] \in {"new", "over"}
  /\ service' = "down"
  /\ UNCHANGED <<socket, open, sent, inbox, stage, command, connected, agent, shown, forwarded>>

Next ==
  \/ \E k \in Connections :
       Accept(k) \/ Leave(k) \/ Handler(k) \/ \E kind \in Kinds : Send(k, kind)
  \/ \E i \in Ids : Answer(i)
  \/ SocketChanges \/ Signal \/ Down

Spec == Init /\ [][Next]_vars

(* A handler that is ready runs, and an expired timer is ready; nothing is *)
(* assumed of browsers and agent.                                          *)
FairSpec ==
  /\ Spec
  /\ \A k \in Connections : WF_vars(Handler(k))
  /\ WF_vars(Down)

-----------------------------------------------------------------------------

(* The server's state has its types, and exactly the connections whose     *)
(* handlers are at work are in _connected_clients.                         *)
TypeOK ==
  /\ service \in {"up", "closing", "down"}
  /\ socket \in {"absent", "stale", "served"}
  /\ open \in [Connections -> BOOLEAN]
  /\ sent \in Seq([by : Connections, kind : Kinds]) /\ Len(sent) <= MaxMessages
  /\ inbox \in [Connections -> Seq(1..Len(sent))]
  /\ stage \in [Connections -> {"new", "idle", "connecting", "asking", "over"}]
  /\ command \in [Connections -> 0..Len(sent)]
  /\ connected = {k \in Connections : stage[k] \in {"idle", "connecting", "asking"}}
  /\ agent \in [Ids -> {"none", "working", "answered", "broken", "read"}]
  /\ forwarded \subseteq 1..Len(sent)
  /\ shown \in [Connections -> Seq([of : 1..Len(sent),
                                  as : {"thinking", "response", "invalid", "timeout", "error"}])]

(* The commands of a connection are taken up and replied to in the order   *)
(* they were sent, each at most once; between "thinking" and the reply to  *)
(* a command nothing is shown of another.                                  *)
InTurn ==
  \A k \in Connections : \A j \in 1..Len(shown[k]) :
    LET now == shown[k][j]
        before == shown[k][j - 1]
        waited == j > 1 /\ before.as = "thinking"
    IN  IF sent[now.of].kind = "text" /\ now.as # "thinking"
        THEN waited /\ now.of = before.of
        ELSE ~waited /\ (j > 1 => now.of > before.of)

(* When a wait for the agent ends, every click of the same browser has     *)
(* reached the gate: the one that confirms what the command asks comes     *)
(* while the command still waits for it.  README.md:194 says of the server *)
(* that it handles confirmations; its handler does so after the wait only. *)
ClicksInTime ==
  [][\A k \in Connections :
       stage[k] = "asking" /\ stage'[k] # "asking" =>
         \A i \in 1..Len(sent) :
           sent[i] = [by |-> k, kind |-> "confirm"] => i \in forwarded]_vars

(* A text that was acknowledged is replied to, or its connection ends,     *)
(* however long the agent takes and whatever becomes of it; and a browser  *)
(* that has left is forgotten in the end, also if its handler was waiting  *)
(* for the agent at the time.                                              *)
EveryWaitEnds ==
  \A k \in Connections :
    /\ stage[k] = "connecting" ~> stage[k] \in {"idle", "over"}
    /\ (k \in connected /\ ~open[k]) ~> k \notin connected

(* A signal ends the server, with commands under way and messages unread.  *)
ShutdownEnds == service = "closing" ~> service = "down"
=============================================================================
