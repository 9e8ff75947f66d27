--------------------------- MODULE UIServerProofs ---------------------------
(***************************************************************************)
(* For any number of browsers and messages: whatever is late, lost or      *)
(* restarted, a browser's commands are acknowledged and replied to in turn.*)
(***************************************************************************)
EXTENDS UIServer, SequenceTheorems, TLAPS

USE UIAssumption

Stages == {"new", "idle", "connecting", "asking", "over"}
Fates == {"none", "working", "answered", "broken", "read"}
Messages == [by : Connections, kind : Kinds]
Shown(n) == [of : 1..n, as : {"thinking", "response", "invalid", "timeout", "error"}]

-----------------------------------------------------------------------------
(* Sequences. *)

LEMMA AppendGrows ==
  ASSUME NEW T, NEW s \in Seq(T), NEW e \in T
  PROVE  /\ Append(s, e) \in Seq(T)
         /\ Len(s) \in Nat
         /\ Len(Append(s, e)) = Len(s) + 1
         /\ \A j \in 1..Len(s) : Append(s, e)[j] = s[j]
         /\ Append(s, e)[Len(s) + 1] = e
<1>1. Len(s) \in Nat
  BY LenProperties
<1>2. Append(s, e) \in Seq(T)
  BY AppendProperties
<1>3. Len(Append(s, e)) = Len(s) + 1
  BY AppendProperties
<1>4. \A j \in 1..Len(s) : Append(s, e)[j] = s[j]
  BY AppendProperties
<1>5. Append(s, e)[Len(s) + 1] = e
  BY AppendProperties
<1> QED
  BY <1>1, <1>2, <1>3, <1>4, <1>5, Zenon

LEMMA TailShrinks ==
  ASSUME NEW T, NEW s \in Seq(T), s # << >>
  PROVE  /\ Tail(s) \in Seq(T)
         /\ Len(s) \in Nat \ {0}
         /\ Len(Tail(s)) = Len(s) - 1
         /\ Head(s) = s[1] /\ Head(s) \in T
         /\ \A j \in 1..Len(Tail(s)) : Tail(s)[j] = s[j + 1]
<1>1. Len(s) \in Nat \ {0}
  BY EmptySeq
<1>2. Tail(s) \in Seq(T) /\ Len(Tail(s)) = Len(s) - 1
  BY HeadTailProperties
<1>3. Head(s) = s[1] /\ Head(s) \in T
  BY HeadTailProperties
<1>4. \A j \in 1..Len(Tail(s)) : Tail(s)[j] = s[j + 1]
  BY HeadTailProperties
<1> QED
  BY <1>1, <1>2, <1>3, <1>4, Zenon

-----------------------------------------------------------------------------
(* Types. *)

Types ==
  /\ service \in {"up", "closing", "down"}
  /\ socket \in {"absent", "stale", "served"}
  /\ open \in [Connections -> BOOLEAN]
  /\ sent \in Seq(Messages) /\ Len(sent) <= MaxMessages
  /\ inbox \in [Connections -> Seq(1..Len(sent))]
  /\ stage \in [Connections -> Stages]
  /\ command \in [Connections -> 0..Len(sent)]
  /\ agent \in [Ids -> Fates]
  /\ forwarded \subseteq 1..Len(sent)
  /\ shown \in [Connections -> Seq(Shown(Len(sent)))]

AtHand == connected = {k \in Connections : stage[k] \in {"idle", "connecting", "asking"}}

LEMMA TypeParts == TypeOK <=> Types /\ AtHand
  BY DEF TypeOK, Types, AtHand, Messages, Stages, Fates, Shown

(* Longer logs keep what refers to the log.                                *)
LEMMA TypesGrow ==
  ASSUME NEW m \in Nat, NEW n \in Nat, m <= n
  PROVE  /\ \A s \in Seq(1..m) : s \in Seq(1..n)
         /\ \A s \in Seq(Shown(m)) : s \in Seq(Shown(n))
<1>1. 1..m \subseteq 1..n
  OBVIOUS
<1>2. Shown(m) \subseteq Shown(n)
  BY DEF Shown
<1> QED
  BY <1>1, <1>2, SeqMonotonic

(* What the steps of a handler do to the types of its fields.              *)
LEMMA GotoTypes ==
  ASSUME Types, NEW k \in Connections, NEW s \in Stages, NEW c \in 0..Len(sent), Goto(k, s, c)
  PROVE  stage' \in [Connections -> Stages] /\ command' \in [Connections -> 0..Len(sent)]
BY DEF Goto, Types

LEMMA ShowTypes ==
  ASSUME Types, NEW k \in Connections, NEW of \in 1..Len(sent),
         NEW as \in {"thinking", "response", "invalid", "timeout", "error"}, Show(k, of, as)
  PROVE  shown' \in [Connections -> Seq(Shown(Len(sent)))]
<1>1. [of |-> of, as |-> as] \in Shown(Len(sent))
  BY DEF Shown
<1>2. shown[k] \in Seq(Shown(Len(sent)))
  BY DEF Types
<1>3. Append(shown[k], [of |-> of, as |-> as]) \in Seq(Shown(Len(sent)))
  BY <1>1, <1>2, AppendGrows
<1> QED
  BY <1>3 DEF Show, Types

LEMMA EndTypes ==
  ASSUME Types, AtHand, NEW k \in Connections, End(k)
  PROVE  /\ stage' \in [Connections -> Stages] /\ command' \in [Connections -> 0..Len(sent)]
         /\ open' \in [Connections -> BOOLEAN]
         /\ AtHand'
<1>1. Len(sent) \in Nat
  BY LenProperties DEF Types
<1>2. "over" \in Stages /\ 0 \in 0..Len(sent)
  BY <1>1 DEF Stages
<1>3. stage' \in [Connections -> Stages] /\ command' \in [Connections -> 0..Len(sent)]
  BY <1>2, GotoTypes DEF End
<1>4. stage' = [stage EXCEPT ![k] = "over"] /\ connected' = connected \ {k}
  BY DEF End, Goto
<1>5. AtHand'
  BY <1>4 DEF AtHand, Types
<1> QED
  BY <1>3, <1>5 DEF End, Types

LEMMA RespondTypes ==
  ASSUME Types, AtHand, NEW k \in Connections, stage[k] \in {"connecting", "asking"},
         command[k] \in 1..Len(sent),
         NEW as \in {"response", "invalid", "timeout", "error"}, Respond(k, as)
  PROVE  /\ stage' \in [Connections -> Stages] /\ command' \in [Connections -> 0..Len(sent)]
         /\ open' \in [Connections -> BOOLEAN]
         /\ shown' \in [Connections -> Seq(Shown(Len(sent)))]
         /\ AtHand'
<1>1. CASE open[k]
  <2>1. Show(k, command[k], as) /\ Goto(k, "idle", 0) /\ UNCHANGED <<open, connected>>
    BY <1>1 DEF Respond
  <2>2. "idle" \in Stages /\ 0 \in 0..Len(sent)
    BY LenProperties DEF Stages, Types
  <2>3. stage' \in [Connections -> Stages] /\ command' \in [Connections -> 0..Len(sent)]
    BY <2>1, <2>2, GotoTypes
  <2>4. shown' \in [Connections -> Seq(Shown(Len(sent)))]
    BY <2>1, ShowTypes
  <2>5. AtHand'
    BY <2>1 DEF Goto, AtHand, Types
  <2> QED
    BY <2>1, <2>3, <2>4, <2>5 DEF Types
<1>2. CASE ~open[k]
  BY <1>2, EndTypes DEF Respond, Types
<1> QED
  BY <1>1, <1>2

(* A handler that waits for the agent has a command.                       *)
Waits(k) == stage[k] \in {"connecting", "asking"}
Busy == \A k \in Connections : Waits(k) => command[k] # 0

LEMMA HandsNow ==
  ASSUME AtHand
  PROVE  /\ connected \subseteq Connections
         /\ \A q \in Connections : q \in connected <=> stage[q] \in {"idle", "connecting", "asking"}
BY DEF AtHand

LEMMA HandsNext ==
  ASSUME connected' \subseteq Connections,
         \A q \in Connections : q \in connected' <=> stage'[q] \in {"idle", "connecting", "asking"}
  PROVE  AtHand'
BY DEF AtHand

LEMMA TypesInductive ==
  ASSUME Types, AtHand, Busy, [Next]_vars
  PROVE  Types' /\ AtHand' /\ Busy'
<1> DEFINE n == Len(sent)
<1>1. n \in Nat /\ 1..n \subseteq Ids /\ 0 \in 0..n
  BY LenProperties DEF Types, Ids
<1>2. ASSUME NEW k \in Connections, Accept(k)
      PROVE  Types' /\ AtHand' /\ Busy'
  <2>1. "idle" \in Stages /\ "over" \in Stages
    BY DEF Stages
  <2>2. \E s \in {"idle", "over"} : Goto(k, s, 0)
    BY <1>2 DEF Accept
  <2>3. stage' \in [Connections -> Stages] /\ command' \in [Connections -> 0..n]
    BY <1>1, <2>1, <2>2, GotoTypes
  <2>4. Types'
    BY <1>2, <2>3 DEF Accept, Types
  <2>5. Busy'
    BY <2>2 DEF Goto, Busy, Waits, Types
  <2>6. CASE Goto(k, "idle", 0) /\ connected' = connected \cup {k}
    <3>1. \A q \in Connections : stage'[q] = IF q = k THEN "idle" ELSE stage[q]
      BY <2>6 DEF Goto, Types
    <3> QED
      BY <2>4, <2>5, <2>6, <3>1, HandsNow, HandsNext
  <2>7. CASE Goto(k, "over", 0) /\ connected' = connected
    <3>1. \A q \in Connections : stage'[q] = IF q = k THEN "over" ELSE stage[q]
      BY <2>7 DEF Goto, Types
    <3>2. stage[k] = "new"
      BY <1>2 DEF Accept
    <3> QED
      BY <2>4, <2>5, <2>7, <3>1, <3>2, HandsNow, HandsNext
  <2> QED
    BY <1>2, <2>6, <2>7 DEF Accept
<1>3. ASSUME NEW k \in Connections, NEW kind \in Kinds, Send(k, kind)
      PROVE  Types' /\ AtHand' /\ Busy'
  <2>1. [by |-> k, kind |-> kind] \in Messages
    BY DEF Messages
  <2>2. sent' \in Seq(Messages) /\ Len(sent') = n + 1
    BY <1>3, <2>1, AppendGrows DEF Send, Types
  <2>3. n <= n + 1 /\ n + 1 \in Nat /\ n + 1 \in 1..(n + 1)
    BY <1>1
  <2>4. \A q \in Connections : inbox[q] \in Seq(1..(n + 1)) /\ shown[q] \in Seq(Shown(n + 1))
    BY <1>1, <2>3, TypesGrow DEF Types
  <2>5. Append(inbox[k], n + 1) \in Seq(1..(n + 1))
    BY <2>3, <2>4, AppendGrows
  <2>6. inbox' \in [Connections -> Seq(1..(n + 1))]
    BY <1>3, <2>4, <2>5 DEF Send, Types
  <2>7. shown' \in [Connections -> Seq(Shown(n + 1))]
    BY <1>3, <2>4 DEF Send, Types
  <2>8. command' \in [Connections -> 0..(n + 1)] /\ forwarded' \subseteq 1..(n + 1)
    BY <1>1, <1>3 DEF Send, Types
  <2>9. Len(sent') <= MaxMessages
    BY <1>1, <1>3, <2>2 DEF Send
  <2>10. UNCHANGED <<service, socket, open, stage, command, connected, agent>>
    BY <1>3 DEF Send
  <2>11. AtHand' /\ Busy'
    BY <2>10 DEF AtHand, Busy, Waits
  <2> QED
    BY <2>2, <2>6, <2>7, <2>8, <2>9, <2>10, <2>11 DEF Types
<1>4. ASSUME NEW k \in Connections, Leave(k)
      PROVE  Types' /\ AtHand' /\ Busy'
  BY <1>4 DEF Leave, Types, AtHand, Busy, Waits
<1>5. ASSUME NEW k \in Connections, Take(k)
      PROVE  Types' /\ AtHand' /\ Busy'
  <2> DEFINE id == Head(inbox[k])
  <2>1. inbox[k] # << >> /\ stage[k] = "idle" /\ inbox' = [inbox EXCEPT ![k] = Tail(@)]
    BY <1>5 DEF Take
  <2>2. id \in 1..n /\ Tail(inbox[k]) \in Seq(1..n)
    BY <2>1, TailShrinks DEF Types
  <2>3. inbox' \in [Connections -> Seq(1..n)] /\ UNCHANGED <<service, socket, sent, agent>>
    BY <1>5, <2>1, <2>2 DEF Take, Types
  <2>4. CASE /\ Goto(k, "connecting", id)
             /\ UNCHANGED <<open, connected, forwarded>>
             /\ Show(k, id, "thinking") \/ UNCHANGED shown
    <3>1. "connecting" \in Stages /\ id \in 0..n /\ id # 0
      BY <1>1, <2>2 DEF Stages
    <3>2. stage' \in [Connections -> Stages] /\ command' \in [Connections -> 0..n]
      BY <2>4, <3>1, GotoTypes
    <3>3. shown' \in [Connections -> Seq(Shown(n))]
      BY <1>1, <2>2, <2>4, ShowTypes DEF Types
    <3>4. AtHand'
      BY <2>1, <2>4 DEF Goto, AtHand, Types
    <3>5. Busy'
      BY <2>4, <3>1 DEF Goto, Busy, Waits, Types
    <3> QED
      BY <2>3, <2>4, <3>2, <3>3, <3>4, <3>5 DEF Types
  <2>5. CASE End(k) /\ UNCHANGED <<forwarded, shown>>
    <3>1. Busy'
      BY <2>5 DEF End, Goto, Busy, Waits, Types
    <3> QED
      BY <2>3, <2>5, <3>1, EndTypes DEF Types
  <2>6. CASE /\ forwarded' = forwarded \/ forwarded' = forwarded \cup {id}
             /\ UNCHANGED <<open, connected, shown, stage, command>>
    BY <2>2, <2>3, <2>6 DEF Types, AtHand, Busy, Waits
  <2> QED
    BY <1>5, <2>4, <2>5, <2>6 DEF Take
<1>6. ASSUME NEW k \in Connections, Waits(k), End(k),
             UNCHANGED <<service, socket, sent, inbox, agent, shown, forwarded>>
      PROVE  Types' /\ AtHand' /\ Busy'
  <2>1. Busy'
    BY <1>6 DEF End, Goto, Busy, Waits, Types
  <2> QED
    BY <1>6, <2>1, EndTypes DEF Types
<1>7. ASSUME NEW k \in Connections, Waits(k), NEW as \in {"response", "invalid", "timeout", "error"},
             Respond(k, as),
             agent' \in [Ids -> Fates], UNCHANGED <<service, socket, sent, inbox, forwarded>>
      PROVE  Types' /\ AtHand' /\ Busy'
  <2>1. command[k] \in 1..n
    BY <1>1, <1>7 DEF Busy, Types
  <2>2. Busy'
    BY <1>7 DEF Respond, End, Goto, Busy, Waits, Types
  <2>3. /\ stage' \in [Connections -> Stages] /\ command' \in [Connections -> 0..n]
        /\ open' \in [Connections -> BOOLEAN]
        /\ shown' \in [Connections -> Seq(Shown(n))]
        /\ AtHand'
    BY <1>7, <2>1, RespondTypes DEF Waits
  <2> QED
    BY <1>7, <2>2, <2>3 DEF Types
<1>8. ASSUME NEW k \in Connections, Connect(k)
      PROVE  Types' /\ AtHand' /\ Busy'
  <2>1. Waits(k) /\ UNCHANGED <<service, socket, sent, inbox, forwarded>>
    BY <1>8 DEF Connect, Waits
  <2>2. CASE /\ agent' = [agent EXCEPT ![command[k]] = "working"]
             /\ Goto(k, "asking", command[k])
             /\ UNCHANGED <<open, connected, shown>>
    <3>1. agent' \in [Ids -> Fates]
      BY <2>2 DEF Types, Fates
    <3>2. "asking" \in Stages /\ command[k] \in 0..n
      BY DEF Stages, Types
    <3>3. stage' \in [Connections -> Stages] /\ command' \in [Connections -> 0..n]
      BY <2>2, <3>2, GotoTypes
    <3>4. AtHand' /\ Busy'
      BY <2>1, <2>2 DEF Goto, AtHand, Busy, Waits, Types
    <3> QED
      BY <2>1, <2>2, <3>1, <3>3, <3>4 DEF Types
  <2>3. CASE Respond(k, "error") /\ UNCHANGED agent
    BY <1>1, <1>7, <2>1, <2>3 DEF Types
  <2>4. CASE End(k) /\ UNCHANGED <<agent, shown>>
    BY <1>6, <2>1, <2>4
  <2> QED
    BY <1>8, <2>2, <2>3, <2>4 DEF Connect
<1>9. ASSUME NEW k \in Connections, Reply(k)
      PROVE  Types' /\ AtHand' /\ Busy'
  <2>1. Waits(k) /\ UNCHANGED <<service, socket, sent, inbox, forwarded>>
    BY <1>9 DEF Reply, Waits
  <2>2. CASE /\ agent' = [agent EXCEPT ![command[k]] = "read"]
             /\ Respond(k, "response")
    <3>1. agent' \in [Ids -> Fates]
      BY <2>2 DEF Types, Fates
    <3> QED
      BY <1>7, <2>1, <2>2, <3>1
  <2>3. CASE Respond(k, "invalid") /\ UNCHANGED agent
    BY <1>1, <1>7, <2>1, <2>3 DEF Types
  <2>4. CASE End(k) /\ UNCHANGED <<agent, shown>>
    BY <1>6, <2>1, <2>4
  <2> QED
    BY <1>9, <2>2, <2>3, <2>4 DEF Reply
<1>10. ASSUME NEW k \in Connections, TimesOut(k)
       PROVE  Types' /\ AtHand' /\ Busy'
  <2>1. /\ Waits(k) /\ UNCHANGED <<service, socket, sent, inbox, agent, forwarded>>
        /\ Respond(k, "timeout")
    BY <1>10 DEF TimesOut, Waits
  <2> QED
    BY <1>1, <1>7, <2>1 DEF Types
<1>11. ASSUME NEW k \in Connections, Ends(k)
       PROVE  Types' /\ AtHand' /\ Busy'
  <2>1. Busy'
    BY <1>11 DEF Ends, End, Goto, Busy, Waits, Types
  <2> QED
    BY <1>11, <2>1, EndTypes DEF Ends, Types
<1>12. ASSUME NEW i \in Ids, Answer(i)
       PROVE  Types' /\ AtHand' /\ Busy'
  <2>1. agent' \in [Ids -> Fates]
    BY <1>12 DEF Answer, Types, Fates
  <2> QED
    BY <1>12, <2>1 DEF Answer, Types, AtHand, Busy, Waits
<1>13. CASE SocketChanges
  <2>1. agent' \in [Ids -> Fates]
    BY <1>13 DEF SocketChanges, Types, Fates
  <2> QED
    BY <1>13, <2>1 DEF SocketChanges, Types, AtHand, Busy, Waits
<1>14. CASE Signal \/ Down \/ UNCHANGED vars
  BY <1>14 DEF Signal, Down, vars, Types, AtHand, Busy, Waits
<1> QED
  BY <1>2, <1>3, <1>4, <1>5, <1>8, <1>9, <1>10, <1>11, <1>12, <1>13, <1>14 DEF Next, Handler

LEMMA InitTypes == Init => Types /\ AtHand /\ Busy
<1> SUFFICES ASSUME Init
             PROVE  Types /\ AtHand /\ Busy
  OBVIOUS
<1>1. Len(sent) = 0 /\ sent \in Seq(Messages) /\ << >> \in Seq(1..0) /\ << >> \in Seq(Shown(0))
  BY EmptySeq DEF Init
<1> QED
  BY <1>1 DEF Init, Types, AtHand, Busy, Waits, Stages, Fates

(* The server's fields keep their types, and _connected_clients holds      *)
(* exactly the connections with a handler at work, however the handlers end*)
(* - of a closed connection, a missing socket or an agent that went away.  *)
THEOREM TypeCorrect == Spec => []TypeOK
<1>1. Init => Types /\ AtHand /\ Busy
  BY InitTypes
<1>2. Types /\ AtHand /\ Busy /\ [Next]_vars => (Types /\ AtHand /\ Busy)'
  BY TypesInductive
<1>3. Types /\ AtHand => TypeOK
  BY TypeParts
<1> QED
  BY <1>1, <1>2, <1>3, PTL DEF Spec

-----------------------------------------------------------------------------
(* The order of messages, commands and replies, connection by connection. *)

(* What the handler has not taken yet is later than all it has dealt with. *)
Queued(k) ==
  \A j \in 1..Len(inbox[k]) :
    /\ sent[inbox[k][j]].by = k
    /\ command[k] < inbox[k][j]
    /\ \A m \in 1..Len(inbox[k]) : j < m => inbox[k][j] < inbox[k][m]
    /\ \A m \in 1..Len(shown[k]) : shown[k][m].of < inbox[k][j]

(* What the stage of a handler says of its command.                        *)
AtWork(k) ==
  /\ stage[k] = "new" => ~open[k] /\ inbox[k] = << >> /\ shown[k] = << >>
  /\ Waits(k) =>
       /\ command[k] # 0
       /\ sent[command[k]].by = k /\ sent[command[k]].kind \in {"text", "resume"}
  /\ ~Waits(k) => command[k] = 0

(* The end of what a browser was shown, against what its handler does.     *)
Last(k) == shown[k][Len(shown[k])]

Pending(k) ==
  /\ stage[k] = "idle" /\ shown[k] # << >> => Last(k).as # "thinking"
  /\ Waits(k) /\ sent[command[k]].kind = "text" =>
       shown[k] # << >> /\ Last(k).as = "thinking" /\ Last(k).of = command[k]
  /\ Waits(k) /\ sent[command[k]].kind = "resume" /\ shown[k] # << >> =>
       Last(k).as # "thinking" /\ Last(k).of < command[k]

(* InTurn of one connection, entry by entry.                               *)
Turn(k, j) ==
  LET now == shown[k][j]
      before == shown[k][j - 1]
      waited == j > 1 /\ before.as = "thinking"
  IN  IF sent[now.of].kind = "text" /\ now.as # "thinking"
      THEN waited /\ now.of = before.of
      ELSE ~waited /\ (j > 1 => now.of > before.of)

Told(k) == \A j \in 1..Len(shown[k]) : Turn(k, j)

Orderly(k) == Queued(k) /\ AtWork(k) /\ Pending(k) /\ Told(k)

(* What the fields of a connection refer to.                               *)
LEMMA Refer ==
  ASSUME Types, NEW k \in Connections
  PROVE  /\ Len(sent) \in Nat /\ Len(inbox[k]) \in Nat /\ Len(shown[k]) \in Nat
         /\ \A j \in 1..Len(inbox[k]) : inbox[k][j] \in 1..Len(sent)
         /\ \A m \in 1..Len(shown[k]) : shown[k][m] \in Shown(Len(sent)) /\ shown[k][m].of \in 1..Len(sent)
         /\ shown[k] # << >> => Len(shown[k]) \in 1..Len(shown[k])
         /\ command[k] \in 0..Len(sent)
         /\ forwarded \subseteq 1..Len(sent)
<1>1. inbox[k] \in Seq(1..Len(sent)) /\ shown[k] \in Seq(Shown(Len(sent))) /\ sent \in Seq(Messages)
  BY DEF Types
<1>2. Len(sent) \in Nat /\ Len(inbox[k]) \in Nat /\ Len(shown[k]) \in Nat
  BY <1>1, LenProperties
<1>3. \A j \in 1..Len(inbox[k]) : inbox[k][j] \in 1..Len(sent)
  BY <1>1, ElementOfSeq
<1>4. \A m \in 1..Len(shown[k]) : shown[k][m] \in Shown(Len(sent))
  BY <1>1, ElementOfSeq
<1>5. \A r \in Shown(Len(sent)) : r.of \in 1..Len(sent)
  BY DEF Shown
<1>6. shown[k] # << >> => Len(shown[k]) \in Nat \ {0}
  BY <1>1, EmptySeq
<1>7. shown[k] # << >> => Len(shown[k]) \in 1..Len(shown[k])
  BY <1>6
<1> QED
  BY <1>2, <1>3, <1>4, <1>5, <1>7 DEF Types

(* A step that leaves a connection alone: others may send, click or leave. *)
Kept(k) ==
  /\ Len(sent) <= Len(sent') /\ \A i \in 1..Len(sent) : sent'[i] = sent[i]
  /\ inbox'[k] = inbox[k] /\ shown'[k] = shown[k]
  /\ stage'[k] = stage[k] /\ command'[k] = command[k]
  /\ open'[k] => open[k]

LEMMA KeptOrderly ==
  ASSUME Types, NEW k \in Connections, Busy, Kept(k), Orderly(k), open[k] \in BOOLEAN, open'[k] \in BOOLEAN
  PROVE  Orderly(k)'
<1>1. /\ \A j \in 1..Len(inbox[k]) : sent'[inbox[k][j]] = sent[inbox[k][j]]
      /\ \A m \in 1..Len(shown[k]) : sent'[shown[k][m].of] = sent[shown[k][m].of]
      /\ command[k] # 0 => sent'[command[k]] = sent[command[k]]
  BY Refer DEF Kept
<1>2. Queued(k)'
  BY <1>1 DEF Orderly, Queued, Kept
<1>3. AtWork(k)'
  BY <1>1 DEF Orderly, AtWork, Waits, Kept
<1>4. Pending(k)'
  BY <1>1 DEF Orderly, Pending, AtWork, Last, Waits, Kept
<1>5. Told(k)'
  <2>1. ASSUME NEW j \in 1..Len(shown[k])
        PROVE  Turn(k, j)'
    <3>1. sent'[shown[k][j].of] = sent[shown[k][j].of] /\ shown'[k] = shown[k]
      BY <1>1 DEF Kept
    <3>2. Turn(k, j)
      BY DEF Orderly, Told
    <3> QED
      BY <3>1, <3>2 DEF Turn
  <2> QED
    BY <2>1 DEF Told, Kept
<1> QED
  BY <1>2, <1>3, <1>4, <1>5 DEF Orderly

(* One more thing shown.                                                   *)
LEMMA ToldMore ==
  ASSUME Types, NEW k \in Connections, Told(k), sent' = sent,
         NEW e \in Shown(Len(sent)), shown'[k] = Append(shown[k], e),
         sent[e.of].by = k,
         IF sent[e.of].kind = "text" /\ e.as # "thinking"
         THEN shown[k] # << >> /\ Last(k).as = "thinking" /\ e.of = Last(k).of
         ELSE shown[k] # << >> => Last(k).as # "thinking" /\ e.of > Last(k).of
  PROVE  /\ Told(k)' /\ Last(k)' = e /\ shown'[k] # << >>
         /\ \A m \in 1..Len(shown'[k]) : (m \in 1..Len(shown[k]) /\ shown'[k][m] = shown[k][m]) \/ shown'[k][m] = e
<1> DEFINE s == shown[k]
           L == Len(s)
           u == Append(s, e)
<1>1. /\ L \in Nat /\ Len(u) = L + 1 /\ u[L + 1] = e
      /\ \A j \in 1..L : u[j] = s[j]
      /\ u \in Seq(Shown(Len(sent)))
  BY AppendGrows DEF Types
<1>2. u # << >>
  BY <1>1, EmptySeq
<1>3. s # << >> <=> L # 0
  BY <1>1, EmptySeq DEF Types
<1>4. ASSUME NEW j \in 1..(L + 1)
      PROVE  Turn(k, j)'
  <2>1. CASE j # L + 1
    <3>1. j \in 1..L /\ u[j] = s[j] /\ (j > 1 => u[j - 1] = s[j - 1])
      BY <1>1, <2>1
    <3>2. Turn(k, j)
      BY <3>1 DEF Told
    <3>3. shown'[k][j] = shown[k][j] /\ (j > 1 => shown'[k][j - 1] = shown[k][j - 1])
      BY <3>1
    <3> QED
      BY <3>2, <3>3 DEF Turn
  <2>2. CASE j = L + 1
    <3>1. shown'[k][j] = e /\ (j > 1 => shown'[k][j - 1] = s[L]) /\ (j > 1 <=> s # << >>)
      BY <1>1, <1>3, <2>2
    <3> HIDE DEF s, L, u
    <3>2. Last(k) = s[L]
      BY DEF Last, s, L
    <3> QED
      BY <3>1, <3>2 DEF Turn, s
  <2> QED
    BY <2>1, <2>2
<1>5. Told(k)'
  BY <1>1, <1>4 DEF Told
<1>6. Last(k)' = e
  BY <1>1 DEF Last
<1>7. \A m \in 1..Len(shown'[k]) : (m \in 1..L /\ shown'[k][m] = s[m]) \/ shown'[k][m] = e
  BY <1>1
<1> QED
  BY <1>2, <1>5, <1>6, <1>7

(* The steps of a connection's own. *)

LEMMA AcceptOrderly ==
  ASSUME Types, Busy, NEW k \in Connections, Accept(k), Orderly(k)
  PROVE  Orderly(k)'
<1>1. inbox[k] = << >> /\ shown[k] = << >> /\ command'[k] = 0 /\ stage'[k] \in {"idle", "over"}
  BY DEF Accept, Goto, Orderly, AtWork, Types
<1>2. inbox'[k] = << >> /\ shown'[k] = << >>
  BY <1>1 DEF Accept
<1>3. 1..Len(inbox'[k]) = {} /\ 1..Len(shown'[k]) = {}
  BY <1>2
<1> QED
  BY <1>1, <1>2, <1>3 DEF Orderly, Queued, AtWork, Waits, Pending, Told

LEMMA SendOrderly ==
  ASSUME Types, Busy, NEW k \in Connections, NEW kind \in Kinds, Send(k, kind), Orderly(k)
  PROVE  Orderly(k)'
<1> DEFINE n == Len(sent)
           b == inbox[k]
           L == Len(b)
<1>1. /\ n \in Nat /\ sent'[n + 1].by = k /\ \A i \in 1..n : sent'[i] = sent[i]
  <2>1. [by |-> k, kind |-> kind] \in Messages /\ sent \in Seq(Messages)
    BY DEF Messages, Types
  <2> QED
    BY <2>1, AppendGrows DEF Send
<1>2. inbox'[k] = Append(b, n + 1) /\ b \in Seq(Nat) /\ n + 1 \in Nat
  <2>1. b \in Seq(1..n) /\ 1..n \subseteq Nat
    BY DEF Types
  <2> QED
    BY <1>1, <2>1, SeqMonotonic DEF Send, Types
<1>3. /\ L \in Nat /\ Len(inbox'[k]) = L + 1 /\ inbox'[k][L + 1] = n + 1
      /\ \A j \in 1..L : inbox'[k][j] = b[j]
  BY <1>2, AppendGrows
<1>4. UNCHANGED <<open, stage, command, shown, forwarded>> /\ open[k]
  BY DEF Send
<1>5. /\ \A j \in 1..L : b[j] \in 1..n /\ sent'[b[j]] = sent[b[j]]
      /\ \A m \in 1..Len(shown[k]) : shown[k][m].of \in 1..n /\ sent'[shown[k][m].of] = sent[shown[k][m].of]
      /\ command[k] \in 0..n /\ (command[k] # 0 => sent'[command[k]] = sent[command[k]])
  BY <1>1, Refer
<1>6. Queued(k)'
  <2>1. ASSUME NEW j \in 1..(L + 1)
        PROVE  /\ sent'[inbox'[k][j]].by = k
               /\ command[k] < inbox'[k][j]
               /\ \A m \in 1..(L + 1) : j < m => inbox'[k][j] < inbox'[k][m]
               /\ \A m \in 1..Len(shown[k]) : shown[k][m].of < inbox'[k][j]
    <3>1. CASE j = L + 1
      <4>1. \A m \in 1..(L + 1) : ~(j < m)
        BY <1>3, <3>1
      <4>2. \A i \in 0..n : i < n + 1
        BY <1>1
      <4>3. \A i \in 1..n : i < n + 1
        BY <1>1
      <4> QED
        BY <1>1, <1>3, <1>5, <3>1, <4>1, <4>2, <4>3
    <3>2. CASE j # L + 1
      <4>1. j \in 1..L /\ inbox'[k][j] = b[j]
        BY <1>3, <3>2
      <4>2. /\ sent[b[j]].by = k
            /\ command[k] < b[j]
            /\ \A m \in 1..L : j < m => b[j] < b[m]
            /\ \A m \in 1..Len(shown[k]) : shown[k][m].of < b[j]
        BY <4>1 DEF Orderly, Queued
      <4>3. \A m \in 1..(L + 1) : j < m => b[j] < inbox'[k][m]
        <5>1. b[j] < n + 1
          BY <1>1, <1>5, <4>1
        <5>2. \A m \in 1..(L + 1) : m = L + 1 \/ m \in 1..L
          BY <1>3
        <5> QED
          BY <1>3, <4>2, <5>1, <5>2
      <4>4. sent'[b[j]] = sent[b[j]]
        BY <1>5, <4>1
      <4> QED
        BY <1>5, <4>1, <4>2, <4>3, <4>4
    <3> QED
      BY <3>1, <3>2
  <2> QED
    BY <1>3, <1>4, <2>1 DEF Queued
<1>7. AtWork(k)'
  BY <1>4, <1>5 DEF Orderly, AtWork, Waits
<1>8. Pending(k)'
  BY <1>4, <1>5 DEF Orderly, Pending, AtWork, Last, Waits
<1>9. Told(k)'
  <2>1. ASSUME NEW j \in 1..Len(shown[k])
        PROVE  Turn(k, j)'
    <3>1. sent'[shown[k][j].of] = sent[shown[k][j].of] /\ shown' = shown
      BY <1>4, <1>5
    <3>2. Turn(k, j)
      BY DEF Orderly, Told
    <3> QED
      BY <3>1, <3>2 DEF Turn
  <2> QED
    BY <1>4, <2>1 DEF Told
<1> QED
  BY <1>6, <1>7, <1>8, <1>9 DEF Orderly

(* What a handler has taken is earlier than what it has not.               *)
LEMMA Taken ==
  ASSUME Types, NEW k \in Connections, Orderly(k), Take(k)
  PROVE  LET id == Head(inbox[k])
         IN  /\ id \in 1..Len(sent) /\ sent[id].by = k
             /\ command[k] = 0
             /\ \A m \in 1..Len(shown[k]) : shown[k][m].of < id
             /\ \A j \in 1..Len(inbox'[k]) :
                  /\ sent[inbox'[k][j]].by = k
                  /\ id < inbox'[k][j]
                  /\ 0 < inbox'[k][j]
                  /\ \A m \in 1..Len(inbox'[k]) : j < m => inbox'[k][j] < inbox'[k][m]
                  /\ \A m \in 1..Len(shown[k]) : shown[k][m].of < inbox'[k][j]
<1> DEFINE b == inbox[k]
           L == Len(b)
<1>1. b # << >> /\ inbox'[k] = Tail(b) /\ stage[k] = "idle"
  BY DEF Take, Types
<1>2. /\ L \in Nat \ {0} /\ Len(inbox'[k]) = L - 1
      /\ Head(b) = b[1] /\ \A j \in 1..(L - 1) : inbox'[k][j] = b[j + 1]
  BY <1>1, TailShrinks DEF Types
<1>3. 1 \in 1..L /\ \A j \in 1..(L - 1) : j + 1 \in 1..L /\ 1 < j + 1
  BY <1>2
<1>4. Queued(k) /\ command[k] = 0
  BY <1>1 DEF Orderly, AtWork, Waits
<1>5. b[1] \in 1..Len(sent)
  BY <1>3, Refer
<1>6. ASSUME NEW j \in 1..(L - 1)
      PROVE  /\ sent[inbox'[k][j]].by = k
             /\ b[1] < inbox'[k][j]
             /\ 0 < inbox'[k][j]
             /\ \A m \in 1..(L - 1) : j < m => inbox'[k][j] < inbox'[k][m]
             /\ \A m \in 1..Len(shown[k]) : shown[k][m].of < inbox'[k][j]
  <2>1. inbox'[k][j] = b[j + 1] /\ j + 1 \in 1..L
    BY <1>2, <1>3
  <2>2. b[1] < b[j + 1]
    BY <1>3, <1>4 DEF Queued
  <2>3. ASSUME NEW m \in 1..(L - 1), j < m
        PROVE  b[j + 1] < inbox'[k][m]
    <3>1. inbox'[k][m] = b[m + 1] /\ m + 1 \in 1..L /\ j + 1 < m + 1
      BY <1>2, <1>3, <2>3
    <3> QED
      BY <1>4, <2>1, <3>1 DEF Queued
  <2>4. b[j + 1] \in 1..Len(sent)
    BY <2>1, Refer
  <2>5. 0 < b[j + 1]
    BY <2>4
  <2> QED
    BY <1>4, <2>1, <2>2, <2>3, <2>5 DEF Queued
<1>7. /\ sent[b[1]].by = k
      /\ \A m \in 1..Len(shown[k]) : shown[k][m].of < b[1]
  BY <1>3, <1>4 DEF Queued
<1> HIDE DEF b, L
<1> QED
  BY <1>2, <1>4, <1>5, <1>6, <1>7 DEF b

LEMMA TakeOrderly ==
  ASSUME Types, Busy, NEW k \in Connections, Take(k), Orderly(k)
  PROVE  Orderly(k)'
<1> DEFINE id == Head(inbox[k])
<1>1. /\ id \in 1..Len(sent) /\ sent[id].by = k
      /\ command[k] = 0
      /\ \A m \in 1..Len(shown[k]) : shown[k][m].of < id
  BY Taken
<1>2. \A j \in 1..Len(inbox'[k]) :
        /\ sent[inbox'[k][j]].by = k
        /\ id < inbox'[k][j]
        /\ 0 < inbox'[k][j]
        /\ \A m \in 1..Len(inbox'[k]) : j < m => inbox'[k][j] < inbox'[k][m]
        /\ \A m \in 1..Len(shown[k]) : shown[k][m].of < inbox'[k][j]
  BY Taken
<1> HIDE DEF id
<1>3. sent' = sent /\ stage[k] = "idle"
  BY DEF Take
<1>4. AtWork(k) /\ Pending(k) /\ Told(k)
  BY DEF Orderly
<1>5. shown[k] # << >> => Last(k).of < id /\ Last(k).as # "thinking"
  BY <1>1, <1>3, <1>4, Refer DEF Last, Pending
<1>6. CASE /\ sent[id].kind = "text" /\ Show(k, id, "thinking") /\ Goto(k, "connecting", id)
           /\ UNCHANGED <<open, connected, forwarded>>
  <2> DEFINE e == [of |-> id, as |-> "thinking"]
  <2>1. e \in Shown(Len(sent)) /\ e.of = id /\ e.as = "thinking"
    BY <1>1, Refer DEF Shown
  <2>2. shown'[k] = Append(shown[k], e) /\ stage'[k] = "connecting" /\ command'[k] = id
    BY <1>6 DEF Show, Goto, Types
  <2> HIDE DEF e
  <2>3. shown[k] # << >> => Last(k).as # "thinking" /\ e.of > Last(k).of
    <3>1. shown[k] # << >> => Last(k).of \in Int /\ id \in Int
      BY <1>1, Refer DEF Last
    <3> QED
      BY <1>5, <2>1, <3>1
  <2>4. e.as # "response"
    BY <2>1
  <2>5. /\ Told(k)' /\ Last(k)' = e /\ shown'[k] # << >>
        /\ \A m \in 1..Len(shown'[k]) : (m \in 1..Len(shown[k]) /\ shown'[k][m] = shown[k][m]) \/ shown'[k][m] = e
    BY <1>1, <1>3, <1>4, <2>1, <2>2, <2>3, <2>4, ToldMore
  <2>6. Queued(k)'
    BY <1>2, <1>3, <1>6, <2>1, <2>2, <2>5 DEF Queued
  <2>7. AtWork(k)' /\ Pending(k)'
    BY <1>1, <1>3, <1>6, <2>1, <2>2, <2>5 DEF AtWork, Pending, Waits
  <2> QED
    BY <2>5, <2>6, <2>7 DEF Orderly
<1>7. CASE /\ sent[id].kind = "resume" /\ Goto(k, "connecting", id)
           /\ UNCHANGED <<open, connected, forwarded, shown>>
  <2>1. stage'[k] = "connecting" /\ command'[k] = id
    BY <1>7 DEF Goto, Types
  <2>2. Queued(k)'
    BY <1>2, <1>3, <1>7, <2>1 DEF Queued
  <2>3. AtWork(k)'
    BY <1>1, <1>3, <1>7, <2>1 DEF AtWork, Waits
  <2>4. Last(k)' = Last(k)
    BY <1>7 DEF Last
  <2>5. Pending(k)'
    BY <1>3, <1>5, <1>7, <2>1, <2>4 DEF Pending, Waits
  <2>6. Told(k)'
    BY <1>3, <1>4, <1>7 DEF Told, Turn
  <2> QED
    BY <2>2, <2>3, <2>5, <2>6 DEF Orderly
<1>8. CASE End(k) /\ UNCHANGED <<forwarded, shown>>
  <2>1. stage'[k] = "over" /\ command'[k] = 0
    BY <1>8 DEF End, Goto, Types
  <2>2. Queued(k)'
    BY <1>2, <1>3, <1>8, <2>1 DEF Queued
  <2>3. AtWork(k)' /\ Pending(k)'
    BY <2>1 DEF AtWork, Pending, Waits
  <2>4. Told(k)'
    BY <1>3, <1>4, <1>8 DEF Told, Turn
  <2> QED
    BY <2>2, <2>3, <2>4 DEF Orderly
<1>9. CASE /\ forwarded' = forwarded \/ forwarded' = forwarded \cup {id}
           /\ UNCHANGED <<open, connected, shown, stage, command>>
  <2>2. Queued(k)'
    BY <1>1, <1>2, <1>3, <1>9 DEF Queued
  <2>3. Last(k)' = Last(k)
    BY <1>9 DEF Last
  <2>4. AtWork(k)' /\ Pending(k)'
    BY <1>1, <1>3, <1>4, <1>5, <1>9, <2>3 DEF AtWork, Pending, Waits
  <2>5. Told(k)'
    BY <1>3, <1>4, <1>9 DEF Told, Turn
  <2> QED
    BY <2>2, <2>4, <2>5 DEF Orderly
<1>10. \/ /\ sent[id].kind = "text" /\ Show(k, id, "thinking") /\ Goto(k, "connecting", id)
          /\ UNCHANGED <<open, connected, forwarded>>
       \/ /\ sent[id].kind = "resume" /\ Goto(k, "connecting", id)
          /\ UNCHANGED <<open, connected, forwarded, shown>>
       \/ End(k) /\ UNCHANGED <<forwarded, shown>>
       \/ /\ forwarded' = forwarded \/ forwarded' = forwarded \cup {id}
          /\ UNCHANGED <<open, connected, shown, stage, command>>
  BY DEF Take, id
<1> QED
  BY <1>6, <1>7, <1>8, <1>9, <1>10

(* The command of a waiting handler is settled: shown of, and let go.      *)
LEMMA EndOrderly ==
  ASSUME Types, Busy, NEW k \in Connections, Waits(k) \/ stage[k] = "idle", End(k), Orderly(k),
         UNCHANGED <<sent, inbox, shown, forwarded>>
  PROVE  Orderly(k)'
<1>1. stage'[k] = "over" /\ command'[k] = 0
  BY DEF End, Goto, Types
<1>2. Queued(k)'
  <2>1. \A j \in 1..Len(inbox[k]) : 0 < inbox[k][j]
    BY Refer
  <2> QED
    BY <1>1, <2>1 DEF Orderly, Queued
<1>3. AtWork(k)' /\ Pending(k)'
  BY <1>1 DEF AtWork, Pending, Waits
<1>4. Told(k)'
  BY DEF Orderly, Told, Turn
<1> QED
  BY <1>2, <1>3, <1>4 DEF Orderly

LEMMA RespondOrderly ==
  ASSUME Types, Busy, NEW k \in Connections, Waits(k), Orderly(k),
         NEW as \in {"response", "invalid", "timeout", "error"},
         Respond(k, as), UNCHANGED <<sent, inbox, forwarded>>
  PROVE  Orderly(k)'
<1>1. CASE ~open[k]
  BY <1>1, EndOrderly DEF Respond
<1>2. CASE open[k]
  <2> DEFINE e == [of |-> command[k], as |-> as]
  <2>1. command[k] \in 1..Len(sent)
    BY Refer DEF Busy
  <2>2. e \in Shown(Len(sent)) /\ e.of = command[k] /\ e.as = as
    BY <2>1 DEF Shown
  <2>3. shown'[k] = Append(shown[k], e) /\ stage'[k] = "idle" /\ command'[k] = 0
    BY <1>2 DEF Respond, Show, Goto, Types
  <2> HIDE DEF e
  <2>4. Queued(k) /\ AtWork(k) /\ Pending(k) /\ Told(k)
    BY DEF Orderly
  <2>5. /\ sent[e.of].by = k /\ e.as # "thinking"
        /\ sent[e.of].kind \in {"text", "resume"}
    BY <2>2, <2>4 DEF AtWork
  <2>6. IF sent[e.of].kind = "text" /\ e.as # "thinking"
        THEN shown[k] # << >> /\ Last(k).as = "thinking" /\ e.of = Last(k).of
        ELSE shown[k] # << >> => Last(k).as # "thinking" /\ e.of > Last(k).of
    <3>1. CASE sent[e.of].kind = "text"
      BY <2>2, <2>4, <2>5, <3>1 DEF Pending
    <3>2. CASE sent[e.of].kind = "resume"
      <4>1. shown[k] # << >> => Last(k).as # "thinking" /\ Last(k).of < command[k]
        BY <2>2, <2>4, <3>2 DEF Pending
      <4>2. shown[k] # << >> => Last(k).of \in Int /\ command[k] \in Int
        BY <2>1, Refer DEF Last
      <4> QED
        BY <2>2, <3>2, <4>1, <4>2
    <3> QED
      BY <2>5, <3>1, <3>2
  <2>7. /\ Told(k)' /\ Last(k)' = e /\ shown'[k] # << >>
        /\ \A m \in 1..Len(shown'[k]) : (m \in 1..Len(shown[k]) /\ shown'[k][m] = shown[k][m]) \/ shown'[k][m] = e
    BY <2>2, <2>3, <2>4, <2>5, <2>6, ToldMore
  <2>8. Queued(k)'
    <3>1. \A j \in 1..Len(inbox[k]) : 0 < inbox[k][j] /\ command[k] < inbox[k][j]
      BY <2>4, Refer DEF Queued
    <3> QED
      BY <2>2, <2>3, <2>4, <2>7, <3>1 DEF Queued
  <2>9. AtWork(k)' /\ Pending(k)'
    BY <2>2, <2>3, <2>5, <2>7 DEF AtWork, Pending, Waits
  <2> QED
    BY <2>7, <2>8, <2>9 DEF Orderly
<1> QED
  BY <1>1, <1>2 DEF Types

(* The command goes to the agent.                                          *)
LEMMA AskOrderly ==
  ASSUME Types, Busy, NEW k \in Connections, stage[k] = "connecting", Goto(k, "asking", command[k]),
         Orderly(k), UNCHANGED <<open, sent, inbox, shown, forwarded>>
  PROVE  Orderly(k)'
<1>1. stage'[k] = "asking" /\ command'[k] = command[k]
  BY DEF Goto, Types
<1>2. Queued(k)'
  BY <1>1 DEF Orderly, Queued
<1>3. AtWork(k)'
  BY <1>1 DEF Orderly, AtWork, Waits
<1>4. Last(k)' = Last(k)
  BY DEF Last
<1>5. Pending(k)'
  BY <1>1, <1>4 DEF Orderly, Pending, Waits
<1>6. Told(k)'
  BY DEF Orderly, Told, Turn
<1> QED
  BY <1>2, <1>3, <1>5, <1>6 DEF Orderly

LEMMA HandlerOrderly ==
  ASSUME Types, Busy, NEW k \in Connections, Handler(k), Orderly(k)
  PROVE  Orderly(k)'
<1>1. CASE Take(k)
  BY <1>1, TakeOrderly
<1>2. CASE Connect(k)
  <2>1. stage[k] = "connecting" /\ Waits(k) /\ UNCHANGED <<sent, inbox, forwarded>> /\ 0 \in 0..Len(sent)
    BY <1>2, Refer DEF Connect, Waits
  <2>2. CASE Goto(k, "asking", command[k]) /\ UNCHANGED <<open, connected, shown>>
    BY <2>1, <2>2, AskOrderly
  <2>3. CASE Respond(k, "error")
    BY <2>1, <2>3, RespondOrderly
  <2>4. CASE End(k) /\ UNCHANGED <<agent, shown>>
    BY <2>1, <2>4, EndOrderly
  <2> QED
    BY <1>2, <2>2, <2>3, <2>4 DEF Connect
<1>3. CASE Reply(k)
  <2>1. Waits(k) /\ UNCHANGED <<sent, inbox, forwarded>> /\ 0 \in 0..Len(sent) /\ command[k] \in 0..Len(sent)
    BY <1>3, Refer DEF Reply, Waits
  <2>2. CASE Respond(k, "response")
    BY <2>1, <2>2, RespondOrderly
  <2>3. CASE Respond(k, "invalid")
    BY <2>1, <2>3, RespondOrderly
  <2>4. CASE End(k) /\ UNCHANGED <<agent, shown>>
    BY <2>1, <2>4, EndOrderly
  <2> QED
    BY <1>3, <2>2, <2>3, <2>4 DEF Reply
<1>4. CASE TimesOut(k)
  <2>1. /\ Waits(k) /\ UNCHANGED <<sent, inbox, forwarded>> /\ 0 \in 0..Len(sent)
        /\ Respond(k, "timeout")
    BY <1>4, Refer DEF TimesOut, Waits
  <2> QED
    BY <2>1, RespondOrderly
<1>5. CASE Ends(k)
  BY <1>5, EndOrderly DEF Ends
<1> QED
  BY <1>1, <1>2, <1>3, <1>4, <1>5 DEF Handler

(* Every connection but the one that acts is left alone.                   *)
LEMMA OthersKept ==
  ASSUME Types, NEW k \in Connections, NEW q \in Connections \ {k}, Orderly(q),
         Accept(q) \/ Leave(q) \/ Handler(q) \/ \E kind \in Kinds : Send(q, kind)
  PROVE  Kept(k)
<1>1. Len(sent) \in Nat /\ forwarded \subseteq 1..Len(sent)
  BY Refer
<1>2. CASE Accept(q) \/ Leave(q)
  <2>1. UNCHANGED <<sent, inbox, shown, forwarded>>
    BY <1>2 DEF Accept, Leave
  <2>2. stage'[k] = stage[k] /\ command'[k] = command[k]
    BY <1>2 DEF Accept, Leave, Goto, Types
  <2>3. open'[k] => open[k]
    BY <1>2 DEF Accept, Leave, Types
  <2> QED
    BY <1>1, <2>1, <2>2, <2>3 DEF Kept
<1>3. CASE \E kind \in Kinds : Send(q, kind)
  <2>1. PICK kind \in Kinds : Send(q, kind)
    BY <1>3
  <2>2. [by |-> q, kind |-> kind] \in Messages /\ sent \in Seq(Messages)
    BY DEF Messages, Types
  <2>3. Len(sent') = Len(sent) + 1 /\ \A i \in 1..Len(sent) : sent'[i] = sent[i]
    BY <2>1, <2>2, AppendGrows DEF Send
  <2>4. Len(sent) <= Len(sent')
    BY <1>1, <2>3
  <2> QED
    BY <1>1, <2>1, <2>3, <2>4 DEF Send, Kept, Types
<1>4. CASE Handler(q)
  <2>1. sent' = sent
    BY <1>4 DEF Handler, Take, Connect, Reply, TimesOut, Ends
  <2>2. inbox'[k] = inbox[k]
    BY <1>4 DEF Handler, Take, Connect, Reply, TimesOut, Ends, Types
  <2>3. stage'[k] = stage[k] /\ command'[k] = command[k] /\ (open'[k] => open[k])
    <3>1. CASE UNCHANGED <<stage, command, open>>
      BY <3>1
    <3>2. CASE End(q)
      BY <3>2 DEF End, Goto, Types
    <3>3. CASE \E s \in Stages : (\E c \in 0..Len(sent) : Goto(q, s, c)) /\ UNCHANGED open
      BY <3>3 DEF Goto, Types
    <3>4. "idle" \in Stages /\ "connecting" \in Stages /\ "asking" \in Stages
      BY DEF Stages
    <3>5. 0 \in 0..Len(sent) /\ command[q] \in 0..Len(sent)
      BY Refer
    <3>6. CASE \E as \in {"response", "invalid", "timeout", "error"} : Respond(q, as)
      BY <3>2, <3>3, <3>4, <3>5, <3>6 DEF Respond
    <3>7. Take(q) => Head(inbox[q]) \in 0..Len(sent)
      BY Taken
    <3>8. CASE Take(q)
      BY <3>1, <3>2, <3>3, <3>4, <3>7, <3>8 DEF Take
    <3>9. CASE Connect(q)
      BY <3>2, <3>3, <3>4, <3>5, <3>6, <3>9 DEF Connect
    <3>10. CASE Reply(q)
      BY <3>2, <3>5, <3>6, <3>10 DEF Reply
    <3>11. CASE TimesOut(q)
      BY <3>5, <3>6, <3>11 DEF TimesOut
    <3> QED
      BY <1>4, <3>2, <3>8, <3>9, <3>10, <3>11 DEF Handler, Ends
  <2>4. shown'[k] = shown[k]
    BY <1>4 DEF Handler, Take, Connect, Reply, TimesOut, Ends, Respond, Show, Types
  <2>6. Len(sent) <= Len(sent') /\ \A i \in 1..Len(sent) : sent'[i] = sent[i]
    BY <1>1, <2>1
  <2> QED
    BY <2>2, <2>3, <2>4, <2>6 DEF Kept
<1> QED
  BY <1>2, <1>3, <1>4

AllOrderly == \A k \in Connections : Orderly(k)

LEMMA OrderlyInductive ==
  ASSUME Types, Types', Busy, AllOrderly, [Next]_vars
  PROVE  AllOrderly'
<1> SUFFICES ASSUME NEW k \in Connections
             PROVE  Orderly(k)'
  BY DEF AllOrderly
<1>1. Orderly(k) /\ open[k] \in BOOLEAN /\ open'[k] \in BOOLEAN
  BY DEF AllOrderly, Types
<1>2. CASE Kept(k)
  BY <1>1, <1>2, KeptOrderly
<1>3. ASSUME NEW q \in Connections,
             Accept(q) \/ Leave(q) \/ Handler(q) \/ \E kind \in Kinds : Send(q, kind)
      PROVE  Orderly(k)'
  <2>1. CASE q # k
    <3>1. Orderly(q)
      BY DEF AllOrderly
    <3> QED
      BY <1>2, <1>3, <2>1, <3>1, OthersKept
  <2>2. CASE q = k
    <3>1. Leave(k) => Kept(k)
      BY Refer DEF Leave, Kept, Types
    <3> QED
      BY <1>1, <1>2, <1>3, <2>2, <3>1, AcceptOrderly, HandlerOrderly, SendOrderly
  <2> QED
    BY <2>1, <2>2
<1>4. CASE \/ \E i \in Ids : Answer(i)
          \/ SocketChanges \/ Signal \/ Down \/ UNCHANGED vars
  <2>1. UNCHANGED <<sent, inbox, shown, stage, command, forwarded>> /\ (open'[k] => open[k])
    BY <1>4 DEF Answer, SocketChanges, Signal, Down, vars
  <2>2. Kept(k)
    BY <2>1, Refer DEF Kept
  <2> QED
    BY <1>2, <2>2
<1> QED
  BY <1>3, <1>4 DEF Next

LEMMA Ordered == Spec => []AllOrderly
<1>1. Init => AllOrderly
  <2> SUFFICES ASSUME Init, NEW k \in Connections
               PROVE  Orderly(k)
    BY DEF AllOrderly
  <2>1. inbox[k] = << >> /\ shown[k] = << >> /\ ~open[k] /\ stage[k] = "new" /\ command[k] = 0
    BY DEF Init
  <2>2. 1..Len(inbox[k]) = {} /\ 1..Len(shown[k]) = {}
    BY <2>1
  <2> QED
    BY <2>1, <2>2 DEF Orderly, Queued, AtWork, Waits, Pending, Told
<1>2. Init => Types /\ AtHand /\ Busy
  BY InitTypes
<1>3. Types /\ AtHand /\ Busy /\ [Next]_vars => (Types /\ AtHand /\ Busy)'
  BY TypesInductive
<1>4. Types /\ Types' /\ Busy /\ AllOrderly /\ [Next]_vars => AllOrderly'
  BY OrderlyInductive
<1> QED
  BY <1>1, <1>2, <1>3, <1>4, PTL DEF Spec

(* Each command is acknowledged and replied to once and in its turn,       *)
(* however many are sent while the handler waits.                          *)
THEOREM RepliesInTurn == Spec => []InTurn
<1>1. AllOrderly => InTurn
  BY DEF AllOrderly, Orderly, Told, Turn, InTurn
<1> QED
  BY <1>1, Ordered, PTL
=============================================================================
