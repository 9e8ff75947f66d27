------------------------- MODULE ConfirmGateProofs -------------------------
(***************************************************************************)
(* For any number of proposals, threads and answers: nothing that needs a  *)
(* confirmation is executed without one, whatever comes late; the action   *)
(* log tells what happened; and the terminal is always read.               *)
(***************************************************************************)
EXTENDS ConfirmGate, SequenceTheorems, TLAPS

USE GateAssumption

Statuses == {"proposed"} \cup Executed \cup Refused

LEMMA HeadAndTail ==
  ASSUME NEW S, NEW q \in Seq(S), q # << >>
  PROVE  /\ Head(q) \in S /\ Tail(q) \in Seq(S)
         /\ Len(q) \in Nat /\ Len(q) >= 1
         /\ Head(q) = q[1]
         /\ Len(Tail(q)) = Len(q) - 1
         /\ \A n \in 1..Len(Tail(q)) : n + 1 \in 1..Len(q) /\ Tail(q)[n] = q[n + 1]
<1>1. /\ Head(q) \in S /\ Tail(q) \in Seq(S)
      /\ Len(q) \in Nat /\ Len(q) >= 1 /\ Head(q) = q[1]
      /\ Len(Tail(q)) = Len(q) - 1
      /\ \A n \in 1..Len(Tail(q)) : Tail(q)[n] = q[n + 1]
  BY HeadTailProperties, LenProperties, EmptySeq
<1> QED
  BY <1>1

(* What a step of the task of p leaves alone.                              *)
LEMMA ReachType ==
  ASSUME NEW p \in Proposals, NEW next \in Stages, NEW statuses \in Seq(Statuses),
         stage \in [Proposals -> Stages], actionLog \in [Proposals -> Seq(Statuses)],
         Reach(p, next, statuses)
  PROVE  /\ stage' \in [Proposals -> Stages]
         /\ actionLog' \in [Proposals -> Seq(Statuses)]
         /\ stage'[p] = next
         /\ actionLog'[p] = actionLog[p] \o statuses
         /\ \A q \in Proposals \ {p} : stage'[q] = stage[q] /\ actionLog'[q] = actionLog[q]
<1>1. actionLog[p] \o statuses \in Seq(Statuses)
  BY ConcatProperties
<1> QED
  BY <1>1 DEF Reach

LEMMA TypeInductive ==
  ASSUME TypeOK, [Next]_vars
  PROVE  TypeOK'
<1> USE DEF Statuses
<1>1. /\ << >> \in Seq(Statuses)
      /\ \A a \in Statuses : <<a>> \in Seq(Statuses)
      /\ \A a, b \in Statuses : <<a, b>> \in Seq(Statuses)
  BY EmptySeq
<1>2. ASSUME NEW p \in Proposals, Propose(p)
      PROVE  TypeOK'
  <2>1. ASSUME NEW level \in Levels, NEW next \in Stages, NEW statuses \in Seq(Statuses),
               Classify(p, level), Reach(p, next, statuses)
        PROVE  /\ risk' \in [Proposals -> Levels] /\ UNCHANGED <<ui, closing, exited>>
               /\ stage' \in [Proposals -> Stages]
               /\ actionLog' \in [Proposals -> Seq(Statuses)]
    BY <2>1, ReachType DEF Classify, TypeOK
  <2>2. CASE ProposeBlock(p)
    BY <1>1, <2>1, <2>2 DEF ProposeBlock, TypeOK, Levels, Stages, Refused, prompts, history
  <2>3. CASE ProposeNotify(p)
    BY <1>1, <2>1, <2>3 DEF ProposeNotify, TypeOK, Levels, Stages, prompts, history
  <2>4. CASE ProposeAuto(p)
    BY <1>1, <2>1, <2>4 DEF ProposeAuto, TypeOK, Levels, Stages, prompts, history
  <2>5. CASE AskTerminal(p)
    <3>1. Append(queue, p) \in Seq(Proposals)
      BY AppendProperties DEF TypeOK
    <3> QED
      BY <1>1, <2>1, <2>5, <3>1 DEF AskTerminal, TypeOK, Levels, Stages
  <2>6. CASE AskUI(p)
    BY <1>1, <2>1, <2>6 DEF AskUI, TypeOK, Levels, Stages, prompts, history
  <2> QED
    BY <1>2, <2>2, <2>3, <2>4, <2>5, <2>6 DEF Propose
<1>3. ASSUME NEW p \in Proposals, Decide(p) \/ Finish(p)
      PROVE  TypeOK'
  <2>1. ASSUME NEW next \in Stages, NEW statuses \in Seq(Statuses), Reach(p, next, statuses),
               UNCHANGED <<ui, risk, prompts, closing, exited, asked>>,
               ran' \subseteq Proposals, late' \subseteq Proposals
        PROVE  TypeOK'
    BY <2>1, ReachType DEF TypeOK, prompts
  <2>2. CASE Told(p)
    BY <1>1, <2>1, <2>2 DEF Told, TypeOK, Stages, Refused, history
  <2>3. CASE WindowPasses(p)
    BY <1>1, <2>1, <2>3 DEF WindowPasses, TypeOK, Stages, history
  <2>4. CASE UIRefuses(p)
    BY <1>1, <2>1, <2>4 DEF UIRefuses, TypeOK, Stages, Refused, history
  <2>5. CASE AskTimesOut(p)
    BY <1>1, <2>1, <2>5 DEF AskTimesOut, TypeOK, Stages, Refused
  <2>6. CASE PromptReturns(p)
    BY <1>1, <2>1, <2>6 DEF PromptReturns, TypeOK, Stages, Refused, history
  <2>7. CASE Finish(p)
    <3>1. PICK outcome \in Executed : Reach(p, "done", <<outcome>>)
      BY <2>7 DEF Finish, Executed
    <3> QED
      BY <1>1, <2>1, <2>7, <3>1 DEF Finish, TypeOK, Stages, history
  <2> QED
    BY <1>3, <2>2, <2>3, <2>4, <2>5, <2>6, <2>7 DEF Decide
<1>4. CASE StartWorker
  BY <1>4, HeadAndTail DEF StartWorker, TypeOK, history
<1>5. ASSUME NEW line \in {"yes", "no", "eof"}, Read(line)
      PROVE  TypeOK'
  BY <1>5 DEF Read, TypeOK, history
<1>6. CASE TypeLine \/ InputEnds
  BY <1>5, <1>6 DEF TypeLine, InputEnds
<1>7. CASE UIStarts \/ UIStops
  <2>1. ui' \in {"absent", "serving", "stale"}
    BY <1>7 DEF UIStarts, UIStops
  <2>2. UNCHANGED <<stage, risk, actionLog, prompts, closing, exited, history, ran>>
    BY <1>7 DEF UIStarts, UIStops
  <2> QED
    BY <2>1, <2>2 DEF TypeOK, prompts, history
<1>8. CASE Shutdown
  <2>1. \A p \in Proposals :
          actionLog[p] \in Seq(Statuses) /\ Append(actionLog[p], "cancelled_notify") \in Seq(Statuses)
    BY AppendProperties DEF TypeOK, Refused
  <2>2. actionLog' \in [Proposals -> Seq(Statuses)]
    BY <1>8, <2>1 DEF Shutdown
  <2>3. stage' \in [Proposals -> Stages] /\ closing' \in BOOLEAN
    BY <1>8 DEF Shutdown, TypeOK, Stages
  <2> QED
    BY <1>8, <2>2, <2>3 DEF Shutdown, TypeOK, prompts, history
<1>9. CASE Exit
  BY <1>9 DEF Exit, TypeOK, prompts, history
<1>10. CASE UNCHANGED vars
  BY <1>10 DEF vars, TypeOK, prompts, history
<1> QED
  BY <1>2, <1>3, <1>4, <1>6, <1>7, <1>8, <1>9, <1>10 DEF Next

(* What the shutdown does to a task.                                       *)
LEMMA ShutdownOf ==
  ASSUME TypeOK, Shutdown, NEW p \in Proposals
  PROVE  \/ stage[p] = "window" /\ stage'[p] = "done"
         \/ stage[p] \in {"telling", "ui", "prompt", "run"} /\ stage'[p] = "raised"
         \/ stage[p] # "window" /\ stage'[p] = stage[p]
<1>1. PICK on \in SUBSET {q \in Proposals : MayGoOn(q)} :
        stage' = [q \in Proposals |->
                    IF Over(q) \/ q \in on THEN stage[q]
                    ELSE IF stage[q] = "window" THEN "done" ELSE "raised"]
  BY DEF Shutdown
<1>2. p \in on => stage[p] # "window"
  BY DEF MayGoOn
<1>3. stage[p] \in Stages
  BY DEF TypeOK
<1> QED
  BY <1>1, <1>2, <1>3 DEF Over, Stages

(* The gate and the terminal's threads keep their types.                   *)
THEOREM TypeCorrect == Spec => []TypeOK
<1>1. Init => TypeOK
  <2>1. << >> \in Seq({"proposed"} \cup Executed \cup Refused) /\ << >> \in Seq(Proposals)
    BY EmptySeq
  <2> QED
    BY <2>1 DEF Init, TypeOK, Stages, Levels
<1> QED
  BY <1>1, TypeInductive, PTL DEF Spec

-----------------------------------------------------------------------------

(* The history a step may leave alone, and the terminal with it.           *)
LEMMA StagesInductive ==
  ASSUME TypeOK, TerminalServed, StageTells, RunsOnlyIfApproved, [Next]_vars
  PROVE  StageTells' /\ RunsOnlyIfApproved'
<1>1. ASSUME NEW p \in Proposals, Propose(p)
      PROVE  StageTells' /\ RunsOnlyIfApproved'
  <2>1. /\ stage[p] = "new" /\ p \notin asked /\ p \notin ran /\ p \notin late
        /\ \A q \in Proposals \ {p} : stage'[q] = stage[q] /\ risk'[q] = risk[q]
        /\ late' = late /\ answer' = answer
    BY <1>1 DEF Propose, ProposeBlock, ProposeNotify, ProposeAuto, AskTerminal, AskUI,
                Classify, Reach, TypeOK, StageTells, prompts, history
  <2>2. \/ stage'[p] \in {"telling", "done"} /\ risk'[p] = "BLOCK" /\ ran' = ran /\ asked' = asked
        \/ stage'[p] \in {"telling", "window"} /\ risk'[p] = "NOTIFY" /\ ran' = ran /\ asked' = asked
        \/ stage'[p] = "run" /\ risk'[p] = "AUTO" /\ ran' = ran \cup {p} /\ asked' = asked
        \/ stage'[p] \in {"ui", "prompt"} /\ risk'[p] = "CONFIRM" /\ ran' = ran /\ asked' \subseteq asked \cup {p}
    BY <1>1 DEF Propose, ProposeBlock, ProposeNotify, ProposeAuto, AskTerminal, AskUI,
                Classify, Reach, TypeOK, prompts, history
  <2>3. StageTells'
    BY <2>1, <2>2 DEF StageTells
  <2>4. RunsOnlyIfApproved'
    BY <2>1, <2>2 DEF RunsOnlyIfApproved, TypeOK
  <2> QED
    BY <2>3, <2>4
<1>2. ASSUME NEW p \in Proposals, Decide(p) \/ Finish(p)
      PROVE  StageTells' /\ RunsOnlyIfApproved'
  <2>1. /\ \A q \in Proposals \ {p} : stage'[q] = stage[q]
        /\ risk' = risk /\ asked' = asked /\ answer' = answer
    BY <1>2 DEF Decide, Told, WindowPasses, UIRefuses, AskTimesOut, PromptReturns, Finish,
                Reach, TypeOK, prompts, history
  <2>2. \/ /\ stage[p] = "telling" /\ stage'[p] = "done" /\ ran' = ran /\ late' = late
        \/ /\ stage[p] = "telling" /\ risk[p] = "NOTIFY" /\ stage'[p] = "window"
           /\ ran' = ran /\ late' = late
        \/ /\ stage[p] = "window" /\ stage'[p] = "run" /\ ran' = ran \cup {p} /\ late' = late
        \/ /\ stage[p] \in {"ui", "prompt", "run"} /\ stage'[p] \in {"done", "raised"}
           /\ ran' = ran /\ late' = late
        \/ /\ stage[p] = "prompt" /\ stage'[p] = "done" /\ ran' = ran /\ late' = late \cup {p}
        \/ /\ stage[p] = "prompt" /\ answer[p] = "yes" /\ stage'[p] = "run"
           /\ ran' = ran \cup {p} /\ late' = late
    BY <1>2 DEF Decide, Told, WindowPasses, UIRefuses, AskTimesOut, PromptReturns, Finish,
                Reach, TypeOK, history
  <2>3. StageTells'
    BY <2>1, <2>2 DEF StageTells
  <2>4. RunsOnlyIfApproved'
    BY <2>1, <2>2 DEF RunsOnlyIfApproved, StageTells, TypeOK
  <2> QED
    BY <2>3, <2>4
<1>3. CASE StartWorker \/ UIStarts \/ UIStops \/ Exit \/ UNCHANGED vars
  <2>1. UNCHANGED <<stage, risk, asked, late, ran, answer>>
    BY <1>3 DEF StartWorker, UIStarts, UIStops, Exit, vars, prompts, history
  <2> QED
    BY <2>1 DEF StageTells, RunsOnlyIfApproved
<1>4. CASE TypeLine \/ InputEnds
  <2>1. PICK line : Read(line)
    BY <1>4 DEF TypeLine, InputEnds
  <2>2. UNCHANGED <<stage, risk, asked, late, ran>> /\ reader \in asked
    BY <2>1 DEF Read, TerminalServed, history
  <2>3. answer[reader] = "none" /\ \A q \in Proposals : q # reader => answer'[q] = answer[q]
    BY <2>1 DEF Read, TerminalServed, TypeOK
  <2>4. RunsOnlyIfApproved'
    BY <2>2, <2>3 DEF RunsOnlyIfApproved, TypeOK
  <2> QED
    BY <2>2, <2>3, <2>4 DEF StageTells
<1>5. CASE Shutdown
  <2>1. UNCHANGED <<risk, asked, late, ran, answer>>
    BY <1>5 DEF Shutdown, prompts, history
  <2>2. \A p \in Proposals :
          \/ stage[p] # "window" /\ stage'[p] = stage[p]
          \/ stage[p] = "window" /\ stage'[p] = "done"
          \/ stage[p] \in {"telling", "ui", "prompt", "run"} /\ stage'[p] = "raised"
    BY <1>5, ShutdownOf
  <2> QED
    BY <2>1, <2>2 DEF StageTells, RunsOnlyIfApproved
<1> QED
  BY <1>1, <1>2, <1>3, <1>4, <1>5 DEF Next

LEMMA TerminalInductive ==
  ASSUME TypeOK, TerminalServed, StageTells, [Next]_vars
  PROVE  TerminalServed'
<1>1. ASSUME UNCHANGED <<prompts, asked>>
      PROVE  TerminalServed'
  BY <1>1 DEF prompts, TerminalServed
<1>2. ASSUME NEW p \in Proposals, AskTerminal(p)
      PROVE  TerminalServed'
  <2>1. /\ queue' = Append(queue, p) /\ asked' = asked \cup {p}
        /\ busy' = busy /\ reader' = reader /\ answer' = answer
        /\ p \notin asked /\ answer[p] = "none"
    BY <1>2 DEF AskTerminal, Classify, StageTells
  <2>2. /\ Len(queue) \in Nat /\ Len(queue') = Len(queue) + 1
        /\ \A n \in 1..Len(queue) : queue'[n] = queue[n]
        /\ queue'[Len(queue) + 1] = p
    BY <2>1, AppendProperties, LenProperties DEF TypeOK
  <2>3. p \notin busy /\ \A n \in 1..Len(queue) : queue[n] # p
    BY <2>1 DEF TerminalServed
  <2>4. ASSUME NEW n \in 1..Len(queue')
        PROVE  /\ queue'[n] \in asked' /\ queue'[n] \notin busy /\ answer[queue'[n]] = "none"
               /\ \A m \in 1..Len(queue') : queue'[m] = queue'[n] => m = n
    <3>1. \A m \in 1..Len(queue') : m \in 1..Len(queue) \/ m = Len(queue) + 1
      BY <2>2
    <3>2. CASE n \in 1..Len(queue)
      BY <2>1, <2>2, <2>3, <3>1, <3>2 DEF TerminalServed
    <3>3. CASE n = Len(queue) + 1
      BY <2>1, <2>2, <2>3, <3>1, <3>3 DEF TerminalServed
    <3> QED
      BY <3>1, <3>2, <3>3
  <2> QED
    BY <2>1, <2>4 DEF TerminalServed
<1>3. CASE StartWorker
  <2>1. /\ Head(queue) = queue[1] /\ queue' = Tail(queue)
        /\ Len(queue) \in Nat /\ Len(queue) >= 1
        /\ Len(queue') = Len(queue) - 1
        /\ \A n \in 1..Len(queue') : n + 1 \in 1..Len(queue) /\ queue'[n] = queue[n + 1]
    BY <1>3, HeadAndTail DEF StartWorker, TypeOK
  <2>2. /\ asked' = asked /\ answer' = answer
        /\ \/ busy' = busy \cup {queue[1]} /\ reader' = IF reader = NoOne THEN queue[1] ELSE reader
           \/ busy' = busy /\ reader' = reader
    BY <1>3, <2>1 DEF StartWorker, history
  <2>3. queue[1] \in Proposals /\ 1 \in 1..Len(queue)
    BY <1>3, <2>1, HeadAndTail DEF StartWorker, TypeOK
  <2>4. /\ queue[1] \in asked /\ queue[1] \notin busy /\ answer[queue[1]] = "none"
        /\ queue[1] # NoOne
    BY <2>3 DEF TerminalServed
  <2>5. ASSUME NEW n \in 1..Len(queue')
        PROVE  /\ queue'[n] \in asked /\ queue'[n] \notin busy' /\ answer[queue'[n]] = "none"
               /\ \A m \in 1..Len(queue') : queue'[m] = queue'[n] => m = n
    <3>1. queue'[n] # queue[1]
      BY <2>1, <2>3, <2>5 DEF TerminalServed
    <3>2. \A m \in 1..Len(queue') : queue[m + 1] = queue[n + 1] => m + 1 = n + 1
      BY <2>1, <2>5 DEF TerminalServed
    <3>3. \A m \in 1..Len(queue') : m + 1 = n + 1 => m = n
      BY <2>1, <2>5
    <3> QED
      BY <2>1, <2>2, <2>5, <3>1, <3>2, <3>3 DEF TerminalServed
  <2>6. /\ (reader' = NoOne) <=> (busy' = {})
        /\ reader' # NoOne => reader' \in busy'
    BY <2>2, <2>4 DEF TerminalServed
  <2>7. \A p \in busy' : p \in asked' /\ answer'[p] = "none"
    BY <2>2, <2>4 DEF TerminalServed
  <2> QED
    BY <2>2, <2>5, <2>6, <2>7 DEF TerminalServed
<1>4. CASE TypeLine \/ InputEnds
  <2>1. PICK line : Read(line)
    BY <1>4 DEF TypeLine, InputEnds
  <2>2. /\ reader \in busy /\ busy' = busy \ {reader} /\ asked' = asked /\ queue' = queue
        /\ (reader' = NoOne) <=> (busy' = {})
        /\ reader' # NoOne => reader' \in busy'
        /\ \A q \in Proposals : q # reader => answer'[q] = answer[q]
    <3>1. /\ reader # NoOne /\ busy' = busy \ {reader} /\ asked' = asked /\ queue' = queue
          /\ answer' = [answer EXCEPT ![reader] = line]
      BY <2>1 DEF Read, history
    <3>2. \/ busy' = {} /\ reader' = NoOne
          \/ busy' # {} /\ reader' \in busy'
      BY <2>1 DEF Read
    <3>3. NoOne \notin busy'
      BY <3>1 DEF TypeOK
    <3> QED
      BY <3>1, <3>2, <3>3 DEF TerminalServed, TypeOK
  <2>3. \A n \in 1..Len(queue) : queue[n] \in Proposals
    BY ElementOfSeq DEF TypeOK
  <2> QED
    BY <2>2, <2>3 DEF TerminalServed, TypeOK
<1>5. CASE \E p \in Proposals : Propose(p) /\ ~AskTerminal(p)
  BY <1>1, <1>5 DEF Propose, ProposeBlock, ProposeNotify, ProposeAuto, AskUI, history
<1>6. CASE \E p \in Proposals : Decide(p) \/ Finish(p)
  BY <1>1, <1>6 DEF Decide, Told, WindowPasses, UIRefuses, AskTimesOut, PromptReturns, Finish, history
<1>7. CASE UIStarts \/ UIStops \/ Shutdown \/ Exit \/ UNCHANGED vars
  BY <1>1, <1>7 DEF UIStarts, UIStops, Shutdown, Exit, vars, history
<1> QED
  BY <1>2, <1>3, <1>4, <1>5, <1>6, <1>7 DEF Next

LEMMA TerminalStart == Init => TerminalServed
  BY EmptySeq DEF Init, TerminalServed

LEMMA StagesStart == Init => StageTells /\ RunsOnlyIfApproved
  BY DEF Init, StageTells, RunsOnlyIfApproved

LEMMA Safe == Spec => [](TypeOK /\ TerminalServed /\ StageTells /\ RunsOnlyIfApproved)
<1>1. TypeOK /\ TerminalServed /\ StageTells /\ RunsOnlyIfApproved /\ [Next]_vars
        => TerminalServed' /\ StageTells' /\ RunsOnlyIfApproved'
  BY TerminalInductive, StagesInductive
<1> QED
  BY <1>1, TerminalStart, StagesStart, TypeCorrect, PTL DEF Spec

(* Whatever the proposals, the threads, the lines and the order in which   *)
(* timers and lines come: nothing that needs a confirmation is executed    *)
(* unless its own prompt read a yes in time, and nothing blocked is.       *)
THEOREM Approved == Spec => []RunsOnlyIfApproved
  BY Safe, PTL

(* Standard input has a reader whenever a thread waits for it, and every   *)
(* prompt reads at most one line.                                          *)
THEOREM Served == Spec => []TerminalServed
  BY Safe, PTL

-----------------------------------------------------------------------------

LEMMA Joined ==
  /\ \A a : << >> \o <<a>> = <<a>>
  /\ \A a, b : << >> \o <<a, b>> = <<a, b>>
  /\ \A a : <<a>> \o << >> = <<a>>
  /\ \A a, b : <<a>> \o <<b>> = <<a, b>>
  /\ \A a, b : Append(<<a>>, b) = <<a, b>>
<1>1. ASSUME NEW a, NEW b
      PROVE  <<a>> \o <<b>> = <<a, b>>
  <2> DEFINE joined == <<a>> \o <<b>>
             both == <<a, b>>
  <2>1. <<a>> \in Seq({a, b}) /\ <<b>> \in Seq({a, b}) /\ both \in Seq({a, b})
    OBVIOUS
  <2>2. /\ joined \in Seq({a, b}) /\ Len(joined) = Len(<<a>>) + Len(<<b>>)
        /\ \A i \in 1..(Len(<<a>>) + Len(<<b>>)) :
             joined[i] = IF i <= Len(<<a>>) THEN <<a>>[i] ELSE <<b>>[i - Len(<<a>>)]
    BY <2>1, ConcatProperties
  <2>3. Len(joined) = 2 /\ joined[1] = a /\ joined[2] = b
    BY <2>2
  <2>4. Len(both) = 2 /\ both[1] = a /\ both[2] = b
    OBVIOUS
  <2> HIDE DEF joined, both
  <2>5. \A i \in 1..Len(joined) : joined[i] = both[i]
    BY <2>3, <2>4
  <2>6. joined = both
    BY <2>1, <2>2, <2>3, <2>4, <2>5, SeqEqual
  <2> QED
    BY <2>6 DEF joined, both
<1>2. ASSUME NEW a, NEW b
      PROVE  Append(<<a>>, b) = <<a, b>>
  <2>1. <<a>> \in Seq({a, b})
    OBVIOUS
  <2>2. Append(<<a>>, b) = <<a>> \o <<b>>
    BY <2>1, AppendIsConcat
  <2> QED
    BY <1>1, <2>2
<1>3. ASSUME NEW a, NEW b
      PROVE  << >> \o <<a>> = <<a>> /\ <<a>> \o << >> = <<a>>
  <2>1. <<a>> \in Seq({a, b})
    OBVIOUS
  <2> QED
    BY <2>1, ConcatEmptySeq
<1>4. ASSUME NEW a, NEW b
      PROVE  << >> \o <<a, b>> = <<a, b>>
  <2>1. <<a, b>> \in Seq({a, b})
    OBVIOUS
  <2> QED
    BY <2>1, ConcatEmptySeq
<1> QED
  BY <1>1, <1>2, <1>3, <1>4

(* The log of one proposal.                                                *)
LogOf(p) ==
  /\ stage[p] = "new" => actionLog[p] = << >>
  /\ stage[p] = "done" =>
       \E outcome \in IF p \in ran THEN Executed ELSE Refused :
         actionLog[p] = <<"proposed", outcome>>
  /\ stage[p] \notin {"new", "done"} => actionLog[p] = <<"proposed">>

LEMMA LogInductive ==
  ASSUME TypeOK, StageTells, RunsOnlyIfApproved, LogTruthful, [Next]_vars
  PROVE  LogTruthful'
<1>1. \A p \in Proposals : LogOf(p)
  BY DEF LogTruthful, LogOf
<1>2. SUFFICES \A p \in Proposals : LogOf(p)'
  BY DEF LogTruthful, LogOf
<1>3. ASSUME NEW p \in Proposals, Propose(p)
      PROVE  \A q \in Proposals : LogOf(q)'
  <2>1. /\ actionLog[p] = << >> /\ p \notin ran
        /\ \A q \in Proposals \ {p} :
             stage'[q] = stage[q] /\ actionLog'[q] = actionLog[q] /\ (q \in ran' <=> q \in ran)
    BY <1>1, <1>3 DEF Propose, ProposeBlock, ProposeNotify, ProposeAuto, AskTerminal, AskUI,
                      Classify, Reach, TypeOK, StageTells, LogOf, history
  <2>2. \/ /\ stage'[p] \in {"telling", "window", "run", "prompt", "ui"}
           /\ actionLog'[p] = actionLog[p] \o <<"proposed">>
        \/ /\ stage'[p] = "done" /\ ran' = ran
           /\ actionLog'[p] = actionLog[p] \o <<"proposed", "blocked">>
    BY <1>3 DEF Propose, ProposeBlock, ProposeNotify, ProposeAuto, AskTerminal, AskUI,
                Classify, Reach, TypeOK, StageTells, history
  <2>3. \/ /\ stage'[p] \in {"telling", "window", "run", "prompt", "ui"}
           /\ actionLog'[p] = <<"proposed">>
        \/ /\ stage'[p] = "done" /\ ran' = ran
           /\ actionLog'[p] = <<"proposed", "blocked">>
    BY <2>1, <2>2, Joined
  <2>4. LogOf(p)'
    BY <2>1, <2>3 DEF LogOf, Refused
  <2> QED
    BY <1>1, <2>1, <2>4 DEF LogOf
<1>4. ASSUME NEW p \in Proposals, Decide(p) \/ Finish(p)
      PROVE  \A q \in Proposals : LogOf(q)'
  <2>1. /\ stage[p] \in {"telling", "window", "ui", "prompt", "run"}
        /\ \A q \in Proposals \ {p} :
             stage'[q] = stage[q] /\ actionLog'[q] = actionLog[q] /\ (q \in ran' <=> q \in ran)
    BY <1>4 DEF Decide, Told, WindowPasses, UIRefuses, AskTimesOut, PromptReturns, Finish,
                Reach, TypeOK, history
  <2>2. actionLog[p] = <<"proposed">>
    BY <1>1, <2>1 DEF LogOf
  <2>3. \/ /\ stage'[p] \in {"window", "run", "raised"}
           /\ actionLog'[p] = actionLog[p] \o << >>
        \/ /\ stage[p] # "run" /\ stage'[p] = "done" /\ ran' = ran
           /\ \E outcome \in Refused : actionLog'[p] = actionLog[p] \o <<outcome>>
        \/ /\ stage[p] = "run" /\ stage'[p] = "done" /\ ran' = ran
           /\ \E outcome \in Executed : actionLog'[p] = actionLog[p] \o <<outcome>>
    BY <1>4 DEF Decide, Told, WindowPasses, UIRefuses, AskTimesOut, PromptReturns, Finish,
                Reach, TypeOK, history, Refused, Executed
  <2>4. LogOf(p)'
    <3>1. CASE /\ stage'[p] \in {"window", "run", "raised"}
               /\ actionLog'[p] = actionLog[p] \o << >>
      BY <2>2, <3>1, Joined DEF LogOf
    <3>2. CASE /\ stage[p] # "run" /\ stage'[p] = "done" /\ ran' = ran
               /\ \E outcome \in Refused : actionLog'[p] = actionLog[p] \o <<outcome>>
      <4>1. p \notin ran'
        BY <2>1, <3>2 DEF StageTells
      <4>2. \E outcome \in Refused : actionLog'[p] = <<"proposed", outcome>>
        BY <2>2, <3>2, Joined
      <4> QED
        BY <3>2, <4>1, <4>2 DEF LogOf
    <3>3. CASE /\ stage[p] = "run" /\ stage'[p] = "done" /\ ran' = ran
               /\ \E outcome \in Executed : actionLog'[p] = actionLog[p] \o <<outcome>>
      <4>1. p \in ran'
        BY <3>3 DEF StageTells
      <4>2. \E outcome \in Executed : actionLog'[p] = <<"proposed", outcome>>
        BY <2>2, <3>3, Joined
      <4> QED
        BY <3>3, <4>1, <4>2 DEF LogOf
    <3> QED
      BY <2>3, <3>1, <3>2, <3>3
  <2> QED
    BY <1>1, <2>1, <2>4 DEF LogOf
<1>5. CASE Shutdown
  <2>1. ASSUME NEW p \in Proposals
        PROVE  LogOf(p)'
    <3>1. /\ ran' = ran
          /\ \/ /\ stage[p] = "window" /\ stage'[p] = "done"
                /\ actionLog'[p] = Append(actionLog[p], "cancelled_notify")
             \/ /\ stage[p] \in {"telling", "ui", "prompt", "run"} /\ stage'[p] = "raised"
                /\ actionLog'[p] = actionLog[p]
             \/ /\ stage'[p] = stage[p]
                /\ actionLog'[p] = actionLog[p]
      <4>1. ran' = ran /\ actionLog'[p] = IF stage[p] = "window" THEN Append(actionLog[p], "cancelled_notify")
                                          ELSE actionLog[p]
        BY <1>5 DEF Shutdown
      <4> QED
        BY <1>5, <4>1, ShutdownOf
    <3>2. stage[p] \in {"telling", "window", "ui", "prompt", "run"} => actionLog[p] = <<"proposed">>
      BY <1>1 DEF LogOf
    <3>3. CASE stage[p] = "window" /\ stage'[p] = "done"
      <4>1. actionLog'[p] = <<"proposed", "cancelled_notify">>
        BY <3>1, <3>2, <3>3, Joined
      <4>2. p \notin ran'
        BY <3>1, <3>3 DEF StageTells
      <4> QED
        BY <3>3, <4>1, <4>2 DEF LogOf, Refused
    <3>4. CASE stage[p] \in {"telling", "ui", "prompt", "run"} /\ stage'[p] = "raised"
      BY <3>1, <3>2, <3>4 DEF LogOf
    <3>5. CASE stage'[p] = stage[p] /\ actionLog'[p] = actionLog[p]
      BY <1>1, <3>1, <3>5 DEF LogOf
    <3> QED
      BY <3>1, <3>3, <3>4, <3>5
  <2> QED
    BY <2>1
<1>6. CASE StartWorker \/ UIStarts \/ UIStops \/ Exit \/ UNCHANGED vars
  BY <1>1, <1>6 DEF StartWorker, UIStarts, UIStops, Exit, vars, LogOf
<1>7. CASE TypeLine \/ InputEnds
  BY <1>1, <1>7 DEF TypeLine, InputEnds, Read, LogOf
<1> QED
  BY <1>3, <1>4, <1>5, <1>6, <1>7 DEF Next

(* The action log holds, of every proposal that came back, its one true    *)
(* outcome.                                                                *)
THEOREM Logged == Spec => []LogTruthful
<1>1. Init => LogTruthful
  BY DEF Init, LogTruthful
<1>2. TypeOK /\ StageTells /\ RunsOnlyIfApproved /\ LogTruthful /\ [Next]_vars => LogTruthful'
  BY LogInductive
<1> QED
  BY <1>1, <1>2, Safe, PTL DEF Spec

-----------------------------------------------------------------------------
(* The contract. *)

(* Only what needs a confirmation is asked about.                          *)
AskedConfirm == \A p \in asked : risk[p] = "CONFIRM"

LEMMA AskedInductive ==
  ASSUME TypeOK, StageTells, AskedConfirm, [Next]_vars
  PROVE  AskedConfirm'
<1>1. ASSUME NEW p \in Proposals, Propose(p)
      PROVE  AskedConfirm'
  <2>1. p \notin asked /\ \A q \in Proposals \ {p} : risk'[q] = risk[q]
    BY <1>1 DEF Propose, ProposeBlock, ProposeNotify, ProposeAuto, AskTerminal, AskUI, Classify,
                StageTells, TypeOK
  <2>2. asked' = asked \/ (asked' = asked \cup {p} /\ risk'[p] = "CONFIRM")
    BY <1>1 DEF Propose, ProposeBlock, ProposeNotify, ProposeAuto, AskTerminal, AskUI, Classify,
                TypeOK, history
  <2> QED
    BY <2>1, <2>2 DEF AskedConfirm, TypeOK
<1>2. CASE ~ \E p \in Proposals : Propose(p)
  <2>1. risk' = risk /\ asked' = asked
    BY <1>2 DEF Next, Decide, Told, WindowPasses, UIRefuses, AskTimesOut, PromptReturns, Finish,
                StartWorker, TypeLine, InputEnds, Read, UIStarts, UIStops, Shutdown, Exit, vars, history
  <2> QED
    BY <2>1 DEF AskedConfirm
<1> QED
  BY <1>1, <1>2

(* A task's fate follows from its stage, and from whether it ran.          *)
LEMMA FateOf ==
  ASSUME NEW p \in Proposals, TypeOK
  PROVE  /\ stage[p] = "new" => Fate[p] = "unseen"
         /\ stage[p] \in {"telling", "window", "ui", "prompt"} => Fate[p] = "open"
         /\ stage[p] = "run" => Fate[p] = "granted"
         /\ stage[p] = "done" /\ p \in ran => Fate[p] = "executed"
         /\ stage[p] = "done" /\ p \notin ran => Fate[p] = "refused"
         /\ stage[p] = "raised" => Fate[p] = "dropped"
BY DEF Fate, FateOfTask

LEMMA FateNext ==
  ASSUME NEW p \in Proposals, TypeOK'
  PROVE  /\ stage'[p] = "new" => Fate'[p] = "unseen"
         /\ stage'[p] \in {"telling", "window", "ui", "prompt"} => Fate'[p] = "open"
         /\ stage'[p] = "run" => Fate'[p] = "granted"
         /\ stage'[p] = "done" /\ p \in ran' => Fate'[p] = "executed"
         /\ stage'[p] = "done" /\ p \notin ran' => Fate'[p] = "refused"
         /\ stage'[p] = "raised" => Fate'[p] = "dropped"
BY DEF Fate, FateOfTask

(* A step of one task changes the fate of that task only.                  *)
LEMMA OneFate ==
  ASSUME NEW p \in Proposals, NEW next,
         \A q \in Proposals \ {p} : stage'[q] = stage[q] /\ (q \in ran' <=> q \in ran),
         Fate'[p] = next
  PROVE  Fate' = [Fate EXCEPT ![p] = next]
<1>1. \A q \in Proposals \ {p} : Fate'[q] = Fate[q]
  BY DEF Fate, FateOfTask
<1>2. Fate = [q \in Proposals |-> Fate[q]] /\ Fate' = [q \in Proposals |-> Fate'[q]]
  BY DEF Fate
<1> HIDE DEF Fate
<1> QED
  BY <1>1, <1>2

SaidYes == {p \in Proposals : answer[p] = "yes"}

LEMMA ContractStep ==
  ASSUME TypeOK, TypeOK', TerminalServed, StageTells, StageTells', AskedConfirm, [Next]_vars
  PROVE  [Contract!Next]_(Contract!vars)
<1> USE DEF SaidYes
<1>1. ASSUME NEW p \in Proposals, Propose(p)
      PROVE  Contract!Next
  <2>1. /\ stage[p] = "new" /\ p \notin ran
        /\ \A q \in Proposals \ {p} : stage'[q] = stage[q]
        /\ answer' = answer
    BY <1>1 DEF Propose, ProposeBlock, ProposeNotify, ProposeAuto, AskTerminal, AskUI,
                Classify, Reach, TypeOK, StageTells, prompts
  <2>2. PICK l \in Levels :
          /\ risk' = [risk EXCEPT ![p] = l]
          /\ \/ l = "BLOCK" /\ stage'[p] \in {"telling", "done"} /\ ran' = ran
             \/ l = "NOTIFY" /\ stage'[p] \in {"telling", "window"} /\ ran' = ran
             \/ l = "AUTO" /\ stage'[p] = "run" /\ ran' = ran \cup {p}
             \/ l = "CONFIRM" /\ stage'[p] \in {"ui", "prompt"} /\ ran' = ran
    BY <1>1 DEF Propose, ProposeBlock, ProposeNotify, ProposeAuto, AskTerminal, AskUI,
                Classify, Reach, TypeOK, Levels, prompts, history
  <2>3. Fate[p] = "unseen"
    BY <2>1, FateOf
  <2>4. \/ l = "AUTO" /\ Fate'[p] = "granted"
        \/ l = "BLOCK" /\ Fate'[p] = "refused"
        \/ l # "AUTO" /\ Fate'[p] = "open"
    BY <2>1, <2>2, FateNext
  <2>5. \A q \in Proposals \ {p} : stage'[q] = stage[q] /\ (q \in ran' <=> q \in ran)
    BY <2>1, <2>2
  <2>6. Fate' = [Fate EXCEPT ![p] = Fate'[p]]
    BY <2>5, OneFate
  <2>7. Contract!Submit(p, l)
    BY <2>1, <2>2, <2>3, <2>4, <2>6 DEF Contract!Submit, Contract!Become
  <2> QED
    BY <2>7 DEF Contract!Next, Contract!Levels, Levels
<1>2. ASSUME NEW p \in Proposals, Decide(p) \/ Finish(p)
      PROVE  [Contract!Next]_(Contract!vars)
  <2>1. /\ \A q \in Proposals \ {p} : stage'[q] = stage[q]
        /\ risk' = risk /\ answer' = answer
    BY <1>2 DEF Decide, Told, WindowPasses, UIRefuses, AskTimesOut, PromptReturns, Finish,
                Reach, TypeOK, prompts, history
  <2>2. \/ /\ stage[p] \in {"telling", "ui", "prompt"} /\ stage'[p] = "done" /\ ran' = ran
        \/ /\ stage[p] = "telling" /\ stage'[p] = "window" /\ ran' = ran
        \/ /\ stage[p] = "window" /\ stage'[p] = "run" /\ ran' = ran \cup {p}
        \/ /\ stage[p] = "prompt" /\ answer[p] = "yes" /\ stage'[p] = "run" /\ ran' = ran \cup {p}
        \/ /\ stage[p] = "prompt" /\ stage'[p] = "raised" /\ ran' = ran
        \/ /\ stage[p] = "run" /\ stage'[p] = "done" /\ ran' = ran
    BY <1>2 DEF Decide, Told, WindowPasses, UIRefuses, AskTimesOut, PromptReturns, Finish,
                Reach, TypeOK, history
  <2>3. \A q \in Proposals \ {p} : stage'[q] = stage[q] /\ (q \in ran' <=> q \in ran)
    BY <2>1, <2>2
  <2>4. Fate' = [Fate EXCEPT ![p] = Fate'[p]]
    BY <2>3, OneFate
  <2>5. CASE stage[p] \in {"telling", "ui", "prompt"} /\ stage'[p] = "done" /\ ran' = ran
    <3>1. p \notin ran'
      BY <2>5 DEF StageTells
    <3>2. Fate[p] = "open" /\ Fate'[p] = "refused"
      BY <2>5, <3>1, FateOf, FateNext
    <3>3. Contract!Refuse(p)
      BY <2>1, <2>4, <3>2 DEF Contract!Refuse, Contract!Become
    <3> QED
      BY <3>3 DEF Contract!Next
  <2>6. CASE stage[p] = "telling" /\ stage'[p] = "window" /\ ran' = ran
    <3>1. Fate[p] = "open" /\ Fate'[p] = "open"
      BY <2>6, FateOf, FateNext
    <3>2. Fate' = Fate
      BY <2>4, <3>1 DEF Fate
    <3> QED
      BY <2>1, <3>2 DEF Contract!vars
  <2>7. CASE /\ stage'[p] = "run"
             /\ stage[p] = "window" \/ (stage[p] = "prompt" /\ answer[p] = "yes")
    <3>1. Fate[p] = "open" /\ Fate'[p] = "granted"
      BY <2>7, FateOf, FateNext
    <3>2. risk[p] = "NOTIFY" \/ (risk[p] = "CONFIRM" /\ p \in SaidYes)
      BY <2>7 DEF StageTells
    <3>3. Contract!Grant(p)
      BY <2>1, <2>4, <3>1, <3>2 DEF Contract!Grant, Contract!Become
    <3> QED
      BY <3>3 DEF Contract!Next
  <2>8. CASE stage[p] = "prompt" /\ stage'[p] = "raised"
    <3>1. Fate[p] = "open" /\ Fate'[p] = "dropped"
      BY <2>8, FateOf, FateNext
    <3>2. Contract!Drop(p)
      BY <2>1, <2>4, <3>1 DEF Contract!Drop, Contract!Become
    <3> QED
      BY <3>2 DEF Contract!Next
  <2>9. CASE stage[p] = "run" /\ stage'[p] = "done" /\ ran' = ran
    <3>1. p \in ran'
      BY <2>9 DEF StageTells
    <3>2. Fate[p] = "granted" /\ Fate'[p] = "executed"
      BY <2>9, <3>1, FateOf, FateNext
    <3>3. Contract!Execute(p)
      BY <2>1, <2>4, <3>2 DEF Contract!Execute, Contract!Become
    <3> QED
      BY <3>3 DEF Contract!Next
  <2> QED
    BY <2>2, <2>5, <2>6, <2>7, <2>8, <2>9
<1>3. ASSUME NEW line \in {"yes", "no", "eof"}, Read(line)
      PROVE  [Contract!Next]_(Contract!vars)
  <2>1. PICK p \in Proposals :
          /\ p = reader /\ answer[p] = "none" /\ risk[p] = "CONFIRM"
          /\ UNCHANGED <<stage, risk, ran>>
          /\ answer' = [answer EXCEPT ![p] = line]
    BY <1>3 DEF Read, TypeOK, TerminalServed, AskedConfirm
  <2>2. Fate' = Fate
    BY <2>1 DEF Fate, FateOfTask
  <2>3. CASE line = "yes"
    <3>1. SaidYes' = SaidYes \cup {p}
      BY <2>1, <2>3 DEF TypeOK
    <3>2. Contract!Consent(p)
      BY <2>1, <2>2, <3>1 DEF Contract!Consent
    <3> QED
      BY <3>2 DEF Contract!Next
  <2>4. CASE line # "yes"
    <3>1. SaidYes' = SaidYes
      BY <2>1, <2>4 DEF TypeOK
    <3> QED
      BY <2>1, <2>2, <3>1 DEF Contract!vars
  <2> QED
    BY <2>3, <2>4
<1>4. CASE Shutdown
  <2>1. risk' = risk /\ answer' = answer /\ ran' = ran
    BY <1>4 DEF Shutdown, prompts
  <2>2. ASSUME NEW p \in Proposals
        PROVE  /\ Fate[p] = "open" => Fate'[p] \in {"open", "refused", "dropped"}
               /\ Fate[p] = "granted" => Fate'[p] \in {"granted", "dropped"}
               /\ Fate[p] \notin {"open", "granted"} =>
                    Fate'[p] = Fate[p] /\ Fate[p] \in {"unseen", "refused", "executed", "dropped"}
    <3>1. \/ stage[p] = "window" /\ stage'[p] = "done"
          \/ stage[p] \in {"telling", "ui", "prompt", "run"} /\ stage'[p] = "raised"
          \/ stage[p] # "window" /\ stage'[p] = stage[p]
      BY <1>4, ShutdownOf
    <3>2. stage[p] = "window" => p \notin ran
      BY DEF StageTells
    <3> QED
      BY <2>1, <3>1, <3>2, FateOf, FateNext DEF TypeOK, Stages
  <2>3. Fate' = [p \in Proposals |-> Fate'[p]]
    BY DEF Fate
  <2>4. Fate' \in [Proposals -> {"unseen", "open", "granted", "refused", "executed", "dropped"}]
    <3> HIDE DEF Fate
    <3> QED
      BY <2>2, <2>3
  <2>5. Contract!Close
    <3> HIDE DEF Fate
    <3> QED
      BY <2>1, <2>2, <2>4 DEF Contract!Close
  <2> QED
    BY <2>5 DEF Contract!Next
<1>5. CASE StartWorker \/ UIStarts \/ UIStops \/ Exit \/ UNCHANGED vars
  <2>1. UNCHANGED <<stage, risk, ran, answer>>
    BY <1>5 DEF StartWorker, UIStarts, UIStops, Exit, vars, prompts, history
  <2> QED
    BY <2>1 DEF Contract!vars, Fate, FateOfTask
<1> QED
  BY <1>1, <1>2, <1>3, <1>4, <1>5 DEF Next, TypeLine, InputEnds

(* The gate with its sockets, threads and timers keeps the contract, which *)
(* knows nothing of them: each proposal is decided once and executed once  *)
(* at most, after the consent its level asks for.                          *)
THEOREM KeepsContract == Spec => ImplementsContract
<1>1. Init => Contract!Init
  BY DEF Init, Fate, FateOfTask, Contract!Init
<1>2. Init => AskedConfirm
  BY DEF Init, AskedConfirm
<1>3. TypeOK /\ StageTells /\ AskedConfirm /\ [Next]_vars => AskedConfirm'
  BY AskedInductive
<1>4. TypeOK /\ TypeOK' /\ TerminalServed /\ StageTells /\ StageTells' /\ AskedConfirm /\ [Next]_vars
      => [Contract!Next]_(Contract!vars)
  BY ContractStep
<1> QED
  BY <1>1, <1>2, <1>3, <1>4, Safe, PTL DEF Spec, ImplementsContract, Contract!Spec

-----------------------------------------------------------------------------
(* Rejections. *)

Rejected(p) == actionLog[p] = <<"proposed", "rejected_by_user">>

Heard ==
  \A p \in Proposals :
    /\ stage[p] # "ui"
    /\ stage[p] = "prompt" => p \in asked
    /\ Rejected(p) => p \in asked

LEMMA HeardInductive ==
  ASSUME TypeOK, LogTruthful, Heard, ui = "absent", [Next]_vars
  PROVE  Heard'
<1>1. \A p \in Proposals : stage[p] = "new" => actionLog[p] = << >>
  BY DEF LogTruthful
<1>2. \A p \in Proposals : stage[p] \notin {"new", "done"} => actionLog[p] = <<"proposed">>
  BY DEF LogTruthful
<1>3. ASSUME NEW p \in Proposals, Propose(p)
      PROVE  Heard'
  <2>1. /\ actionLog[p] = << >> /\ asked \subseteq asked'
        /\ \A q \in Proposals \ {p} : stage'[q] = stage[q] /\ actionLog'[q] = actionLog[q]
    BY <1>1, <1>3 DEF Propose, ProposeBlock, ProposeNotify, ProposeAuto, AskTerminal, AskUI,
                      Classify, Reach, TypeOK, history
  <2>2. /\ stage'[p] # "ui" /\ (stage'[p] = "prompt" => p \in asked')
        /\ \/ actionLog'[p] = actionLog[p] \o <<"proposed">>
           \/ actionLog'[p] = actionLog[p] \o <<"proposed", "blocked">>
    BY <1>3 DEF Propose, ProposeBlock, ProposeNotify, ProposeAuto, AskTerminal, AskUI,
                Classify, Reach, TypeOK, history
  <2>3. ~Rejected(p)'
    <3>1. actionLog'[p] = <<"proposed">> \/ actionLog'[p] = <<"proposed", "blocked">>
      BY <2>1, <2>2, Joined
    <3> QED
      BY <3>1 DEF Rejected
  <2>4. \A q \in Proposals \ {p} : Rejected(q)' <=> Rejected(q)
    BY <2>1 DEF Rejected
  <2> QED
    BY <2>1, <2>2, <2>3, <2>4 DEF Heard
<1>4. ASSUME NEW p \in Proposals, Decide(p) \/ Finish(p)
      PROVE  Heard'
  <2>1. /\ stage[p] \in {"telling", "window", "prompt", "run"} /\ asked' = asked
        /\ stage'[p] \in {"window", "run", "done", "raised"}
        /\ \A q \in Proposals \ {p} : stage'[q] = stage[q] /\ actionLog'[q] = actionLog[q]
    BY <1>4 DEF Decide, Told, WindowPasses, UIRefuses, AskTimesOut, PromptReturns, Finish,
                Reach, TypeOK, history, Heard
  <2>2. CASE stage[p] = "prompt"
    <3>1. p \in asked
      BY <2>2 DEF Heard
    <3> QED
      BY <2>1, <3>1 DEF Heard, Rejected
  <2>3. CASE stage[p] # "prompt"
    <3>1. \/ actionLog'[p] = actionLog[p] \o << >>
          \/ \E outcome \in Executed \cup {"blocked"} : actionLog'[p] = actionLog[p] \o <<outcome>>
      BY <1>4, <2>1, <2>3 DEF Decide, Told, WindowPasses, UIRefuses, AskTimesOut, PromptReturns, Finish,
                              Reach, TypeOK, Executed
    <3>2. \/ actionLog'[p] = <<"proposed">>
          \/ \E outcome \in Executed \cup {"blocked"} : actionLog'[p] = <<"proposed", outcome>>
      <4>1. actionLog[p] = <<"proposed">>
        BY <1>2, <2>1
      <4>2. /\ <<"proposed">> \o << >> = <<"proposed">>
            /\ \A outcome : <<"proposed">> \o <<outcome>> = <<"proposed", outcome>>
        BY Joined
      <4> QED
        BY <3>1, <4>1, <4>2, Zenon
    <3>3. ~Rejected(p)'
      BY <3>2 DEF Rejected, Executed
    <3> QED
      BY <2>1, <3>3 DEF Heard, Rejected
  <2> QED
    BY <2>2, <2>3
<1>5. CASE Shutdown
  <2>1. ASSUME NEW p \in Proposals
        PROVE  /\ asked' = asked
               /\ \/ stage[p] = "window" /\ actionLog'[p] = Append(actionLog[p], "cancelled_notify")
                  \/ actionLog'[p] = actionLog[p]
               /\ stage'[p] = stage[p] \/ stage'[p] \in {"done", "raised"}
    BY <1>5 DEF Shutdown, TypeOK, history
  <2>2. \A p \in Proposals : Rejected(p)' => Rejected(p)
    <3>1. Append(<<"proposed">>, "cancelled_notify") = <<"proposed", "cancelled_notify">>
      BY Joined
    <3> QED
      BY <1>2, <2>1, <3>1 DEF Rejected
  <2> QED
    BY <2>1, <2>2 DEF Heard
<1>6. CASE StartWorker \/ TypeLine \/ InputEnds \/ UIStarts \/ UIStops \/ Exit \/ UNCHANGED vars
  <2>1. UNCHANGED <<stage, actionLog, asked>>
    BY <1>6 DEF StartWorker, TypeLine, InputEnds, Read, UIStarts, UIStops, Exit, vars, history
  <2> QED
    BY <2>1 DEF Heard, Rejected
<1> QED
  BY <1>3, <1>4, <1>5, <1>6 DEF Next

(* Where no UI server is ever started, what is logged as the user's        *)
(* rejection was put before the user: it is the socket alone, not the      *)
(* prompt, its threads or its timeout, that makes this untrue.             *)
THEOREM PromptWasAsked == Spec /\ [](ui = "absent") => []RejectedWasAsked
<1>1. Init /\ ui = "absent" => Heard
  <2>1. << >> # <<"proposed", "rejected_by_user">>
    OBVIOUS
  <2> QED
    BY <2>1 DEF Init, Heard, Rejected
<1>2. TypeOK /\ LogTruthful /\ Heard /\ ui = "absent" /\ [Next]_vars => Heard'
  BY HeardInductive
<1>3. Heard => RejectedWasAsked
  BY DEF Heard, Rejected, RejectedWasAsked
<1> QED
  BY <1>1, <1>2, <1>3, TypeCorrect, Logged, PTL DEF Spec
=============================================================================
