-------------------------- MODULE AgentLoopProofs --------------------------
(***************************************************************************)
(* For any number of clients and any plans: the answer and the memory tell *)
(* what was dispatched, nothing is dispatched unprepared, and a server that*)
(* waits for its connections cuts nothing short and starts nothing late.   *)
(***************************************************************************)
EXTENDS AgentLoop, SequenceTheorems, TLAPS

Stages == {"none", "loop", "closed"} \cup Waiting
Starts == [of : Nat, late : BOOLEAN]

-----------------------------------------------------------------------------
(* Types. *)

LEMMA AppendGrows ==
  ASSUME NEW T, NEW s \in Seq(T), NEW e \in T
  PROVE  /\ Append(s, e) \in Seq(T)
         /\ Len(s) \in Nat
         /\ Len(Append(s, e)) = Len(s) + 1
         /\ \A j \in 1..Len(s) : Append(s, e)[j] = s[j]
         /\ Append(s, e)[Len(s) + 1] = e
<1>1. Len(s) \in Nat
  BY LenProperties
<1>2. Append(s, e) \in Seq(T)
  BY AppendProperties
<1>3. Len(Append(s, e)) = Len(s) + 1
  BY AppendProperties
<1>4. \A j \in 1..Len(s) : Append(s, e)[j] = s[j]
  BY AppendProperties
<1>5. Append(s, e)[Len(s) + 1] = e
  BY AppendProperties
<1> QED
  BY <1>1, <1>2, <1>3, <1>4, <1>5, Zenon

Types ==
  /\ waits \in BOOLEAN
  /\ service \in {"up", "signalled", "down", "exited"}
  /\ stage \in [Clients -> Stages]
  /\ plan \in [Clients -> Seq(Actions)]
  /\ plan \in [Clients -> Plans \cup {<< >>}]
  /\ results \in [Clients -> Seq(Outcomes)]
  /\ learned \in [Clients -> SUBSET Nat]
  /\ answered \in [Clients -> BOOLEAN]
  /\ passed \in [Clients -> SUBSET Nat]
  /\ saved \in [Clients -> SUBSET Nat]
  /\ started \in [Clients -> Seq(Starts)]
  /\ lapsed \in [Clients -> SUBSET Nat]
  /\ terminal \in SUBSET Clients
  /\ stray \in BOOLEAN

(* What a client's step may write.                                         *)
LEMMA GotoTypes ==
  ASSUME Types, NEW c \in Clients, NEW s \in Stages, Goto(c, s)
  PROVE  stage' \in [Clients -> Stages]
BY DEF Goto, Types

LEMMA ReportTypes ==
  ASSUME Types, NEW c \in Clients, NEW o \in Outcomes, Report(c, o)
  PROVE  results' \in [Clients -> Seq(Outcomes)]
<1>1. results[c] \in Seq(Outcomes)
  BY DEF Types
<1>2. Append(results[c], o) \in Seq(Outcomes)
  BY <1>1, AppendGrows
<1> QED
  BY <1>2 DEF Report, Types

LEMMA QuestionTypes ==
  ASSUME Types, NEW c \in Clients, NEW s \in Stages, Question(c, s)
  PROVE  stage' \in [Clients -> Stages] /\ terminal' \in SUBSET Clients
BY GotoTypes DEF Question, Types

LEMMA AnsweredTypes ==
  ASSUME Types, NEW c \in Clients, Answered(c)
  PROVE  terminal' \in SUBSET Clients
BY DEF Answered, Types

LEMMA GivenUpTypes ==
  ASSUME Types, NEW c \in Clients, GivenUp(c)
  PROVE  terminal' \in SUBSET Clients /\ stray' \in BOOLEAN
BY DEF GivenUp, Types

LEMMA ConcludeTypes ==
  ASSUME Types, NEW c \in Clients, NEW o \in Outcomes, Conclude(c, o)
  PROVE  stage' \in [Clients -> Stages] /\ results' \in [Clients -> Seq(Outcomes)]
<1>1. "loop" \in Stages
  BY DEF Stages
<1> QED
  BY <1>1, GotoTypes, ReportTypes DEF Conclude

LEMMA StartTypes ==
  ASSUME Types, NEW c \in Clients, Start(c)
  PROVE  stage' \in [Clients -> Stages] /\ started' \in [Clients -> Seq(Starts)]
<1>1. "run" \in Stages
  BY DEF Stages, Waiting
<1>2. stage' \in [Clients -> Stages]
  BY <1>1, GotoTypes DEF Start
<1>3. started[c] \in Seq(Starts) /\ At(c) \in Nat
  BY LenProperties DEF Types, At
<1>4. [of |-> At(c), late |-> service = "down"] \in Starts
  BY <1>3 DEF Starts
<1>5. Append(started[c], [of |-> At(c), late |-> service = "down"]) \in Seq(Starts)
  BY <1>3, <1>4, AppendGrows
<1> QED
  BY <1>2, <1>5 DEF Start, Types

LEMMA GateTypes ==
  ASSUME Types, NEW c \in Clients, EnterGate(c)
  PROVE  /\ stage' \in [Clients -> Stages]
         /\ results' \in [Clients -> Seq(Outcomes)]
         /\ started' \in [Clients -> Seq(Starts)]
         /\ terminal' \in SUBSET Clients
<1>1. "window" \in Stages /\ "ask" \in Stages /\ "blocked" \in Outcomes
  BY DEF Stages, Waiting, Outcomes
<1>2. CASE Start(c) /\ Answered(c) /\ UNCHANGED results
  BY <1>2, StartTypes, AnsweredTypes DEF Types
<1>3. CASE Goto(c, "window") /\ Answered(c) /\ UNCHANGED <<results, started>>
  BY <1>1, <1>3, GotoTypes, AnsweredTypes DEF Types
<1>4. CASE Question(c, "ask") /\ UNCHANGED <<results, started>>
  BY <1>1, <1>4, QuestionTypes DEF Types
<1>5. CASE Conclude(c, "blocked") /\ Answered(c) /\ UNCHANGED started
  BY <1>1, <1>5, ConcludeTypes, AnsweredTypes DEF Types
<1> QED
  BY <1>2, <1>3, <1>4, <1>5 DEF EnterGate

LEMMA BarrierTypes ==
  ASSUME Types, NEW c \in Clients, PastBarrier(c)
  PROVE  /\ stage' \in [Clients -> Stages]
         /\ results' \in [Clients -> Seq(Outcomes)]
         /\ started' \in [Clients -> Seq(Starts)]
         /\ terminal' \in SUBSET Clients
<1>1. "snapshot" \in Stages
  BY DEF Stages, Waiting
<1>2. CASE Goto(c, "snapshot") /\ Answered(c) /\ UNCHANGED <<results, started>>
  BY <1>1, <1>2, GotoTypes, AnsweredTypes DEF Types
<1>3. CASE EnterGate(c)
  BY <1>3, GateTypes
<1> QED
  BY <1>2, <1>3 DEF PastBarrier

(* Shutdown, for the tasks that go on.                                     *)
ShutdownOf(on) ==
  /\ stage' = [c \in Clients |->
                 CASE c \in on -> IF stage[c] = "window" THEN "loop" ELSE stage[c]
                   [] c \notin on -> IF Over(c) THEN stage[c] ELSE "closed"]
  /\ results' = [c \in Clients |->
                   IF c \in on /\ stage[c] = "window" THEN Append(results[c], "failed")
                   ELSE results[c]]
  /\ lapsed' = [c \in Clients |->
                  IF c \in on /\ stage[c] = "window" THEN lapsed[c] \cup {At(c)} ELSE lapsed[c]]
  /\ \E left \in SUBSET (terminal \ on) : stray' = (stray \/ left # {})

LEMMA TypesInductive ==
  ASSUME Types, [Next]_vars
  PROVE  Types'
<1>1. "reading" \in Stages /\ "loop" \in Stages /\ "answer" \in Stages /\ "closed" \in Stages /\ "barrier" \in Stages
  BY DEF Stages, Waiting
<1>2. {"guarded", "unconfirmed", "rejected", "failed", "done"} \subseteq Outcomes
  BY DEF Outcomes
<1>3. \A c \in Clients : At(c) \in Nat
  BY LenProperties DEF Types, At
<1>4. ASSUME NEW c \in Clients, Close(c)
      PROVE  Types'
  BY <1>1, <1>4, GotoTypes DEF Close, Types, prompts
<1>5. ASSUME NEW c \in Clients, Guarded(c)
      PROVE  Types'
  <2>1. stage' \in [Clients -> Stages] /\ results' \in [Clients -> Seq(Outcomes)]
    BY <1>2, <1>5, ConcludeTypes DEF Guarded
  <2> QED
    BY <1>5, <2>1 DEF Guarded, Types, prompts
<1>6. ASSUME NEW c \in Clients, Admit(c)
      PROVE  Types'
  <2>1. /\ stage' \in [Clients -> Stages]
        /\ results' \in [Clients -> Seq(Outcomes)]
        /\ started' \in [Clients -> Seq(Starts)]
        /\ terminal' \in SUBSET Clients
    <3>1. CASE Question(c, "barrier") /\ UNCHANGED <<results, started>>
      BY <1>1, <3>1, QuestionTypes DEF Types
    <3>2. CASE PastBarrier(c)
      BY <3>2, BarrierTypes
    <3> QED
      BY <1>6, <3>1, <3>2 DEF Admit
  <2> QED
    BY <1>6, <2>1 DEF Admit, Types
<1>7. ASSUME NEW c \in Clients, LoopEnds(c)
      PROVE  Types'
  BY <1>1, <1>7, GotoTypes DEF LoopEnds, Types, prompts
<1>8. ASSUME NEW c \in Clients, Connect(c)
      PROVE  Types'
  BY <1>1, <1>8, GotoTypes DEF Connect, Types, prompts
<1>9. ASSUME NEW c \in Clients, Command(c)
      PROVE  Types'
  <2>1. stage' \in [Clients -> Stages]
    BY <1>1, <1>9, GotoTypes DEF Command
  <2>2. plan' \in [Clients -> Seq(Actions)] /\ plan' \in [Clients -> Plans \cup {<< >>}]
    BY <1>9, AgentAssumption DEF Command, Types
  <2> QED
    BY <1>9, <2>1, <2>2 DEF Command, Types, prompts
<1>10. ASSUME NEW c \in Clients, Barrier(c)
       PROVE  Types'
  <2>1. /\ stage' \in [Clients -> Stages]
        /\ results' \in [Clients -> Seq(Outcomes)]
        /\ started' \in [Clients -> Seq(Starts)]
        /\ terminal' \in SUBSET Clients
        /\ stray' \in BOOLEAN
    <3>1. CASE PastBarrier(c) /\ UNCHANGED stray
      BY <3>1, BarrierTypes DEF Types
    <3>2. CASE Conclude(c, "unconfirmed") /\ Answered(c) /\ UNCHANGED <<stray, passed, started>>
      BY <1>2, <3>2, ConcludeTypes, AnsweredTypes DEF Types
    <3>3. CASE Conclude(c, "unconfirmed") /\ GivenUp(c) /\ UNCHANGED <<passed, started>>
      BY <1>2, <3>3, ConcludeTypes, GivenUpTypes DEF Types
    <3>4. CASE Goto(c, "closed") /\ Answered(c) /\ UNCHANGED <<stray, results, passed, started>>
      BY <1>1, <3>4, GotoTypes, AnsweredTypes DEF Types
    <3> QED
      BY <1>10, <3>1, <3>2, <3>3, <3>4 DEF Barrier
  <2>2. passed' \in [Clients -> SUBSET Nat]
    BY <1>3, <1>10 DEF Barrier, Types
  <2> QED
    BY <1>10, <2>1, <2>2 DEF Barrier, Types
<1>11. ASSUME NEW c \in Clients, Snapshot(c)
       PROVE  Types'
  <2>1. /\ stage' \in [Clients -> Stages]
        /\ results' \in [Clients -> Seq(Outcomes)]
        /\ started' \in [Clients -> Seq(Starts)]
        /\ terminal' \in SUBSET Clients
    BY <1>11, GateTypes DEF Snapshot
  <2>2. saved' \in [Clients -> SUBSET Nat]
    BY <1>3, <1>11 DEF Snapshot, Types
  <2> QED
    BY <1>11, <2>1, <2>2 DEF Snapshot, Types
<1>12. ASSUME NEW c \in Clients, WindowPasses(c)
       PROVE  Types'
  BY <1>12, StartTypes DEF WindowPasses, Types, prompts
<1>13. ASSUME NEW c \in Clients, Asked(c)
       PROVE  Types'
  <2>1. /\ stage' \in [Clients -> Stages]
        /\ results' \in [Clients -> Seq(Outcomes)]
        /\ started' \in [Clients -> Seq(Starts)]
        /\ terminal' \in SUBSET Clients
        /\ stray' \in BOOLEAN
    <3>1. CASE Start(c) /\ Answered(c) /\ UNCHANGED <<stray, results>>
      BY <3>1, StartTypes, AnsweredTypes DEF Types
    <3>2. CASE Conclude(c, "rejected") /\ Answered(c) /\ UNCHANGED <<stray, started>>
      BY <1>2, <3>2, ConcludeTypes, AnsweredTypes DEF Types
    <3>3. CASE Conclude(c, "rejected") /\ GivenUp(c) /\ UNCHANGED started
      BY <1>2, <3>3, ConcludeTypes, GivenUpTypes DEF Types
    <3>4. CASE Goto(c, "closed") /\ Answered(c) /\ UNCHANGED <<stray, results, started>>
      BY <1>1, <3>4, GotoTypes, AnsweredTypes DEF Types
    <3> QED
      BY <1>13, <3>1, <3>2, <3>3, <3>4 DEF Asked
  <2> QED
    BY <1>13, <2>1 DEF Asked, Types
<1>14. ASSUME NEW c \in Clients, Finish(c)
       PROVE  Types'
  <2>1. learned' \in [Clients -> SUBSET Nat]
    BY <1>3, <1>14 DEF Finish, Types
  <2>2. stage' \in [Clients -> Stages] /\ results' \in [Clients -> Seq(Outcomes)]
    <3>1. CASE \E o \in {"done", "failed"} : Conclude(c, o)
      BY <1>2, <3>1, ConcludeTypes
    <3>2. CASE Goto(c, "closed") /\ Report(c, "done")
      BY <1>1, <1>2, <3>2, GotoTypes, ReportTypes
    <3> QED
      BY <1>14, <3>1, <3>2 DEF Finish
  <2> QED
    BY <1>14, <2>1, <2>2 DEF Finish, Types, prompts
<1>15. ASSUME NEW c \in Clients, Answer(c)
       PROVE  Types'
  <2>1. stage' \in [Clients -> Stages]
    BY <1>1, <1>15, GotoTypes DEF Answer
  <2>2. answered' \in [Clients -> BOOLEAN]
    BY <1>15 DEF Answer, Types
  <2> QED
    BY <1>15, <2>1, <2>2 DEF Answer, Types, prompts
<1>16. CASE Shutdown
  <2>0. PICK on \in SUBSET {c \in Clients : MayGoOn(c)} : ShutdownOf(on)
    BY <1>16 DEF Shutdown, ShutdownOf
  <2>1. \A c \in Clients : results[c] \in Seq(Outcomes) /\ Append(results[c], "failed") \in Seq(Outcomes)
    BY <1>2, AppendGrows DEF Types
  <2>2. results' \in [Clients -> Seq(Outcomes)]
    BY <2>0, <2>1 DEF ShutdownOf
  <2>3. \A c \in Clients : stage'[c] \in Stages
    BY <1>1, <2>0 DEF ShutdownOf, Types
  <2>4. stage' \in [Clients -> Stages]
    BY <2>0, <2>3 DEF ShutdownOf
  <2>5. lapsed' \in [Clients -> SUBSET Nat]
    BY <1>3, <2>0 DEF ShutdownOf, Types
  <2>6. stray' \in BOOLEAN /\ terminal' \in SUBSET Clients
    BY <1>16, <2>0 DEF Shutdown, ShutdownOf, Types
  <2> QED
    BY <1>16, <2>2, <2>4, <2>5, <2>6 DEF Shutdown, Types
<1>17. CASE LineRead \/ Signal \/ Exit \/ UNCHANGED vars
  BY <1>17 DEF LineRead, Signal, Exit, vars, prompts, Types
<1> QED
  BY <1>4, <1>5, <1>6, <1>7, <1>8, <1>9, <1>10, <1>11, <1>12, <1>13, <1>14, <1>15, <1>16, <1>17
     DEF Next, Resume, Wake, Malformed, NoCommand

-----------------------------------------------------------------------------
(* What holds of each client. *)

Done(c) == Len(results[c])

Doing == {"barrier", "snapshot", "window", "ask", "run"}

(* How far the plan is.                                                    *)
Progress(c) ==
  /\ Done(c) <= Len(plan[c])
  /\ stage[c] \in Doing => Done(c) < Len(plan[c])
  /\ stage[c] \in {"none", "reading"} =>
       plan[c] = << >> /\ Done(c) = 0 /\ started[c] = << >> /\ learned[c] = {} /\ ~answered[c]
  /\ stage[c] = "answer" \/ answered[c] => Done(c) = Len(plan[c])
  /\ answered[c] => stage[c] = "closed"

(* What has been dispatched: actions that are over, and the one that runs  *)
(* or was cancelled when it ran, by a server that did not wait for it.     *)
Dispatched(c) ==
  /\ \A k \in 1..Len(started[c]) :
       \/ started[c][k].of \in 1..Done(c)
       \/ /\ started[c][k].of = Done(c) + 1 /\ Done(c) < Len(plan[c])
          /\ stage[c] = "run" \/ (stage[c] = "closed" /\ waits = FALSE)
  /\ \A k, m \in 1..Len(started[c]) : k < m => started[c][k].of < started[c][m].of
  /\ stage[c] = "run" => \E k \in 1..Len(started[c]) : started[c][k].of = Done(c) + 1

(* OutcomesTrue, line by line.                                             *)
Unlearned(c, i) == c \in Humans /\ results[c][i] = "done" /\ i \notin learned[c]

Reported(c) ==
  /\ learned[c] \subseteq 1..Done(c)
  /\ lapsed[c] \subseteq 1..Done(c)
  /\ \A i \in 1..Done(c) : results[c][i] = "done" => Ran(c, i)
  /\ \A i \in 1..Done(c) : results[c][i] = "failed" => Ran(c, i) \/ i \in lapsed[c]
  /\ \A i \in 1..Done(c) : Ran(c, i) => results[c][i] \in {"done", "failed"}
  /\ \A i \in 1..Done(c) : i \in learned[c] => c \in Humans /\ results[c][i] = "done"
  /\ \A i \in 1..Done(c) : Unlearned(c, i) => i = Done(c) /\ stage[c] = "closed" /\ ~answered[c]

(* The barrier's consent and the snapshot come before the gate.            *)
Cleared(c, i) == (plan[c][i].world = TRUE => i \in passed[c])
Saved(c, i) == (plan[c][i].risky = TRUE => i \in saved[c])

Prepared(c) ==
  /\ passed[c] \cup saved[c] \subseteq 1..Len(plan[c])
  /\ \A k \in 1..Len(started[c]) : Cleared(c, started[c][k].of) /\ Saved(c, started[c][k].of)
  /\ stage[c] \in {"snapshot", "window", "ask", "run"} => Cleared(c, Done(c) + 1)
  /\ stage[c] \in {"window", "ask", "run"} => Saved(c, Done(c) + 1)

(* Only a server that does not wait leaves a task to go on.                *)
Late(c) ==
  /\ service \in {"down", "exited"} /\ stage[c] \notin {"none", "closed"} => waits = FALSE
  /\ \A k \in 1..Len(started[c]) : started[c][k].late = TRUE => waits = FALSE

Sound(c) == Progress(c) /\ Dispatched(c) /\ Reported(c) /\ Prepared(c) /\ Late(c)

LEMMA Lengths ==
  ASSUME Types, NEW c \in Clients
  PROVE  /\ Done(c) \in Nat /\ Len(plan[c]) \in Nat /\ Len(started[c]) \in Nat
         /\ results[c] \in Seq(Outcomes) /\ started[c] \in Seq(Starts) /\ plan[c] \in Seq(Actions)
         /\ \A k \in 1..Len(started[c]) : started[c][k].of \in Nat
<1>1. results[c] \in Seq(Outcomes) /\ started[c] \in Seq(Starts) /\ plan[c] \in Seq(Actions)
  BY DEF Types
<1>2. Done(c) \in Nat /\ Len(plan[c]) \in Nat /\ Len(started[c]) \in Nat
  BY <1>1, LenProperties DEF Done
<1>3. \A k \in 1..Len(started[c]) : started[c][k] \in Starts
  BY <1>1, ElementOfSeq
<1> QED
  BY <1>1, <1>2, <1>3 DEF Starts

(* A step may let passed and saved grow, within the plan.                  *)
Grows(c) ==
  /\ passed[c] \subseteq passed'[c] /\ passed'[c] \subseteq 1..Len(plan[c])
  /\ saved[c] \subseteq saved'[c] /\ saved'[c] \subseteq 1..Len(plan[c])

(* A client nothing happens to.                                            *)
LEMMA KeptSound ==
  ASSUME Types, NEW c \in Clients, Sound(c),
         stage'[c] = stage[c], plan'[c] = plan[c], results'[c] = results[c], learned'[c] = learned[c],
         answered'[c] = answered[c], passed'[c] = passed[c], saved'[c] = saved[c],
         started'[c] = started[c], lapsed'[c] = lapsed[c], waits' = waits,
         service' \in {"down", "exited"} /\ stage[c] \notin {"none", "closed"} =>
           service \in {"down", "exited"} \/ waits = FALSE
  PROVE  Sound(c)'
BY DEF Sound, Progress, Dispatched, Reported, Ran, Unlearned, Prepared, Late, Cleared, Saved, Done

(* The task goes on to another wait, to its answer or to its end.          *)
LEMMA MoveSound ==
  ASSUME Types, NEW c \in Clients, Sound(c), NEW s \in {"barrier", "snapshot", "window", "ask", "answer", "closed"},
         stage[c] \notin {"none", "closed"}, stage'[c] = s,
         plan'[c] = plan[c], results'[c] = results[c], learned'[c] = learned[c],
         started'[c] = started[c], lapsed'[c] = lapsed[c], waits' = waits, Grows(c),
         stage[c] \in {"run", "reading"} => s \in {"answer", "closed"},
         stage[c] = "run" => s = "closed" /\ waits = FALSE,
         s \in Doing => Done(c) < Len(plan[c]),
         s \in {"snapshot", "window", "ask"} => Cleared(c, Done(c) + 1)',
         s \in {"window", "ask"} => Saved(c, Done(c) + 1)',
         s = "answer" => Done(c) = Len(plan[c]),
         answered'[c] => s = "closed" /\ Done(c) = Len(plan[c]),
         service' = service \/ s = "closed"
  PROVE  Sound(c)'
<1>1. Done(c)' = Done(c)
  BY DEF Done
<1>2. Progress(c)'
  BY <1>1 DEF Sound, Progress, Doing
<1>3. Dispatched(c)'
  BY <1>1 DEF Sound, Dispatched
<1>4. Reported(c)'
  BY <1>1 DEF Sound, Reported, Ran, Unlearned
<1>5. Prepared(c)'
  BY <1>1 DEF Sound, Prepared, Grows, Cleared, Saved
<1>6. Late(c)'
  BY <1>1 DEF Sound, Late
<1> QED
  BY <1>2, <1>3, <1>4, <1>5, <1>6 DEF Sound

(* The action is over without having run.                                  *)
LEMMA ConcludeSound ==
  ASSUME Types, NEW c \in Clients, Sound(c), NEW o \in Outcomes, o # "done",
         o = "failed" => Done(c) + 1 \in lapsed'[c],
         lapsed[c] \subseteq lapsed'[c], lapsed'[c] \subseteq 1..(Done(c) + 1),
         stage[c] \in {"loop", "barrier", "snapshot", "window", "ask"}, Done(c) < Len(plan[c]),
         stage'[c] = "loop", results'[c] = Append(results[c], o),
         plan'[c] = plan[c], learned'[c] = learned[c], answered'[c] = answered[c],
         started'[c] = started[c], waits' = waits, Grows(c),
         service' = service \/ waits = FALSE
  PROVE  Sound(c)'
<1>1. /\ Done(c) \in Nat /\ Done(c)' = Done(c) + 1
      /\ \A i \in 1..Done(c) : results'[c][i] = results[c][i]
      /\ results'[c][Done(c) + 1] = o
  BY Lengths, AppendGrows DEF Done
<1>2. Len(plan[c]) \in Nat /\ \A k \in 1..Len(started[c]) : started[c][k].of \in 1..Done(c)
  BY Lengths DEF Sound, Dispatched
<1>3. Progress(c)'
  BY <1>1, <1>2 DEF Sound, Progress, Doing
<1>4. Dispatched(c)'
  BY <1>1, <1>2 DEF Sound, Dispatched
<1>5. Reported(c)'
  <2>1. \A i : Ran(c, i)' <=> Ran(c, i)
    BY DEF Ran
  <2>2. ~Ran(c, Done(c) + 1)
    BY <1>1, <1>2 DEF Ran
  <2>3. learned[c] \subseteq 1..Done(c) /\ Done(c) + 1 \notin learned[c]
    BY <1>1 DEF Sound, Reported
  <2>4. \A i \in 1..(Done(c) + 1) : i \in 1..Done(c) \/ i = Done(c) + 1
    BY <1>1
  <2>5. \A i \in 1..(Done(c) + 1) : results'[c][i] = "done" => Ran(c, i)'
    BY <1>1, <2>1, <2>4 DEF Sound, Reported
  <2>6. \A i \in 1..(Done(c) + 1) : results'[c][i] = "failed" => Ran(c, i)' \/ i \in lapsed'[c]
    BY <1>1, <2>1, <2>4 DEF Sound, Reported
  <2>7. \A i \in 1..(Done(c) + 1) : Ran(c, i)' => results'[c][i] \in {"done", "failed"}
    BY <1>1, <2>1, <2>2, <2>4 DEF Sound, Reported
  <2>8. \A i \in 1..(Done(c) + 1) : i \in learned'[c] => c \in Humans /\ results'[c][i] = "done"
    BY <1>1, <2>3, <2>4 DEF Sound, Reported
  <2>9. \A i \in 1..(Done(c) + 1) : ~Unlearned(c, i)'
    BY <1>1, <2>4 DEF Sound, Reported, Unlearned
  <2>10. learned'[c] \subseteq 1..(Done(c) + 1)
    BY <1>1, <2>3
  <2> QED
    BY <1>1, <2>5, <2>6, <2>7, <2>8, <2>9, <2>10 DEF Reported
<1>6. Prepared(c)'
  BY <1>1 DEF Sound, Prepared, Grows, Cleared, Saved
<1>7. Late(c)'
  BY DEF Sound, Late
<1> QED
  BY <1>3, <1>4, <1>5, <1>6, <1>7 DEF Sound

(* _dispatch() returns: s is "closed" if the recording raised.             *)
LEMMA FinishSound ==
  ASSUME Types, NEW c \in Clients, Sound(c), NEW o \in {"done", "failed"}, NEW s \in {"loop", "closed"},
         stage[c] = "run", stage'[c] = s, results'[c] = Append(results[c], o),
         learned'[c] = learned[c] \/ (o = "done" /\ c \in Humans /\ learned'[c] = learned[c] \cup {Done(c) + 1}),
         c \in Humans /\ o = "done" => Done(c) + 1 \in learned'[c] \/ s = "closed",
         plan'[c] = plan[c], answered'[c] = answered[c], passed'[c] = passed[c], saved'[c] = saved[c],
         started'[c] = started[c], lapsed'[c] = lapsed[c], waits' = waits, service' = service
  PROVE  Sound(c)'
<1>0. o \in Outcomes
  BY DEF Outcomes
<1>1. /\ Done(c) \in Nat /\ Done(c)' = Done(c) + 1
      /\ \A i \in 1..Done(c) : results'[c][i] = results[c][i]
      /\ results'[c][Done(c) + 1] = o
  BY <1>0, Lengths, AppendGrows DEF Done
<1>2. Len(plan[c]) \in Nat /\ Done(c) < Len(plan[c]) /\ ~answered[c]
  BY Lengths DEF Sound, Progress, Doing
<1>3. /\ \A k \in 1..Len(started[c]) : started[c][k].of \in 1..(Done(c) + 1)
      /\ \E k \in 1..Len(started[c]) : started[c][k].of = Done(c) + 1
  BY <1>1 DEF Sound, Dispatched
<1>4. Progress(c)'
  BY <1>1, <1>2 DEF Sound, Progress, Doing
<1>5. Dispatched(c)'
  BY <1>1, <1>3 DEF Sound, Dispatched
<1>6. Reported(c)'
  <2>1. \A i : Ran(c, i)' <=> Ran(c, i)
    BY DEF Ran
  <2>2. Ran(c, Done(c) + 1)
    BY <1>3 DEF Ran
  <2>3. /\ learned'[c] \subseteq 1..(Done(c) + 1)
        /\ \A i \in 1..Done(c) : i \in learned'[c] <=> i \in learned[c]
    BY <1>1 DEF Sound, Reported
  <2>4. Done(c) + 1 \in learned'[c] => c \in Humans /\ o = "done"
    BY <1>1 DEF Sound, Reported
  <2>5. \A i \in 1..(Done(c) + 1) : i \in 1..Done(c) \/ i = Done(c) + 1
    BY <1>1
  <2>6. /\ \A i \in 1..(Done(c) + 1) : results'[c][i] = "done" => Ran(c, i)'
        /\ \A i \in 1..(Done(c) + 1) : results'[c][i] = "failed" => Ran(c, i)' \/ i \in lapsed'[c]
    BY <1>1, <2>1, <2>2, <2>5 DEF Sound, Reported
  <2>7. \A i \in 1..(Done(c) + 1) : Ran(c, i)' => results'[c][i] \in {"done", "failed"}
    BY <1>1, <2>1, <2>5 DEF Sound, Reported
  <2>8. \A i \in 1..(Done(c) + 1) : i \in learned'[c] => c \in Humans /\ results'[c][i] = "done"
    BY <1>1, <2>3, <2>4, <2>5 DEF Sound, Reported
  <2>9. \A i \in 1..(Done(c) + 1) :
          Unlearned(c, i)' => i = Done(c) + 1 /\ stage'[c] = "closed" /\ ~answered'[c]
    <3>1. \A i \in 1..Done(c) : ~Unlearned(c, i)'
      BY <1>1, <2>3 DEF Sound, Reported, Unlearned
    <3>2. ASSUME NEW i \in Nat, i = Done(c) + 1, Unlearned(c, i)'
          PROVE  stage'[c] = "closed" /\ ~answered'[c]
      <4>1. c \in Humans /\ o = "done" /\ i \notin learned'[c]
        BY <1>1, <3>2 DEF Unlearned
      <4>2. s = "closed"
        BY <3>2, <4>1
      <4> QED
        BY <1>2, <4>2
    <3> QED
      BY <1>1, <2>5, <3>1, <3>2
  <2>10. lapsed'[c] \subseteq 1..(Done(c) + 1)
    BY <1>1 DEF Sound, Reported
  <2> QED
    BY <1>1, <2>3, <2>6, <2>7, <2>8, <2>9, <2>10 DEF Reported
<1>7. Prepared(c)'
  BY <1>1 DEF Sound, Prepared, Cleared, Saved
<1>8. Late(c)'
  BY DEF Sound, Late
<1> QED
  BY <1>4, <1>5, <1>6, <1>7, <1>8 DEF Sound

(* _dispatch() is entered.                                                 *)
LEMMA StartSound ==
  ASSUME Types, NEW c \in Clients, Sound(c), Start(c),
         stage[c] \in {"loop", "barrier", "snapshot", "window", "ask"}, Done(c) < Len(plan[c]),
         plan' = plan, results' = results, learned' = learned, answered' = answered,
         lapsed' = lapsed, waits' = waits, service' = service, Grows(c),
         Cleared(c, Done(c) + 1)', Saved(c, Done(c) + 1)'
  PROVE  Sound(c)'
<1> DEFINE e == [of |-> Done(c) + 1, late |-> service = "down"]
           n == Len(started[c])
<1>1. /\ Done(c) \in Nat /\ Done(c)' = Done(c) /\ Len(plan[c]) \in Nat
      /\ e \in Starts /\ started[c] \in Seq(Starts)
  BY Lengths DEF Done, Starts
<1>2. stage'[c] = "run" /\ started'[c] = Append(started[c], e)
  BY DEF Start, Goto, Types, At, Done
<1>3. /\ n \in Nat /\ Len(started'[c]) = n + 1
      /\ \A k \in 1..n : started'[c][k] = started[c][k]
      /\ started'[c][n + 1] = e
  BY <1>1, <1>2, AppendGrows
<1>4. e.of = Done(c) + 1 /\ (e.late => service = "down")
  OBVIOUS
<1> HIDE DEF e, n
<1>5. \A k \in 1..n : started[c][k].of \in 1..Done(c)
  BY DEF n, Sound, Dispatched
<1>6. Progress(c)'
  BY <1>1, <1>2 DEF Sound, Progress, Doing
<1>7. Dispatched(c)'
  <2>1. \A k \in 1..(n + 1) : started'[c][k].of \in 1..(Done(c) + 1)
    BY <1>1, <1>3, <1>4, <1>5
  <2>2. \A k, m \in 1..(n + 1) : k < m => started'[c][k].of < started'[c][m].of
    <3> SUFFICES ASSUME NEW k \in 1..(n + 1), NEW m \in 1..(n + 1), k < m
                 PROVE  started'[c][k].of < started'[c][m].of
      OBVIOUS
    <3>1. k \in 1..n
      BY <1>3
    <3>2. CASE m \in 1..n
      BY <1>3, <3>1, <3>2 DEF n, Sound, Dispatched
    <3>3. CASE m = n + 1
      <4>1. started'[c][m].of = Done(c) + 1
        BY <1>3, <1>4, <3>3
      <4>2. started'[c][k].of \in 1..Done(c)
        BY <1>3, <1>5, <3>1
      <4> QED
        BY <1>1, <4>1, <4>2
    <3> QED
      BY <1>3, <3>2, <3>3
  <2>3. \E k \in 1..(n + 1) : started'[c][k].of = Done(c) + 1
    BY <1>3, <1>4
  <2>4. \A k \in 1..(n + 1) : started'[c][k].of \in 1..Done(c) \/ started'[c][k].of = Done(c) + 1
    BY <1>1, <2>1
  <2>5. Done(c) < Len(plan'[c])
    OBVIOUS
  <2> QED
    BY <1>1, <1>2, <1>3, <2>2, <2>3, <2>4, <2>5 DEF Dispatched
<1>8. Reported(c)'
  <2>1. \A i \in 1..Done(c) : Ran(c, i)' <=> Ran(c, i)
    <3>1. \A i \in 1..Done(c) : Ran(c, i) => Ran(c, i)'
      BY <1>3 DEF n, Ran
    <3>2. \A i \in 1..Done(c) : Ran(c, i)' => Ran(c, i)
      <4> SUFFICES ASSUME NEW i \in 1..Done(c), NEW k \in 1..(n + 1), started'[c][k].of = i
                   PROVE  Ran(c, i)
        BY <1>3 DEF Ran
      <4>1. k # n + 1
        BY <1>1, <1>3, <1>4
      <4>2. k \in 1..n
        BY <1>3, <4>1
      <4> QED
        BY <1>3, <4>2 DEF n, Ran
    <3> QED
      BY <3>1, <3>2
  <2>2. \A i \in 1..Done(c) : Unlearned(c, i)' <=> Unlearned(c, i)
    BY DEF Unlearned
  <2>3. \A i \in 1..Done(c) : ~Unlearned(c, i)
    BY DEF Sound, Reported
  <2> QED
    BY <1>1, <2>1, <2>2, <2>3 DEF Sound, Reported
<1>9. Prepared(c)'
  <2>1. \A k \in 1..n : Cleared(c, started[c][k].of)' /\ Saved(c, started[c][k].of)'
    BY <1>3 DEF n, Sound, Prepared, Grows, Cleared, Saved
  <2>2. ASSUME NEW k \in 1..(n + 1)
        PROVE  Cleared(c, started[c][k].of)' /\ Saved(c, started[c][k].of)'
    <3>1. CASE k \in 1..n
      BY <2>1, <3>1
    <3>2. CASE k = n + 1
      BY <1>1, <1>3, <1>4, <3>2 DEF Cleared, Saved
    <3> QED
      BY <1>3, <3>1, <3>2
  <2> QED
    BY <1>1, <1>2, <1>3, <2>2 DEF Prepared, Grows
<1>10. Late(c)'
  <2>1. service = "down" => waits = FALSE
    BY DEF Sound, Late
  <2>2. \A k \in 1..(n + 1) : started'[c][k].late = TRUE => waits = FALSE
    <3> SUFFICES ASSUME NEW k \in 1..(n + 1), started'[c][k].late = TRUE
                 PROVE  waits = FALSE
      OBVIOUS
    <3>1. CASE k \in 1..n
      BY <1>3, <3>1 DEF n, Sound, Late
    <3>2. CASE k = n + 1
      <4>1. started'[c][k] = e
        BY <1>3, <3>2, Zenon
      <4>2. e.late
        BY <4>1, Zenon
      <4> QED
        BY <1>4, <2>1, <4>2, Zenon
    <3>3. \A j \in 1..(n + 1) : j \in 1..n \/ j = n + 1
      BY <1>3
    <3> QED
      BY <3>1, <3>2, <3>3, Zenon
  <2> QED
    BY <1>3, <2>2 DEF Sound, Late
<1> QED
  BY <1>6, <1>7, <1>8, <1>9, <1>10 DEF Sound
-----------------------------------------------------------------------------
(* The steps of a client. *)

LEMMA Keeps ==
  ASSUME Types, NEW c \in Clients, NEW s \in Stages, Goto(c, s)
  PROVE  stage'[c] = s /\ \A d \in Clients \ {c} : stage'[d] = stage[d]
BY DEF Goto, Types

LEMMA ConcludeKeeps ==
  ASSUME Types, NEW c \in Clients, NEW o \in Outcomes, Conclude(c, o)
  PROVE  /\ stage'[c] = "loop" /\ results'[c] = Append(results[c], o)
         /\ \A d \in Clients \ {c} : stage'[d] = stage[d] /\ results'[d] = results[d]
BY DEF Goto, Conclude, Report, Types

LEMMA QuestionKeeps ==
  ASSUME Types, NEW c \in Clients, NEW s \in Stages, Question(c, s)
  PROVE  stage'[c] = s /\ \A d \in Clients \ {c} : stage'[d] = stage[d]
BY Keeps DEF Question

(* What gate.process() does with an action that is ready for it.           *)
LEMMA GateSound ==
  ASSUME Types, NEW c \in Clients, Sound(c), EnterGate(c),
         stage[c] \in {"loop", "barrier", "snapshot"}, Done(c) < Len(plan[c]),
         plan' = plan, learned' = learned, answered' = answered, waits' = waits, service' = service,
         lapsed' = lapsed, Grows(c), NEW n \in Nat, n = Done(c) + 1, Cleared(c, n)', Saved(c, n)'
  PROVE  Sound(c)'
<1>0. "window" \in Stages /\ "ask" \in Stages /\ "blocked" \in Outcomes /\ ~answered[c]
  BY DEF Stages, Waiting, Outcomes, Sound, Progress
<1>1. CASE Start(c) /\ Answered(c) /\ UNCHANGED results
  <2>1. Cleared(c, Done(c) + 1)' /\ Saved(c, Done(c) + 1)'
    BY <1>1 DEF Cleared, Saved, Done
  <2> QED
    BY <1>1, <2>1, StartSound
<1>2. CASE Goto(c, "window") /\ Answered(c) /\ UNCHANGED <<results, started>>
  <2>1. stage'[c] = "window"
    BY <1>0, <1>2, Keeps
  <2>2. Cleared(c, Done(c) + 1)' /\ Saved(c, Done(c) + 1)'
    BY <1>2 DEF Cleared, Saved, Done
  <2> QED
    BY <1>0, <1>2, <2>1, <2>2, MoveSound DEF Doing
<1>3. CASE Question(c, "ask") /\ UNCHANGED <<results, started>>
  <2>1. stage'[c] = "ask"
    BY <1>0, <1>3, QuestionKeeps
  <2>2. Cleared(c, Done(c) + 1)' /\ Saved(c, Done(c) + 1)'
    BY <1>3 DEF Cleared, Saved, Done
  <2> QED
    BY <1>0, <1>3, <2>1, <2>2, MoveSound DEF Doing
<1>4. CASE Conclude(c, "blocked") /\ Answered(c) /\ UNCHANGED started
  <2>1. stage'[c] = "loop" /\ results'[c] = Append(results[c], "blocked")
    BY <1>0, <1>4, ConcludeKeeps
  <2>2. lapsed[c] \subseteq 1..(Done(c) + 1)
    BY Lengths DEF Sound, Reported
  <2> QED
    BY <1>0, <1>4, <2>1, <2>2, ConcludeSound
<1> QED
  BY <1>1, <1>2, <1>3, <1>4 DEF EnterGate

LEMMA PastBarrierSound ==
  ASSUME Types, NEW c \in Clients, Sound(c), PastBarrier(c),
         stage[c] \in {"loop", "barrier"}, Done(c) < Len(plan[c]),
         plan' = plan, learned' = learned, answered' = answered, waits' = waits, service' = service,
         lapsed' = lapsed, Grows(c), NEW n \in Nat, n = Done(c) + 1, Cleared(c, n)'
  PROVE  Sound(c)'
<1>0. "snapshot" \in Stages /\ ~answered[c] /\ Action(c) = plan[c][Done(c) + 1]
  BY DEF Stages, Waiting, Sound, Progress, Action, At, Done
<1>1. CASE Goto(c, "snapshot") /\ Answered(c) /\ UNCHANGED <<results, started>>
  <2>1. stage'[c] = "snapshot"
    BY <1>0, <1>1, Keeps
  <2>2. Cleared(c, Done(c) + 1)'
    BY <1>1 DEF Cleared, Saved, Done
  <2> QED
    BY <1>0, <1>1, <2>1, <2>2, MoveSound DEF Doing
<1>2. CASE ~Action(c).risky /\ EnterGate(c)
  <2>1. plan[c][n] \in Actions
    BY Lengths, ElementOfSeq
  <2>2. Saved(c, n)'
    BY <1>0, <1>2, <2>1 DEF Saved, Actions
  <2> QED
    BY <1>2, <2>2, GateSound
<1> QED
  BY <1>1, <1>2 DEF PastBarrier
(* What a step of a client does to the others: nothing.                    *)
Apart(c) ==
  /\ waits' = waits /\ service' = service
  /\ \A d \in Clients \ {c} :
       /\ stage'[d] = stage[d] /\ plan'[d] = plan[d] /\ results'[d] = results[d]
       /\ learned'[d] = learned[d] /\ answered'[d] = answered[d] /\ passed'[d] = passed[d]
       /\ saved'[d] = saved[d] /\ started'[d] = started[d] /\ lapsed'[d] = lapsed[d]

LEMMA ApartSound ==
  ASSUME Types, NEW c \in Clients, \A d \in Clients : Sound(d), Apart(c), Sound(c)'
  PROVE  \A d \in Clients : Sound(d)'
<1> SUFFICES ASSUME NEW d \in Clients, d # c
             PROVE  Sound(d)'
  OBVIOUS
<1> QED
  BY KeptSound DEF Apart

LEMMA StartApart ==
  ASSUME Types, NEW c \in Clients, Start(c)
  PROVE  \A d \in Clients \ {c} : stage'[d] = stage[d] /\ started'[d] = started[d]
BY DEF Start, Goto, Types

LEMMA GateApart ==
  ASSUME Types, NEW c \in Clients, EnterGate(c)
  PROVE  \A d \in Clients \ {c} :
           stage'[d] = stage[d] /\ results'[d] = results[d] /\ started'[d] = started[d]
<1>0. "window" \in Stages /\ "ask" \in Stages /\ "blocked" \in Outcomes
  BY DEF Stages, Waiting, Outcomes
<1>1. CASE Start(c) /\ Answered(c) /\ UNCHANGED results
  BY <1>1, StartApart
<1>2. CASE Goto(c, "window") /\ Answered(c) /\ UNCHANGED <<results, started>>
  BY <1>0, <1>2, Keeps
<1>3. CASE Question(c, "ask") /\ UNCHANGED <<results, started>>
  BY <1>0, <1>3, QuestionKeeps
<1>4. CASE Conclude(c, "blocked") /\ Answered(c) /\ UNCHANGED started
  BY <1>0, <1>4, ConcludeKeeps
<1> QED
  BY <1>1, <1>2, <1>3, <1>4 DEF EnterGate

LEMMA BarrierApart ==
  ASSUME Types, NEW c \in Clients, PastBarrier(c)
  PROVE  \A d \in Clients \ {c} :
           stage'[d] = stage[d] /\ results'[d] = results[d] /\ started'[d] = started[d]
<1>1. CASE Goto(c, "snapshot") /\ Answered(c) /\ UNCHANGED <<results, started>>
  BY <1>1, Keeps DEF Stages, Waiting
<1>2. CASE EnterGate(c)
  BY <1>2, GateApart
<1> QED
  BY <1>1, <1>2 DEF PastBarrier

LEMMA ResumeSound ==
  ASSUME Types, \A d \in Clients : Sound(d), NEW c \in Clients, Resume(c)
  PROVE  \A d \in Clients : Sound(d)'
<1>0. /\ Sound(c) /\ At(c) = Done(c) + 1 /\ Done(c) \in Nat /\ Len(plan[c]) \in Nat
      /\ "guarded" \in Outcomes /\ {"closed", "barrier", "answer"} \subseteq Stages
      /\ Grows(c) <=> (passed[c] \subseteq passed'[c] /\ passed'[c] \subseteq 1..Len(plan[c])
                      /\ saved[c] \subseteq saved'[c] /\ saved'[c] \subseteq 1..Len(plan[c]))
      /\ passed[c] \cup saved[c] \subseteq 1..Len(plan[c])
      /\ lapsed[c] \subseteq 1..(Done(c) + 1)
  BY Lengths DEF At, Done, Outcomes, Stages, Waiting, Grows, Sound, Prepared, Reported
<1>1. CASE Guarded(c)
  <2>1. /\ stage'[c] = "loop" /\ results'[c] = Append(results[c], "guarded")
        /\ \A d \in Clients \ {c} : stage'[d] = stage[d] /\ results'[d] = results[d]
    BY <1>0, <1>1, ConcludeKeeps DEF Guarded
  <2>2. Apart(c)
    BY <1>1, <2>1 DEF Guarded, Apart
  <2>3. Sound(c)'
    BY <1>0, <1>1, <2>1, ConcludeSound DEF Guarded
  <2> QED
    BY <2>2, <2>3, ApartSound
<1>2. CASE Malformed(c)
  <2>1. stage'[c] = "closed" /\ \A d \in Clients \ {c} : stage'[d] = stage[d]
    BY <1>0, <1>2, Keeps DEF Malformed, Close
  <2>2. Apart(c)
    BY <1>2, <2>1 DEF Malformed, Close, Apart
  <2>3. ~answered[c]
    BY <1>0, <1>2 DEF Malformed, Sound, Progress
  <2>4. Sound(c)'
    BY <1>0, <1>2, <2>1, <2>3, MoveSound DEF Malformed, Close, Doing
  <2> QED
    BY <2>2, <2>4, ApartSound
<1>3. CASE Admit(c)
  <2>1. CASE Question(c, "barrier") /\ UNCHANGED <<results, started>>
    <3>1. stage'[c] = "barrier" /\ \A d \in Clients \ {c} : stage'[d] = stage[d]
      BY <1>0, <2>1, QuestionKeeps
    <3>2. Apart(c)
      BY <1>3, <2>1, <3>1 DEF Admit, Apart
    <3>3. ~answered[c]
      BY <1>0, <1>3 DEF Admit, Sound, Progress
    <3>4. /\ stage[c] = "loop" /\ Done(c) < Len(plan[c]) /\ plan' = plan /\ learned' = learned
          /\ answered' = answered /\ lapsed' = lapsed /\ waits' = waits /\ service' = service
          /\ results' = results /\ started' = started /\ Grows(c)
      BY <1>0, <1>3, <2>1 DEF Admit
    <3>5. Sound(c)'
      BY <3>1, <3>3, <3>4, MoveSound DEF Doing
    <3> QED
      BY <3>2, <3>5, ApartSound
  <2>2. CASE ~Action(c).world /\ PastBarrier(c)
    <3>1. PICK n \in Nat : n = Done(c) + 1
      BY <1>0
    <3>2. plan[c][n] \in Actions
      BY <1>0, <1>3, <3>1, Lengths, ElementOfSeq DEF Admit
    <3>3. Cleared(c, n)'
      BY <1>0, <1>3, <2>2, <3>1, <3>2 DEF Admit, Cleared, Actions, Action
    <3>4. Sound(c)'
      BY <1>0, <1>3, <2>2, <3>1, <3>3, PastBarrierSound DEF Admit
    <3>5. Apart(c)
      BY <1>3, <2>2, BarrierApart DEF Admit, Apart
    <3> QED
      BY <3>4, <3>5, ApartSound
  <2> QED
    BY <1>3, <2>1, <2>2 DEF Admit
<1>4. CASE LoopEnds(c)
  <2>1. stage'[c] = "answer" /\ \A d \in Clients \ {c} : stage'[d] = stage[d]
    BY <1>0, <1>4, Keeps DEF LoopEnds
  <2>2. Apart(c)
    BY <1>4, <2>1 DEF LoopEnds, Apart
  <2>3. ~answered[c] /\ Done(c) = Len(plan[c])
    BY <1>0, <1>4 DEF LoopEnds, Sound, Progress
  <2>4. Sound(c)'
    BY <1>0, <1>4, <2>1, <2>3, MoveSound DEF LoopEnds, Doing
  <2> QED
    BY <2>2, <2>4, ApartSound
<1> QED
  BY <1>1, <1>2, <1>3, <1>4 DEF Resume

LEMMA BeginSound ==
  ASSUME Types, \A d \in Clients : Sound(d), NEW c \in Clients,
         (Connect(c) \/ Command(c) \/ NoCommand(c) \/ Answer(c))
  PROVE  \A d \in Clients : Sound(d)'
<1>0. /\ Sound(c) /\ Done(c) \in Nat /\ Len(plan[c]) \in Nat
      /\ {"reading", "loop", "closed", "answer"} \subseteq Stages
      /\ Grows(c) <=> (passed[c] \subseteq passed'[c] /\ passed'[c] \subseteq 1..Len(plan[c])
                      /\ saved[c] \subseteq saved'[c] /\ saved'[c] \subseteq 1..Len(plan[c]))
      /\ passed[c] \cup saved[c] \subseteq 1..Len(plan[c])
  BY Lengths DEF Stages, Waiting, Grows, Sound, Prepared
<1>1. CASE Connect(c)
  <2>1. stage[c] = "none" /\ stage'[c] = "reading" /\ service = "up"
        /\ \A d \in Clients \ {c} : stage'[d] = stage[d]
    BY <1>0, <1>1, Keeps DEF Connect
  <2>2. Apart(c)
    BY <1>1, <2>1 DEF Connect, Apart
  <2>3. Sound(c)'
    BY <1>0, <1>1, <2>1 DEF Connect, Sound, Progress, Dispatched, Reported, Ran, Prepared, Cleared,
                           Saved, Late, Done, Doing, Unlearned
  <2> QED
    BY <2>2, <2>3, ApartSound
<1>2. CASE Command(c) /\ \E p \in Plans : plan' = [plan EXCEPT ![c] = p] /\ Goto(c, "loop")
  <2>1. PICK p \in Plans : plan' = [plan EXCEPT ![c] = p]
    BY <1>2
  <2>2. stage[c] = "reading" /\ stage'[c] = "loop" /\ \A d \in Clients \ {c} : stage'[d] = stage[d]
    BY <1>0, <1>2, Keeps DEF Command
  <2>3. /\ plan[c] = << >> /\ Done(c) = 0 /\ started[c] = << >> /\ learned[c] = {} /\ ~answered[c]
        /\ passed[c] = {} /\ saved[c] = {} /\ lapsed[c] = {}
    BY <1>0, <2>2 DEF Sound, Progress, Prepared, Reported
  <2>4. /\ Done(c)' = 0 /\ started'[c] = << >> /\ learned'[c] = {} /\ ~answered'[c]
        /\ passed'[c] = {} /\ saved'[c] = {} /\ lapsed'[c] = {}
    BY <1>2, <2>3 DEF Command, Done
  <2>5. plan' \in [Clients -> Seq(Actions)] /\ Len(plan'[c]) \in Nat
    BY <2>1, AgentAssumption, LenProperties DEF Types
  <2>6. Apart(c)
    BY <1>2, <2>1, <2>2 DEF Command, Apart, Types
  <2>7. Progress(c)' /\ Dispatched(c)' /\ Reported(c)' /\ Prepared(c)'
    BY <2>2, <2>4, <2>5 DEF Progress, Dispatched, Reported, Prepared, Doing
  <2>8. service' = service /\ waits' = waits /\ results' = results
    BY <1>2 DEF Command
  <2>9. Late(c)'
    BY <1>0, <2>2, <2>4, <2>8 DEF Sound, Late
  <2>10. Sound(c)'
    BY <2>7, <2>9 DEF Sound
  <2> QED
    BY <2>6, <2>10, ApartSound
<1>3. CASE Command(c) /\ plan' = plan /\ Goto(c, "answer")
  <2>1. stage[c] = "reading" /\ stage'[c] = "answer" /\ \A d \in Clients \ {c} : stage'[d] = stage[d]
    BY <1>0, <1>3, Keeps DEF Command
  <2>2. Apart(c)
    BY <1>3, <2>1 DEF Command, Apart
  <2>3. ~answered[c] /\ Done(c) = 0 /\ plan[c] = << >> /\ Len(plan[c]) = 0
    BY <1>0, <2>1 DEF Sound, Progress
  <2>4. Sound(c)'
    BY <1>0, <1>3, <2>1, <2>3, MoveSound DEF Command, Doing
  <2> QED
    BY <2>2, <2>4, ApartSound
<1>4. CASE NoCommand(c)
  <2>1. stage[c] = "reading" /\ stage'[c] = "closed" /\ \A d \in Clients \ {c} : stage'[d] = stage[d]
    BY <1>0, <1>4, Keeps DEF NoCommand, Close
  <2>2. Apart(c)
    BY <1>4, <2>1 DEF NoCommand, Close, Apart
  <2>3. ~answered[c]
    BY <1>0, <2>1 DEF Sound, Progress
  <2>4. Sound(c)'
    BY <1>0, <1>4, <2>1, <2>3, MoveSound DEF NoCommand, Close, Doing
  <2> QED
    BY <2>2, <2>4, ApartSound
<1>5. CASE Answer(c)
  <2>1. stage[c] = "answer" /\ stage'[c] = "closed" /\ \A d \in Clients \ {c} : stage'[d] = stage[d]
    BY <1>0, <1>5, Keeps DEF Answer
  <2>2. Apart(c)
    BY <1>5, <2>1 DEF Answer, Apart, Types
  <2>3. Done(c) = Len(plan[c])
    BY <1>0, <2>1 DEF Sound, Progress
  <2>4. Sound(c)'
    BY <1>0, <1>5, <2>1, <2>3, MoveSound DEF Answer, Doing
  <2> QED
    BY <2>2, <2>4, ApartSound
<1> QED
  BY <1>1, <1>2, <1>3, <1>4, <1>5 DEF Command

LEMMA QuestionSound ==
  ASSUME Types, \A d \in Clients : Sound(d), NEW c \in Clients,
         (Barrier(c) \/ Snapshot(c) \/ WindowPasses(c) \/ Asked(c))
  PROVE  \A d \in Clients : Sound(d)'
<1>0. /\ Sound(c) /\ At(c) = Done(c) + 1 /\ Done(c) \in Nat /\ Len(plan[c]) \in Nat
      /\ Done(c) < Len(plan[c]) /\ ~answered[c]
      /\ "unconfirmed" \in Outcomes /\ "rejected" \in Outcomes /\ "closed" \in Stages
      /\ Grows(c) <=> (passed[c] \subseteq passed'[c] /\ passed'[c] \subseteq 1..Len(plan[c])
                      /\ saved[c] \subseteq saved'[c] /\ saved'[c] \subseteq 1..Len(plan[c]))
      /\ passed[c] \cup saved[c] \subseteq 1..Len(plan[c])
      /\ lapsed[c] \subseteq 1..(Done(c) + 1)
  BY Lengths DEF At, Done, Outcomes, Stages, Grows, Sound, Prepared, Progress, Doing, Reported,
                 Barrier, Snapshot, WindowPasses, Asked
<1>1. PICK n \in Nat : n = Done(c) + 1
  BY <1>0
<1>2. CASE Barrier(c)
  <2>0. stage[c] = "barrier"
    BY <1>2 DEF Barrier
  <2>1. CASE /\ passed' = [passed EXCEPT ![c] = @ \cup {At(c)}]
             /\ PastBarrier(c)
             /\ UNCHANGED stray
    <3>1. passed'[c] = passed[c] \cup {n} /\ \A d \in Clients \ {c} : passed'[d] = passed[d]
      BY <1>0, <1>1, <2>1 DEF Types
    <3>2. Grows(c)
      BY <1>0, <1>1, <1>2, <3>1 DEF Barrier
    <3>3. Cleared(c, n)'
      BY <3>1 DEF Cleared
    <3>4. Sound(c)'
      BY <1>0, <1>1, <1>2, <2>1, <3>2, <3>3, PastBarrierSound DEF Barrier
    <3>5. Apart(c)
      BY <1>2, <2>1, <3>1, BarrierApart DEF Barrier, Apart
    <3> QED
      BY <3>4, <3>5, ApartSound
  <2>2. CASE Conclude(c, "unconfirmed") /\ UNCHANGED <<passed, started>>
    <3>1. /\ stage'[c] = "loop" /\ results'[c] = Append(results[c], "unconfirmed")
          /\ \A d \in Clients \ {c} : stage'[d] = stage[d] /\ results'[d] = results[d]
      BY <1>0, <2>2, ConcludeKeeps
    <3>2. Apart(c)
      BY <1>2, <2>2, <3>1 DEF Barrier, Apart
    <3>3. Sound(c)'
      BY <1>0, <1>2, <2>0, <2>2, <3>1, ConcludeSound DEF Barrier
    <3> QED
      BY <3>2, <3>3, ApartSound
  <2>3. CASE Goto(c, "closed") /\ UNCHANGED <<results, passed, started>>
    <3>1. stage'[c] = "closed" /\ \A d \in Clients \ {c} : stage'[d] = stage[d]
      BY <1>0, <2>3, Keeps
    <3>2. Apart(c)
      BY <1>2, <2>3, <3>1 DEF Barrier, Apart
    <3>3. Sound(c)'
      BY <1>0, <1>2, <2>0, <2>3, <3>1, MoveSound DEF Barrier, Doing
    <3> QED
      BY <3>2, <3>3, ApartSound
  <2> QED
    BY <1>2, <2>1, <2>2, <2>3 DEF Barrier
<1>3. CASE Snapshot(c)
  <2>1. saved'[c] = saved[c] \cup {n} /\ \A d \in Clients \ {c} : saved'[d] = saved[d]
    BY <1>0, <1>1, <1>3 DEF Types, Snapshot
  <2>2. Grows(c)
    BY <1>0, <1>1, <1>3, <2>1 DEF Snapshot
  <2>3. Saved(c, n)'
    BY <2>1 DEF Saved
  <2>4. Cleared(c, n)'
    BY <1>0, <1>1, <1>3 DEF Snapshot, Cleared, Sound, Prepared
  <2>5. Sound(c)'
    BY <1>0, <1>1, <1>3, <2>2, <2>3, <2>4, GateSound DEF Snapshot
  <2>6. Apart(c)
    BY <1>3, <2>1, GateApart DEF Snapshot, Apart
  <2> QED
    BY <2>5, <2>6, ApartSound
<1>4. ASSUME Start(c), results' = results, stage[c] \in {"window", "ask"},
             plan' = plan, learned' = learned, answered' = answered, passed' = passed, saved' = saved,
             lapsed' = lapsed, waits' = waits, service' = service
      PROVE  \A d \in Clients : Sound(d)'
  <2>1. Cleared(c, Done(c) + 1)' /\ Saved(c, Done(c) + 1)'
    BY <1>0, <1>4 DEF Cleared, Saved, Sound, Prepared, Done
  <2>2. Sound(c)'
    BY <1>0, <1>4, <2>1, StartSound
  <2>3. Apart(c)
    BY <1>4, StartApart DEF Apart
  <2> QED
    BY <2>2, <2>3, ApartSound
<1>5. CASE WindowPasses(c)
  BY <1>4, <1>5 DEF WindowPasses
<1>6. CASE Asked(c)
  <2>1. CASE Start(c) /\ UNCHANGED results
    BY <1>4, <1>6, <2>1 DEF Asked
  <2>2. CASE Conclude(c, "rejected") /\ UNCHANGED started
    <3>1. /\ stage'[c] = "loop" /\ results'[c] = Append(results[c], "rejected")
          /\ \A d \in Clients \ {c} : stage'[d] = stage[d] /\ results'[d] = results[d]
      BY <1>0, <2>2, ConcludeKeeps
    <3>2. Apart(c)
      BY <1>6, <2>2, <3>1 DEF Asked, Apart
    <3>3. Sound(c)'
      BY <1>0, <1>6, <2>2, <3>1, ConcludeSound DEF Asked
    <3> QED
      BY <3>2, <3>3, ApartSound
  <2>3. CASE Goto(c, "closed") /\ UNCHANGED <<results, started>>
    <3>1. stage'[c] = "closed" /\ \A d \in Clients \ {c} : stage'[d] = stage[d]
      BY <1>0, <2>3, Keeps
    <3>2. Apart(c)
      BY <1>6, <2>3, <3>1 DEF Asked, Apart
    <3>3. Sound(c)'
      BY <1>0, <1>6, <2>3, <3>1, MoveSound DEF Asked, Doing
    <3> QED
      BY <3>2, <3>3, ApartSound
  <2> QED
    BY <1>6, <2>1, <2>2, <2>3 DEF Asked
<1> QED
  BY <1>2, <1>3, <1>5, <1>6

LEMMA FinishKept ==
  ASSUME Types, \A d \in Clients : Sound(d), NEW c \in Clients, Finish(c)
  PROVE  \A d \in Clients : Sound(d)'
<1>0. Sound(c) /\ At(c) = Done(c) + 1 /\ Done(c) \in Nat
  BY Lengths DEF At, Done
<1>1. PICK o \in {"done", "failed"}, s \in {"loop", "closed"} :
        /\ Goto(c, s) /\ Report(c, o)
        /\ \/ learned' = learned /\ (s = "closed" \/ o = "failed" \/ c \notin Humans)
           \/ /\ learned' = [learned EXCEPT ![c] = @ \cup {At(c)}]
              /\ o = "done" /\ c \in Humans
  BY DEF Finish, Conclude
<1>2. s \in Stages
  BY DEF Stages
<1>3. /\ stage'[c] = s /\ results'[c] = Append(results[c], o)
      /\ \A d \in Clients \ {c} : stage'[d] = stage[d] /\ results'[d] = results[d]
  BY <1>1, <1>2, Keeps DEF Report, Types
<1>4. /\ \/ learned'[c] = learned[c] /\ (s = "closed" \/ o = "failed" \/ c \notin Humans)
         \/ learned'[c] = learned[c] \cup {Done(c) + 1} /\ o = "done" /\ c \in Humans
      /\ \A d \in Clients \ {c} : learned'[d] = learned[d]
  BY <1>0, <1>1 DEF Types
<1>5. Apart(c)
  BY <1>3, <1>4 DEF Finish, Apart
<1>6. Sound(c)'
  BY <1>0, <1>3, <1>4, FinishSound DEF Finish
<1> QED
  BY <1>5, <1>6, ApartSound

LEMMA ShutdownSound ==
  ASSUME Types, \A d \in Clients : Sound(d), Shutdown, AllSuspended
  PROVE  \A d \in Clients : Sound(d)'
<1> SUFFICES ASSUME NEW c \in Clients
             PROVE  Sound(c)'
  OBVIOUS
<1>0. /\ Sound(c) /\ Done(c) \in Nat /\ Len(plan[c]) \in Nat /\ "failed" \in Outcomes
      /\ At(c) = Done(c) + 1 /\ stage[c] \in Stages /\ stage[c] # "loop" /\ waits \in BOOLEAN
      /\ Grows(c) <=> (passed[c] \subseteq passed'[c] /\ passed'[c] \subseteq 1..Len(plan[c])
                      /\ saved[c] \subseteq saved'[c] /\ saved'[c] \subseteq 1..Len(plan[c]))
      /\ passed[c] \cup saved[c] \subseteq 1..Len(plan[c])
      /\ lapsed[c] \subseteq 1..Done(c)
  BY Lengths DEF Types, AllSuspended, Outcomes, Grows, Sound, Prepared, Reported, At, Done
<1>1. PICK on \in SUBSET {d \in Clients : MayGoOn(d)} : ShutdownOf(on)
  BY DEF Shutdown, ShutdownOf
<1>2. ~Over(c) => waits = FALSE
  BY <1>0 DEF Shutdown
<1>3. CASE c \in on /\ stage[c] = "window"
  <2>1. waits = FALSE
    BY <1>2, <1>3 DEF Over
  <2>2. Done(c) < Len(plan[c])
    BY <1>0, <1>3 DEF Sound, Progress, Doing
  <2>3. /\ stage'[c] = "loop" /\ results'[c] = Append(results[c], "failed")
        /\ lapsed'[c] = lapsed[c] \cup {Done(c) + 1}
    BY <1>0, <1>1, <1>3 DEF ShutdownOf
  <2>4. lapsed'[c] \subseteq 1..(Done(c) + 1)
    BY <1>0, <2>3
  <2> QED
    BY <1>0, <1>3, <2>1, <2>2, <2>3, <2>4, ConcludeSound DEF Shutdown
<1>4. CASE (c \in on /\ stage[c] # "window") \/ Over(c)
  <2>1. stage'[c] = stage[c] /\ results'[c] = results[c] /\ lapsed'[c] = lapsed[c]
    BY <1>1, <1>4 DEF ShutdownOf, Over
  <2>2. stage[c] \notin {"none", "closed"} => waits = FALSE
    BY <1>2 DEF Over
  <2> QED
    BY <1>0, <2>1, <2>2, KeptSound DEF Shutdown
<1>5. CASE c \notin on /\ ~Over(c)
  <2>1. stage'[c] = "closed" /\ results'[c] = results[c] /\ lapsed'[c] = lapsed[c]
    BY <1>1, <1>5 DEF ShutdownOf
  <2>2. ~answered[c] /\ stage[c] \notin {"none", "closed"}
    BY <1>0, <1>5 DEF Sound, Progress, Over
  <2> QED
    BY <1>0, <1>2, <1>5, <2>1, <2>2, MoveSound DEF Shutdown, Doing
<1> QED
  BY <1>3, <1>4, <1>5

Inv == Types /\ \A c \in Clients : Sound(c)

LEMMA InvInit ==
  ASSUME Init
  PROVE  Inv
<1>1. "none" \in Stages
  BY DEF Stages
<1>2. << >> \in Seq(Actions) /\ << >> \in Seq(Outcomes) /\ << >> \in Seq(Starts)
  OBVIOUS
<1>3. Types
  BY <1>1, <1>2 DEF Init, Types
<1>4. \A c \in Clients : Sound(c)
  BY DEF Init, Sound, Progress, Dispatched, Reported, Prepared, Late, Done, Doing
<1> QED
  BY <1>3, <1>4 DEF Inv

LEMMA InvNext ==
  ASSUME Inv, [Next]_vars
  PROVE  Inv'
<1>0. Types /\ \A d \in Clients : Sound(d)
  BY DEF Inv
<1>1. Types'
  BY <1>0, TypesInductive
<1>2. ASSUME NEW c \in Clients, Resume(c)
      PROVE  \A d \in Clients : Sound(d)'
  BY <1>0, <1>2, ResumeSound
<1>3. ASSUME NEW c \in Clients, Connect(c) \/ Wake(c) \/ Finish(c) \/ Answer(c)
      PROVE  \A d \in Clients : Sound(d)'
  BY <1>0, <1>3, BeginSound, QuestionSound, FinishKept DEF Wake
<1>4. ASSUME LineRead \/ Signal \/ Exit \/ UNCHANGED vars
      PROVE  \A d \in Clients : Sound(d)'
  <2> SUFFICES ASSUME NEW c \in Clients
               PROVE  Sound(c)'
    OBVIOUS
  <2> QED
    BY <1>0, <1>4, KeptSound DEF LineRead, Signal, Exit, vars
<1>5. ASSUME Shutdown, AllSuspended
      PROVE  \A d \in Clients : Sound(d)'
  BY <1>0, <1>5, ShutdownSound
<1>6. \A d \in Clients : Sound(d)'
  BY <1>2, <1>3, <1>4, <1>5 DEF Next
<1> QED
  BY <1>1, <1>6 DEF Inv

LEMMA Invariant == Spec => []Inv
<1>1. Init => Inv
  BY InvInit
<1>2. Inv /\ [Next]_vars => Inv'
  BY InvNext
<1> QED
  BY <1>1, <1>2, PTL DEF Spec

-----------------------------------------------------------------------------

(* The service and the tasks of its clients have their types.              *)
THEOREM TypeCorrect == Spec => []TypeOK
<1>1. Inv => TypeOK
  <2> SUFFICES ASSUME Inv
               PROVE  TypeOK
    OBVIOUS
  <2>1. Types /\ \A c \in Clients : Sound(c)
    BY DEF Inv
  <2>2. ASSUME NEW c \in Clients
        PROVE  /\ learned[c] \cup passed[c] \cup saved[c] \cup lapsed[c] \subseteq 1..Len(plan[c])
               /\ started[c] \in Seq([of : 1..Len(plan[c]), late : BOOLEAN])
    <3>1. Done(c) \in Nat /\ Len(plan[c]) \in Nat /\ Done(c) <= Len(plan[c]) /\ started[c] \in Seq(Starts)
      BY <2>1, Lengths DEF Sound, Progress
    <3>2. learned[c] \cup passed[c] \cup saved[c] \cup lapsed[c] \subseteq 1..Len(plan[c])
      BY <2>1, <3>1 DEF Sound, Reported, Prepared
    <3>3. \A k \in 1..Len(started[c]) : started[c][k].of \in 1..Len(plan[c])
      BY <2>1, <3>1 DEF Sound, Dispatched
    <3>4. \A k \in 1..Len(started[c]) : started[c][k] \in Starts
      BY <3>1, ElementOfSeq
    <3>5. \A k \in 1..Len(started[c]) : started[c][k] \in [of : 1..Len(plan[c]), late : BOOLEAN]
      BY <3>3, <3>4 DEF Starts
    <3>6. started[c] \in [1..Len(started[c]) -> [of : 1..Len(plan[c]), late : BOOLEAN]]
      BY <3>1, <3>5, LenProperties
    <3>7. started[c] \in Seq([of : 1..Len(plan[c]), late : BOOLEAN])
      <4> DEFINE T == [of : 1..Len(plan[c]), late : BOOLEAN]
      <4>1. PICK n \in Nat : n = Len(started[c])
        BY <3>1, LenProperties
      <4>2. started[c] \in [1..n -> T]
        BY <3>6, <4>1
      <4> HIDE DEF T
      <4>3. Seq(T) = UNION {[1..m -> T] : m \in Nat}
        BY SeqDef
      <4>4. started[c] \in Seq(T)
        BY <4>2, <4>3
      <4> QED
        BY <4>4 DEF T
    <3> QED
      BY <3>2, <3>7
  <2> QED
    BY <2>1, <2>2 DEF Types, TypeOK, Stages
<1> QED
  BY <1>1, Invariant, PTL

(* The answer and the memory tell what was dispatched, in order and once.  *)
THEOREM AnswersTrue == Spec => []OutcomesTrue
<1>1. Inv => OutcomesTrue
  BY DEF Inv, Sound, Progress, Dispatched, Reported, Unlearned, Done, OutcomesTrue
<1> QED
  BY <1>1, Invariant, PTL

(* Nothing is dispatched without the consent and the snapshot it needs.    *)
THEOREM NoneUnprepared == Spec => []PreparedBeforeRun
<1>1. Inv => PreparedBeforeRun
  BY DEF Inv, Sound, Prepared, Cleared, Saved, PreparedBeforeRun
<1> QED
  BY <1>1, Invariant, PTL

(* On a Python whose Server.wait_closed() waits for open connections the   *)
(* documents are right: nothing is dispatched after the shutdown, and      *)
(* nothing is cut short by it.                                             *)
THEOREM WaitingServer == Spec => []WaitingServerKeepsWord
<1>1. Inv => WaitingServerKeepsWord
  <2> SUFFICES ASSUME Inv, waits, NEW c \in Clients, NEW k \in 1..Len(started[c])
               PROVE  /\ ~started[c][k].late
                      /\ service \in {"down", "exited"} => started[c][k].of <= Len(results[c])
    BY DEF WaitingServerKeepsWord
  <2>1. Types /\ Sound(c) /\ waits = TRUE
    BY DEF Inv, Types
  <2>2. started[c] \in Seq(Starts) /\ Done(c) \in Nat
    BY <2>1, Lengths
  <2>3. started[c][k] \in Starts
    BY <2>2, ElementOfSeq
  <2>4. ~started[c][k].late
    BY <2>1, <2>3 DEF Sound, Late, Starts
  <2>5. service \in {"down", "exited"} => started[c][k].of <= Done(c)
    BY <2>1, <2>2 DEF Sound, Late, Dispatched
  <2> QED
    BY <2>4, <2>5 DEF Done
<1> QED
  BY <1>1, Invariant, PTL
=============================================================================
