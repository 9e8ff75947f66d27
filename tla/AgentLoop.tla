----------------------------- MODULE AgentLoop -----------------------------
(***************************************************************************)
(* core/agent_main.py: a task per client reads one command, plans it and   *)
(* takes each planned action through the channel guard, the real-world     *)
(* barrier, the snapshot and the confirmation gate, and answers; a signal  *)
(* closes the server, and the end of the event loop cancels what is left.  *)
(*                                                                         *)
(* The gate is seen here from outside, as ConfirmGate has it.  Its risk    *)
(* levels, and what the supervisor and the channel guard say, are chosen;  *)
(* the two are called by methods (check, record_action, is_allowed) their  *)
(* classes lack, so that only the use the loop makes of them is modelled.  *)
(***************************************************************************)
EXTENDS Integers, Sequences, FiniteSets

CONSTANTS
  Clients,
  Humans,  \* the clients that call themselves "HUMAN"; nothing verifies it
  Plans    \* what Planner.plan() may return: sequences of Actions

(* The lines that _format_result() and the loop tell apart.                *)
Outcomes == {"guarded", "unconfirmed", "blocked", "rejected", "failed", "done"}

(* What the loop distinguishes in an action: the planner's risk, whether   *)
(* is_real_world() takes it, whether its execution waits for the input     *)
(* broker, and whether its params are no dictionary.                       *)
Actions ==
  [risky : BOOLEAN, world : BOOLEAN, broker : BOOLEAN, malformed : BOOLEAN]

ASSUME AgentAssumption ==
  /\ Humans \subseteq Clients
  /\ Plans \subseteq Seq(Actions)

VARIABLES
  waits,     \* Server.wait_closed() waits for open connections: Python 3.12.1 on
  service,   \* "up", "signalled", "down" once the shutdown is logged, "exited"
  stage,     \* where the task of a client waits
  plan,      \* the planned actions of the command
  results,   \* per action that is over, its line of the answer
  learned,   \* the actions memory.record_success() returned for
  answered,  \* the answer reached the client
  terminal,  \* the clients whose question waits for a line at the terminal
  stray,     \* a thread still waits for the line of a question that is over
  passed,    \* history: the actions the barrier let through
  saved,     \* history: the actions for which take() has returned
  started,   \* history: the actions given to _dispatch(), and whether after the shutdown
  lapsed     \* history: the actions whose notification was cancelled

prompts == <<terminal, stray>>
vars == <<waits, service, stage, plan, results, learned, answered, prompts, passed, saved,
          started, lapsed>>

(* The stages in which a task is suspended, and a cancellation reaches it. *)
Waiting == {"reading", "barrier", "snapshot", "window", "ask", "run", "answer"}

-----------------------------------------------------------------------------

Init ==
  /\ waits \in BOOLEAN
  /\ service = "up"
  /\ stage = [c \in Clients |-> "none"]
  /\ plan = [c \in Clients |-> << >>]
  /\ results = [c \in Clients |-> << >>]
  /\ learned = [c \in Clients |-> {}]
  /\ answered = [c \in Clients |-> FALSE]
  /\ passed = [c \in Clients |-> {}]
  /\ saved = [c \in Clients |-> {}]
  /\ started = [c \in Clients |-> << >>]
  /\ lapsed = [c \in Clients |-> {}]
  /\ terminal = {}
  /\ stray = FALSE

At(c) == Len(results[c]) + 1
Action(c) == plan[c][At(c)]

Goto(c, s) == stage' = [stage EXCEPT ![c] = s]

Report(c, outcome) == results' = [results EXCEPT ![c] = Append(@, outcome)]

(* The action is over; the loop goes on to the next.                       *)
Conclude(c, outcome) ==
  /\ Goto(c, "loop")
  /\ Report(c, outcome)

(* A question is put to the UI's socket or, where there is none, by a      *)
(* thread of the default executor that waits in input().                   *)
Question(c, s) ==
  /\ Goto(c, s)
  /\ terminal' \in {terminal \ {c}, terminal \cup {c}}

(* It is answered: the thread, if there is one, has read its line.         *)
Answered(c) == terminal' = terminal \ {c}

(* It is given up by its timer, and its thread stays in input().           *)
GivenUp(c) ==
  /\ terminal' = terminal \ {c}
  /\ stray' = (stray \/ c \in terminal)

-----------------------------------------------------------------------------

Connect(c) ==
  /\ service = "up"
  /\ stage[c] = "none"
  /\ Goto(c, "reading")
  /\ UNCHANGED <<waits, service, plan, results, learned, answered, prompts, passed, saved, started, lapsed>>

(* A command arrives.  The supervisor is asked, memories are filtered and  *)
(* the plan is made without an await; when the supervisor refuses or the   *)
(* planner fails, nothing is planned and the answer says so.               *)
Command(c) ==
  /\ stage[c] = "reading"
  /\ \/ \E p \in Plans : plan' = [plan EXCEPT ![c] = p] /\ Goto(c, "loop")
     \/ plan' = plan /\ Goto(c, "answer")
  /\ UNCHANGED <<waits, service, results, learned, answered, prompts, passed, saved, started, lapsed>>

(* The task ends without an answer: nothing readable came within 30 s, or  *)
(* an exception reached _handle_client().                                  *)
Close(c) ==
  /\ Goto(c, "closed")
  /\ UNCHANGED <<waits, service, plan, results, learned, answered, prompts, passed, saved, started, lapsed>>

NoCommand(c) == stage[c] = "reading" /\ Close(c)

(* The channel guard refuses.                                              *)
Guarded(c) ==
  /\ stage[c] = "loop" /\ At(c) <= Len(plan[c])
  /\ Conclude(c, "guarded")
  /\ UNCHANGED <<waits, service, plan, learned, answered, prompts, passed, saved, started, lapsed>>

Malformed(c) ==
  /\ stage[c] = "loop" /\ At(c) <= Len(plan[c])
  /\ Action(c).malformed
  /\ Close(c)

(* Entering _dispatch().                                                   *)
Start(c) ==
  /\ Goto(c, "run")
  /\ started' = [started EXCEPT ![c] = Append(@, [of |-> At(c), late |-> service = "down"])]

(* gate.process(): the gate judges for itself, without regard to the risk  *)
(* the planner gave.                                                       *)
EnterGate(c) ==
  \/ Start(c) /\ Answered(c) /\ UNCHANGED results                  \* AUTO
  \/ Goto(c, "window") /\ Answered(c) /\ UNCHANGED <<results, started>>   \* NOTIFY
  \/ Question(c, "ask") /\ UNCHANGED <<results, started>>           \* CONFIRM
  \/ Conclude(c, "blocked") /\ Answered(c) /\ UNCHANGED started    \* BLOCK

(* What follows the barrier: a snapshot if the planner called it risky.    *)
PastBarrier(c) ==
  \/ Action(c).risky /\ Goto(c, "snapshot") /\ Answered(c) /\ UNCHANGED <<results, started>>
  \/ ~Action(c).risky /\ EnterGate(c)

Admit(c) ==
  /\ stage[c] = "loop" /\ At(c) <= Len(plan[c])
  /\ ~Action(c).malformed
  /\ \/ Action(c).world /\ Question(c, "barrier") /\ UNCHANGED <<results, started>>
     \/ ~Action(c).world /\ PastBarrier(c)
  /\ UNCHANGED <<waits, service, plan, learned, answered, stray, passed, saved, lapsed>>

(* Mutant: an error on the way to the user does not stop the action.       *)
Barrier_ErrorAdmits(c) ==
  /\ stage[c] = "barrier"
  /\ PastBarrier(c)
  /\ UNCHANGED <<waits, service, plan, learned, answered, stray, passed, saved, lapsed>>

(* The barrier's question ends: with consent; with a refusal or an error,  *)
(* or by its timer, all of which cancel the action; or, on the terminal,   *)
(* with an EOFError.                                                       *)
Barrier(c) ==
  /\ stage[c] = "barrier"
  /\ \/ /\ passed' = [passed EXCEPT ![c] = @ \cup {At(c)}]
        /\ PastBarrier(c)
        /\ UNCHANGED stray
     \/ Conclude(c, "unconfirmed") /\ Answered(c) /\ UNCHANGED <<stray, passed, started>>
     \/ Conclude(c, "unconfirmed") /\ GivenUp(c) /\ UNCHANGED <<passed, started>>
     \/ /\ c \in terminal
        /\ Goto(c, "closed") /\ Answered(c)
        /\ UNCHANGED <<stray, results, passed, started>>
  /\ UNCHANGED <<waits, service, plan, learned, answered, saved, lapsed>>

(* Mutant: snapper is waited for without a timeout.                        *)
Snapshot_Never(c) == FALSE /\ UNCHANGED vars

(* take() returns, with a number or, after any failure or 10 s, with none. *)
Snapshot(c) ==
  /\ stage[c] = "snapshot"
  /\ saved' = [saved EXCEPT ![c] = @ \cup {At(c)}]
  /\ EnterGate(c)
  /\ UNCHANGED <<waits, service, plan, learned, answered, stray, passed, lapsed>>

WindowPasses(c) ==
  /\ stage[c] = "window"
  /\ Start(c)
  /\ UNCHANGED <<waits, service, plan, results, learned, answered, prompts, passed, saved, lapsed>>

(* Mutant: the gate waits for its answer without a timeout.                *)
Asked_Never(c) == FALSE /\ UNCHANGED vars

(* The gate's question ends: approved, rejected, by its timer, or, on the  *)
(* terminal, with an EOFError.                                             *)
Asked(c) ==
  /\ stage[c] = "ask"
  /\ \/ Start(c) /\ Answered(c) /\ UNCHANGED <<stray, results>>
     \/ Conclude(c, "rejected") /\ Answered(c) /\ UNCHANGED <<stray, started>>
     \/ Conclude(c, "rejected") /\ GivenUp(c) /\ UNCHANGED started
     \/ /\ c \in terminal
        /\ Goto(c, "closed") /\ Answered(c)
        /\ UNCHANGED <<stray, results, started>>
  /\ UNCHANGED <<waits, service, plan, learned, answered, passed, saved, lapsed>>

(* Mutant: an action that fails is dispatched again.                       *)
Finish_Retries(c) ==
  /\ stage[c] = "run"
  /\ \/ Conclude(c, "done") /\ UNCHANGED started
     \/ Len(started[c]) < 3 /\ Start(c) /\ UNCHANGED results
  /\ UNCHANGED <<waits, service, plan, learned, answered, prompts, passed, saved, lapsed>>

(* _dispatch() returns; exceptions are results too.  The action's line is  *)
(* written and then, for a success of a "HUMAN" command, memory's: if that *)
(* write raises, the task ends there.                                      *)
Finish(c) ==
  /\ stage[c] = "run"
  /\ \/ Conclude(c, "failed") /\ UNCHANGED learned
     \/ c \notin Humans /\ Conclude(c, "done") /\ UNCHANGED learned
     \/ /\ c \in Humans
        /\ Conclude(c, "done")
        /\ learned' = [learned EXCEPT ![c] = @ \cup {At(c)}]
     \/ /\ c \in Humans
        /\ Goto(c, "closed") /\ Report(c, "done")
        /\ UNCHANGED learned
  /\ UNCHANGED <<waits, service, plan, answered, prompts, passed, saved, started, lapsed>>

(* The loop is over and the answer is written.                             *)
LoopEnds(c) ==
  /\ stage[c] = "loop" /\ At(c) > Len(plan[c])
  /\ Goto(c, "answer")
  /\ UNCHANGED <<waits, service, plan, results, learned, answered, prompts, passed, saved, started, lapsed>>

(* The client has taken its answer, or is gone and drain() raises.  No     *)
(* timer ends this wait: a client that stays and does not read a long      *)
(* answer keeps the task, and its connection, for as long as it likes.     *)
Answer(c) ==
  /\ stage[c] = "answer"
  /\ \E there \in BOOLEAN : answered' = [answered EXCEPT ![c] = there]
  /\ Goto(c, "closed")
  /\ UNCHANGED <<waits, service, plan, results, learned, prompts, passed, saved, started, lapsed>>

-----------------------------------------------------------------------------

Signal ==
  /\ service = "up"
  /\ service' = "signalled"
  /\ UNCHANGED <<waits, stage, plan, results, learned, answered, prompts, passed, saved, started, lapsed>>

(* Mutant: the server is closed without waiting for its connections, and   *)
(* nothing is cancelled.                                                   *)
Shutdown_LetsRun ==
  /\ service = "signalled"
  /\ service' = "down"
  /\ UNCHANGED <<waits, stage, plan, results, learned, answered, prompts, passed, saved, started, lapsed>>

Over(c) == stage[c] \in {"none", "closed"}

(* What catches a cancellation: the gate's five seconds, which turn it     *)
(* into a result; and, on the Pythons whose server does not wait, each     *)
(* wait_for() whose result is there already.                               *)
MayGoOn(c) ==
  \/ stage[c] \in {"window", "reading", "barrier", "snapshot", "ask"}
  \/ stage[c] = "run" /\ ~Action(c).broker

(* The server is closed, "Shutdown complete." is logged, and asyncio.run() *)
(* cancels, once, the tasks that are left.  One that catches it goes on    *)
(* with its plan.  Of the questions that are cancelled some may have left  *)
(* their thread in input().                                                *)
Shutdown ==
  /\ service = "signalled"
  /\ waits => \A c \in Clients : Over(c)
  /\ service' = "down"
  /\ \E on \in SUBSET {c \in Clients : MayGoOn(c)} :
       /\ stage' = [c \in Clients |->
                      CASE c \in on -> IF stage[c] = "window" THEN "loop" ELSE stage[c]
                        [] c \notin on -> IF Over(c) THEN stage[c] ELSE "closed"]
       /\ results' = [c \in Clients |->
                        IF c \in on /\ stage[c] = "window" THEN Append(results[c], "failed")
                        ELSE results[c]]
       /\ lapsed' = [c \in Clients |->
                       IF c \in on /\ stage[c] = "window" THEN lapsed[c] \cup {At(c)}
                       ELSE lapsed[c]]
       /\ \E left \in SUBSET (terminal \ on) : stray' = (stray \/ left # {})
  /\ terminal' = {}
  /\ UNCHANGED <<waits, plan, learned, answered, passed, saved, started>>

(* The thread of a question that is over reads its line, if a user types   *)
(* one; here the last such thread.                                         *)
LineRead ==
  /\ stray
  /\ stray' = FALSE
  /\ UNCHANGED <<waits, service, stage, plan, results, learned, answered, terminal, passed, saved,
                 started, lapsed>>

(* The tasks that went on are awaited, and the executor's threads joined.  *)
Exit ==
  /\ service = "down"
  /\ \A c \in Clients : Over(c)
  /\ ~stray
  /\ service' = "exited"
  /\ UNCHANGED <<waits, stage, plan, results, learned, answered, prompts, passed, saved, started, lapsed>>

(* The loop of handle_text() runs from one await to the next without       *)
(* letting the event loop go: nothing else happens meanwhile.              *)
Resume(c) == Guarded(c) \/ Malformed(c) \/ Admit(c) \/ LoopEnds(c)

AllSuspended == \A c \in Clients : stage[c] # "loop"

(* What a suspended task waits for comes in bounded time.                  *)
Wake(c) ==
  \/ Command(c) \/ NoCommand(c) \/ Barrier(c) \/ Snapshot(c)
  \/ WindowPasses(c) \/ Asked(c)

OnBroker(c) == stage[c] = "run" /\ Action(c).broker

Next ==
  \/ \E c \in Clients : Resume(c)
  \/ /\ AllSuspended
     /\ \/ \E c \in Clients : Connect(c) \/ Wake(c) \/ Finish(c) \/ Answer(c)
        \/ LineRead \/ Signal \/ Shutdown \/ Exit

Spec == Init /\ [][Next]_vars

(* A task's waits have timers, but for two: that of the input broker's     *)
(* answer, and that of the client to take its own.  A line at the terminal *)
(* nobody has to type.                                                     *)
FairSpec ==
  /\ Spec
  /\ \A c \in Clients :
       /\ WF_vars(Resume(c))
       /\ WF_vars(AllSuspended /\ (Wake(c) \/ (~OnBroker(c) /\ Finish(c))))
  /\ WF_vars(AllSuspended /\ (Shutdown \/ Exit))

-----------------------------------------------------------------------------

(* The service and the tasks of its clients have their types.              *)
TypeOK ==
  /\ waits \in BOOLEAN
  /\ service \in {"up", "signalled", "down", "exited"}
  /\ stage \in [Clients -> {"none", "loop", "closed"} \cup Waiting]
  /\ plan \in [Clients -> Plans \cup {<< >>}]
  /\ results \in [Clients -> Seq(Outcomes)]
  /\ answered \in [Clients -> BOOLEAN]
  /\ terminal \subseteq Clients
  /\ stray \in BOOLEAN
  /\ \A c \in Clients :
       /\ learned[c] \cup passed[c] \cup saved[c] \cup lapsed[c] \subseteq 1..Len(plan[c])
       /\ started[c] \in Seq([of : 1..Len(plan[c]), late : BOOLEAN])

Ran(c, i) == \E k \in 1..Len(started[c]) : started[c][k].of = i

(* The answer a client gets has a line for every planned action, whatever  *)
(* was refused, cancelled or failed; each action is dispatched at most     *)
(* once and in the order of the plan.  "Done" is said of none that was not *)
(* dispatched, "Failed" of no other than those and the ones whose          *)
(* notification was cancelled, and a refusal of none that was.  Memory     *)
(* learns only what succeeded for a client that calls itself "HUMAN", and  *)
(* all of that, but for an action whose recording raised: the last of its  *)
(* command, which then gets no answer.                                     *)
OutcomesTrue ==
  \A c \in Clients :
    /\ answered[c] => Len(results[c]) = Len(plan[c])
    /\ \A k, m \in 1..Len(started[c]) : k < m => started[c][k].of < started[c][m].of
    /\ \A i \in 1..Len(results[c]) :
         /\ results[c][i] = "done" => Ran(c, i)
         /\ results[c][i] = "failed" => Ran(c, i) \/ i \in lapsed[c]
         /\ Ran(c, i) => results[c][i] \in {"done", "failed"}
         /\ i \in learned[c] => c \in Humans /\ results[c][i] = "done"
         /\ c \in Humans /\ results[c][i] = "done" /\ i \notin learned[c] =>
              i = Len(results[c]) /\ stage[c] = "closed" /\ ~answered[c]

(* No real-world action is dispatched without the barrier's own consent,   *)
(* and none the planner called risky before its snapshot was tried; an     *)
(* approval by the gate stands for neither.                                *)
PreparedBeforeRun ==
  \A c \in Clients : \A k \in 1..Len(started[c]) :
    LET i == started[c][k].of
    IN  /\ plan[c][i].world => i \in passed[c]
        /\ plan[c][i].risky => i \in saved[c]

(* Where the closed server waits for its connections, "Shutdown complete." *)
(* is the end of every plan: no action is dispatched after it, and none    *)
(* that was dispatched before has been cut short.                          *)
WaitingServerKeepsWord ==
  waits =>
    \A c \in Clients : \A k \in 1..Len(started[c]) :
      /\ ~started[c][k].late
      /\ service \in {"down", "exited"} => started[c][k].of <= Len(results[c])

(* Every client's connection is closed in the end, answered or not, unless *)
(* the input broker keeps one of its actions waiting for good, or the      *)
(* client itself leaves its answer unread.                                 *)
EveryCommandEnds ==
  \A c \in Clients :
    \/ stage[c] = "reading" ~> stage[c] = "closed"
    \/ <>[](OnBroker(c) \/ stage[c] = "answer")

(* A signal ends the process, unless for good the input broker keeps an    *)
(* action, a client leaves its answer unread, or a question that is over   *)
(* has left a thread in input(): no question holds it up by itself, nor a  *)
(* client that is gone.                                                    *)
ShutdownEnds ==
  \/ service = "signalled" ~> service = "exited"
  \/ <>[](stray \/ \E c \in Clients : OnBroker(c) \/ stage[c] = "answer")

(* Of README.md and agent_main.py: stopping the service "immediately kills *)
(* the AI agent", and after "Shutdown complete." it starts nothing.        *)
NothingStartsAfterShutdown ==
  \A c \in Clients : \A k \in 1..Len(started[c]) : ~started[c][k].late
=============================================================================
