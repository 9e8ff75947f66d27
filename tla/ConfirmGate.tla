---------------------------- MODULE ConfirmGate ----------------------------
(***************************************************************************)
(* security/confirm_gate.py: each proposal is one call of process(), made  *)
(* by the task of one of the agent's clients, with the two ways it has of  *)
(* asking: the UI server's socket (ui/ui_server.py) and, when there is no  *)
(* socket, a terminal prompt run by a thread of the loop's default         *)
(* executor.                                                               *)
(*                                                                         *)
(* A task runs without interruption from one await to the next; every such *)
(* stretch is one action.  The 60 s and 5 s timers may fire at any moment  *)
(* while they run.                                                         *)
(***************************************************************************)
EXTENDS Integers, Sequences, FiniteSets

CONSTANTS
  Proposals,
  Workers,      \* threads of the default executor
  StdinEnds,    \* standard input may be at its end, as /dev/null is
  NoOne

ASSUME GateAssumption ==
  /\ Workers \in Nat \ {0}
  /\ StdinEnds \in BOOLEAN
  /\ NoOne \notin Proposals

Levels == {"AUTO", "NOTIFY", "CONFIRM", "BLOCK"}
Stages == {"new", "telling", "window", "ui", "prompt", "run", "done", "raised"}
Executed == {"executed_auto", "executed_notify", "executed_confirmed"}
Refused == {"blocked", "rejected_by_user", "cancelled_notify"}

VARIABLES
  ui,         \* the UI server's socket file: none, served, or left by a dead server
  stage,      \* where the task of a proposal waits
  risk,       \* what classify_risk() said of it
  actionLog,  \* the statuses _action_log holds of it
  queue,      \* prompts no thread has taken
  busy,       \* prompts whose thread has not read its line yet
  reader,     \* the prompt whose thread holds standard input
  answer,     \* what the thread of a prompt read
  closing,    \* the event loop is being closed
  exited,     \* the process is gone
  asked,      \* history: the questions put before the user
  late,       \* history: the questions that timed out
  ran         \* history: the proposals given to on_execute

prompts == <<queue, busy, reader, answer>>
history == <<asked, late>>
vars == <<ui, stage, risk, actionLog, prompts, closing, exited, history, ran>>

-----------------------------------------------------------------------------

Init ==
  /\ ui \in {"absent", "serving"}
  /\ stage = [p \in Proposals |-> "new"]
  /\ risk = [p \in Proposals |-> "AUTO"]
  /\ actionLog = [p \in Proposals |-> << >>]
  /\ queue = << >>
  /\ busy = {}
  /\ reader = NoOne
  /\ answer = [p \in Proposals |-> "none"]
  /\ closing = FALSE
  /\ exited = FALSE
  /\ asked = {}
  /\ late = {}
  /\ ran = {}

(* The task of p goes on to its next await, having logged statuses.        *)
Reach(p, next, statuses) ==
  /\ stage' = [stage EXCEPT ![p] = next]
  /\ actionLog' = [actionLog EXCEPT ![p] = @ \o statuses]

(* The proposal is classified; the steps below take it from there.  The    *)
(* gate knows of no shutdown: a client whose cancellation was caught, here *)
(* or at another of its awaits, goes on to propose its next action.        *)
Classify(p, level) ==
  /\ stage[p] = "new"
  /\ ~exited
  /\ risk' = [risk EXCEPT ![p] = level]
  /\ UNCHANGED <<ui, closing, exited>>

(* Mutant: a hard-blocked action is executed after the notification.       *)
ProposeBlock_AsNotify(p) ==
  /\ Classify(p, "BLOCK")
  /\ Reach(p, "window", <<"proposed">>)
  /\ UNCHANGED <<prompts, history, ran>>

(* notify() waits only when there is a socket to write to.                 *)
ProposeBlock(p) ==
  /\ Classify(p, "BLOCK")
  /\ \/ ui # "absent" /\ Reach(p, "telling", <<"proposed">>)
     \/ ui = "absent" /\ Reach(p, "done", <<"proposed", "blocked">>)
  /\ UNCHANGED <<prompts, history, ran>>

ProposeNotify(p) ==
  /\ Classify(p, "NOTIFY")
  /\ \/ ui # "absent" /\ Reach(p, "telling", <<"proposed">>)
     \/ ui = "absent" /\ Reach(p, "window", <<"proposed">>)
  /\ UNCHANGED <<prompts, history, ran>>

ProposeAuto(p) ==
  /\ Classify(p, "AUTO")
  /\ Reach(p, "run", <<"proposed">>)
  /\ ran' = ran \cup {p}
  /\ UNCHANGED <<prompts, history>>

(* Mutant: the prompt is submitted once for the question and once for the  *)
(* timer.                                                                  *)
AskTerminal_Twice(p) ==
  /\ Classify(p, "CONFIRM")
  /\ ui = "absent"
  /\ Reach(p, "prompt", <<"proposed">>)
  /\ queue' = Append(Append(queue, p), p)
  /\ asked' = asked \cup {p}
  /\ UNCHANGED <<busy, reader, answer, late, ran>>

(* Mutant: the thread waits for its line on a lock of the module, which    *)
(* nobody who reads standard input releases.                               *)
AskTerminal_OnLock(p) ==
  /\ Classify(p, "CONFIRM")
  /\ ui = "absent"
  /\ Reach(p, "prompt", <<"proposed">>)
  /\ busy' = busy \cup {p}
  /\ asked' = asked \cup {p}
  /\ UNCHANGED <<queue, reader, answer, late, ran>>

(* ask() with no socket: the question is printed, and its input() waits    *)
(* for a thread.                                                           *)
AskTerminal(p) ==
  /\ Classify(p, "CONFIRM")
  /\ ui = "absent"
  /\ Reach(p, "prompt", <<"proposed">>)
  /\ queue' = Append(queue, p)
  /\ asked' = asked \cup {p}
  /\ UNCHANGED <<busy, reader, answer, late, ran>>

(* ask() with a socket: the request is written and a line awaited.         *)
AskUI(p) ==
  /\ Classify(p, "CONFIRM")
  /\ ui # "absent"
  /\ Reach(p, "ui", <<"proposed">>)
  /\ UNCHANGED <<prompts, history, ran>>

Propose(p) ==
  ProposeBlock(p) \/ ProposeNotify(p) \/ ProposeAuto(p) \/ AskTerminal(p) \/ AskUI(p)

-----------------------------------------------------------------------------

(* notify() is over, whether or not the socket took the message.           *)
Told(p) ==
  /\ stage[p] = "telling"
  /\ \/ risk[p] = "BLOCK" /\ Reach(p, "done", <<"blocked">>)
     \/ risk[p] = "NOTIFY" /\ Reach(p, "window", << >>)
  /\ UNCHANGED <<ui, risk, prompts, closing, exited, history, ran>>

(* The five seconds have passed.                                           *)
WindowPasses(p) ==
  /\ stage[p] = "window"
  /\ Reach(p, "run", << >>)
  /\ ran' = ran \cup {p}
  /\ UNCHANGED <<ui, risk, prompts, closing, exited, history>>

(* The gate reads no answer: a dead server refuses the connection, and the *)
(* handler of a live one closes it, because broadcast() raises             *)
(* UnboundLocalError before it has sent anything.  As after a timeout,     *)
(* ask() returns False.                                                    *)
UIRefuses(p) ==
  /\ stage[p] = "ui"
  /\ Reach(p, "done", <<"rejected_by_user">>)
  /\ UNCHANGED <<ui, risk, prompts, closing, exited, history, ran>>

(* Mutant: the timeout of the terminal prompt is reported, but the task    *)
(* keeps waiting for the line.                                             *)
AskTimesOut_StillWaiting(p) ==
  /\ stage[p] = "prompt"
  /\ p \notin late
  /\ Reach(p, "prompt", <<"rejected_by_user">>)
  /\ late' = late \cup {p}
  /\ UNCHANGED <<ui, risk, prompts, closing, exited, asked, ran>>

(* Mutant: the terminal prompt waits without a timeout.                    *)
AskTimesOut_Never(p) == FALSE /\ UNCHANGED vars

(* wait_for() gives up after 60 s, even when the line arrives in the same  *)
(* turn of the loop.  The thread of the prompt, if it has one, goes on     *)
(* reading.                                                                *)
AskTimesOut(p) ==
  /\ stage[p] = "prompt"
  /\ Reach(p, "done", <<"rejected_by_user">>)
  /\ late' = late \cup {p}
  /\ UNCHANGED <<ui, risk, prompts, closing, exited, asked, ran>>

(* Mutant: anything but "n" counts as approval.                            *)
PromptReturns_UnlessNo(p) ==
  /\ stage[p] = "prompt"
  /\ \/ /\ answer[p] = "no"
        /\ Reach(p, "done", <<"rejected_by_user">>)
        /\ UNCHANGED ran
     \/ /\ answer[p] # "no"
        /\ Reach(p, "run", << >>)
        /\ ran' = ran \cup {p}
  /\ UNCHANGED <<ui, risk, prompts, closing, exited, history>>

(* The thread's line reaches the task.  EOFError is caught nowhere between *)
(* input() and the caller of process().                                    *)
PromptReturns(p) ==
  /\ stage[p] = "prompt"
  /\ \/ /\ answer[p] = "yes"
        /\ Reach(p, "run", << >>)
        /\ ran' = ran \cup {p}
     \/ /\ answer[p] = "no"
        /\ Reach(p, "done", <<"rejected_by_user">>)
        /\ UNCHANGED ran
     \/ /\ answer[p] = "eof"
        /\ Reach(p, "raised", << >>)
        /\ UNCHANGED ran
  /\ UNCHANGED <<ui, risk, prompts, closing, exited, history>>

(* on_execute returned a result, good or bad.                              *)
Finish(p) ==
  /\ stage[p] = "run"
  /\ Reach(p, "done", << CASE risk[p] = "AUTO" -> "executed_auto"
                           [] risk[p] = "NOTIFY" -> "executed_notify"
                           [] OTHER -> "executed_confirmed" >>)
  /\ UNCHANGED <<ui, risk, prompts, closing, exited, history, ran>>

-----------------------------------------------------------------------------

(* A free thread takes the first prompt, and drops it if its task no       *)
(* longer waits.  Standard input is read by one thread at a time.          *)
StartWorker ==
  /\ queue # << >>
  /\ Cardinality(busy) < Workers
  /\ queue' = Tail(queue)
  /\ \/ /\ stage[Head(queue)] = "prompt"
        /\ busy' = busy \cup {Head(queue)}
        /\ reader' = IF reader = NoOne THEN Head(queue) ELSE reader
     \/ /\ stage[Head(queue)] # "prompt"
        /\ UNCHANGED <<busy, reader>>
  /\ UNCHANGED <<ui, stage, risk, actionLog, answer, closing, exited, history, ran>>

(* The reading thread is done; another waiting one, if any, reads next.    *)
Read(line) ==
  /\ reader # NoOne
  /\ answer' = [answer EXCEPT ![reader] = line]
  /\ busy' = busy \ {reader}
  /\ IF busy' = {} THEN reader' = NoOne ELSE reader' \in busy'
  /\ UNCHANGED <<ui, stage, risk, actionLog, queue, closing, exited, history, ran>>

(* The user types a line.  Nothing ties it to the question it answers.     *)
TypeLine == \E line \in {"yes", "no"} : Read(line)

(* input() raises EOFError.                                                *)
InputEnds == StdinEnds /\ Read("eof")

UIStarts ==
  /\ ui # "serving"
  /\ ui' = "serving"
  /\ UNCHANGED <<stage, risk, actionLog, prompts, closing, exited, history, ran>>

(* The UI server ends; asyncio removes the socket file only when the       *)
(* server is closed in order, and only from Python 3.13 on.                *)
UIStops ==
  /\ ui = "serving"
  /\ ui' \in {"stale", "absent"}
  /\ UNCHANGED <<stage, risk, actionLog, prompts, closing, exited, history, ran>>

Over(p) == stage[p] \in {"new", "done", "raised"}

(* What catches a cancellation: on Python 3.11 and older wait_for(), if    *)
(* what it waits for is done already - the gate's two, and those that an   *)
(* action has of its own.                                                  *)
MayGoOn(p) ==
  \/ stage[p] \in {"ui", "run"}
  \/ stage[p] = "prompt" /\ answer[p] # "none"

(* asyncio.run() cancels, once, the tasks that the server did not wait for *)
(* when it was closed.  The sleep of a notification catches it too.        *)
Shutdown ==
  /\ ~closing
  /\ closing' = TRUE
  /\ \E on \in SUBSET {p \in Proposals : MayGoOn(p)} :
       stage' = [p \in Proposals |->
                   IF Over(p) \/ p \in on THEN stage[p]
                   ELSE IF stage[p] = "window" THEN "done" ELSE "raised"]
  /\ actionLog' = [p \in Proposals |->
                     IF stage[p] = "window" THEN Append(actionLog[p], "cancelled_notify")
                     ELSE actionLog[p]]
  /\ UNCHANGED <<ui, risk, prompts, exited, history, ran>>

(* The tasks are awaited, and the executor's threads joined.               *)
Exit ==
  /\ closing
  /\ ~exited
  /\ \A p \in Proposals : Over(p)
  /\ queue = << >> /\ busy = {}
  /\ exited' = TRUE
  /\ UNCHANGED <<ui, stage, risk, actionLog, prompts, closing, history, ran>>

Decide(p) == Told(p) \/ WindowPasses(p) \/ UIRefuses(p) \/ AskTimesOut(p) \/ PromptReturns(p)

Next ==
  \/ \E p \in Proposals : Propose(p) \/ Decide(p) \/ Finish(p)
  \/ StartWorker \/ TypeLine \/ InputEnds
  \/ UIStarts \/ UIStops
  \/ Shutdown \/ Exit

Spec == Init /\ [][Next]_vars

(* The loop runs its ready callbacks and expired timers.  Nothing is       *)
(* assumed of the user, and nothing of how long an action takes.           *)
FairSpec ==
  /\ Spec
  /\ \A p \in Proposals : WF_vars(Decide(p))
  /\ WF_vars(StartWorker)
  /\ WF_vars(Exit)

-----------------------------------------------------------------------------

(* The fields of the gate and of the terminal's threads have their types.  *)
TypeOK ==
  /\ ui \in {"absent", "serving", "stale"}
  /\ stage \in [Proposals -> Stages]
  /\ risk \in [Proposals -> Levels]
  /\ actionLog \in [Proposals -> Seq({"proposed"} \cup Executed \cup Refused)]
  /\ queue \in Seq(Proposals)
  /\ busy \subseteq Proposals
  /\ reader \in Proposals \cup {NoOne}
  /\ answer \in [Proposals -> {"none", "yes", "no", "eof"}]
  /\ closing \in BOOLEAN /\ exited \in BOOLEAN
  /\ asked \subseteq Proposals
  /\ late \subseteq Proposals
  /\ ran \subseteq Proposals

(* An action that needs a confirmation is executed only if the thread of   *)
(* its own prompt read a yes and its timeout had not fired; one that is    *)
(* blocked is never executed.  Late lines, abandoned threads and the race  *)
(* of the timer with the line make no exception.                           *)
RunsOnlyIfApproved ==
  \A p \in ran :
    /\ risk[p] # "BLOCK"
    /\ risk[p] = "CONFIRM" => answer[p] = "yes" /\ p \notin late

(* The action log has the outcome of the right class: a proposal that came *)
(* back has exactly one after its "proposed", an executed one exactly if   *)
(* on_execute was called for it, and none is logged before the task is     *)
(* over.  Which refusal it was may be wrong: see RejectedWasAsked.         *)
LogTruthful ==
  \A p \in Proposals :
    /\ stage[p] = "new" => actionLog[p] = << >>
    /\ stage[p] = "done" =>
         \E outcome \in IF p \in ran THEN Executed ELSE Refused :
           actionLog[p] = <<"proposed", outcome>>
    /\ stage[p] \notin {"new", "done"} => actionLog[p] = <<"proposed">>

(* Standard input is never left without a reader while a prompt's thread   *)
(* waits for it, and each question has one thread or one place in the      *)
(* queue: whatever the user types is read by one prompt that was asked and *)
(* had no line before.                                                     *)
TerminalServed ==
  /\ (reader = NoOne) <=> (busy = {})
  /\ reader # NoOne => reader \in busy
  /\ \A p \in busy : p \in asked /\ answer[p] = "none"
  /\ \A n \in 1..Len(queue) :
       /\ queue[n] \in asked /\ queue[n] \notin busy /\ answer[queue[n]] = "none"
       /\ \A m \in 1..Len(queue) : queue[m] = queue[n] => m = n

(* Why the three hold: what the stage of a task says of the rest.          *)
StageTells ==
  \A p \in Proposals :
    /\ stage[p] = "new" => p \notin asked /\ p \notin ran /\ p \notin late /\ answer[p] = "none"
    /\ stage[p] = "telling" => risk[p] \in {"BLOCK", "NOTIFY"}
    /\ stage[p] = "window" => risk[p] = "NOTIFY"
    /\ stage[p] \in {"ui", "prompt"} => risk[p] = "CONFIRM"
    /\ stage[p] = "run" => p \in ran
    /\ p \in ran => stage[p] \in {"run", "done", "raised"}
    /\ p \in late => stage[p] = "done" /\ p \notin ran

(* What the contract calls the state of a proposal's task.                 *)
FateOfTask(p) ==
  CASE stage[p] = "new" -> "unseen"
    [] stage[p] \in {"telling", "window", "ui", "prompt"} -> "open"
    [] stage[p] = "run" -> "granted"
    [] stage[p] = "done" -> IF p \in ran THEN "executed" ELSE "refused"
    [] OTHER -> "dropped"

Fate == [p \in Proposals |-> FateOfTask(p)]

Contract == INSTANCE GateContract WITH
  Proposals <- Proposals, fate <- Fate, level <- risk, yes <- {p \in Proposals : answer[p] = "yes"}

(* The gate keeps its contract: one decision for each proposal and one     *)
(* execution at most, after the consent that its level asks for, with all  *)
(* the threads that are left behind and the lines that come too late.      *)
ImplementsContract == Contract!Spec

(* Every proposal is decided, executed or refused, although the user may   *)
(* never answer and every thread may be stuck in an abandoned prompt.      *)
EveryProposalDecided ==
  \A p \in Proposals :
    stage[p] \in {"telling", "window", "ui", "prompt"} ~> stage[p] \in {"run", "done", "raised"}

(* Once the loop is being closed the process ends, unless it waits for ever*)
(* for a line, in a thread to whose question nobody may listen any more, or*)
(* for an action, which may wait for the input broker without a limit.     *)
(* Prompts, notifications, proposals that come after the cancellation and  *)
(* stuck threads do not hold it up in any other way.                       *)
OnlyInputOrActionHoldsUp ==
  \/ closing ~> exited
  \/ <>[](reader # NoOne \/ \E p \in Proposals : stage[p] = "run")

(* Of the documentation: a proposal refused as the user's rejection was    *)
(* put before the user.                                                    *)
RejectedWasAsked ==
  \A p \in Proposals :
    actionLog[p] = <<"proposed", "rejected_by_user">> => p \in asked
=============================================================================
