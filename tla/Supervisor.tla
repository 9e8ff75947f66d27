----------------------------- MODULE Supervisor -----------------------------
(***************************************************************************)
(* security/supervisor.py: rate limiter, loop detector and session budget. *)
(*                                                                         *)
(* allow() runs from its first to its last line under self._lock, and so   *)
(* do resume() and stats: each call is one step, whatever the threads.     *)
(* time.monotonic() is read inside the lock, so the deques are filled in   *)
(* the order of the clock, in whole ticks here.                            *)
(*                                                                         *)
(* The deque is a sequence.  The popleft loop is FrontExpired: the number  *)
(* of leading entries older than the cutoff, which leaves an entry exactly *)
(* as old as the window in place.                                          *)
(***************************************************************************)
EXTENDS Integers, Sequences, FiniteSets

CONSTANTS
  Tools, MaxPerMinute, MaxPerSession, MinuteWindow, LoopWindow, LoopThreshold,
  MaxTime

ASSUME SupervisorAssumption ==
  /\ MaxPerMinute \in Nat \ {0}
  /\ MaxPerSession \in Nat \ {0}
  /\ LoopThreshold \in Nat \ {0}
  /\ MinuteWindow \in Nat
  /\ LoopWindow \in Nat
  /\ MaxTime \in Nat

VARIABLES
  sessionCount,  \* _session_count
  minuteTimes,   \* _minute_times
  recentTools,   \* _recent_tools
  halted,        \* _halted
  haltReason,    \* _halt_reason
  verdict,       \* what the last allow() returned: "ok", or why it refused
  now,           \* time.monotonic()
  granted        \* history: the calls granted since the last resume()

deques == <<minuteTimes, recentTools>>
vars == <<sessionCount, deques, halted, haltReason, verdict, now, granted>>

Reasons == {"session", "rate", "loop"}
Call == [at : 0..MaxTime, tool : Tools]

-----------------------------------------------------------------------------

(* Mutant: the loop also drops an entry exactly as old as the window.      *)
FrontExpired_Inclusive(n, times, cutoff) ==
  /\ n \in 0..Len(times)
  /\ \A i \in 1..n : times[i] <= cutoff
  /\ n < Len(times) => times[n + 1] > cutoff

(* The while loop of popleft() over a deque whose entries were made at     *)
(* times[1], times[2], ...: it removes the first n entries.                *)
FrontExpired(n, times, cutoff) ==
  /\ n \in 0..Len(times)
  /\ \A i \in 1..n : times[i] < cutoff
  /\ n < Len(times) => times[n + 1] >= cutoff

TimesOf(calls) == [i \in 1..Len(calls) |-> calls[i].at]

(* The deque after the loop and the append that follows it.                *)
Slid(q, n, entry) == Append(SubSeq(q, n + 1, Len(q)), entry)

(* Mutant: the repetitions are counted before the new call is appended.    *)
SameTool_BeforeAppend(calls, tool) ==
  {i \in 1..(Len(calls) - 1) : calls[i].tool = tool}

(* recent_same counts over this set.                                       *)
SameTool(calls, tool) == {i \in 1..Len(calls) : calls[i].tool = tool}

-----------------------------------------------------------------------------

Init ==
  /\ sessionCount = 0
  /\ minuteTimes = << >>
  /\ recentTools = << >>
  /\ halted = FALSE
  /\ haltReason = ""
  /\ verdict = "none"
  /\ now = 0
  /\ granted = << >>

Halt(reason) ==
  /\ halted' = TRUE
  /\ haltReason' = reason
  /\ verdict' = reason

(* allow(), once halted: nothing is counted.                               *)
RefuseHalted ==
  /\ halted
  /\ verdict' = haltReason
  /\ UNCHANGED <<sessionCount, deques, halted, haltReason, now, granted>>

(* allow(), the session budget is spent: neither deque is touched.         *)
ExceedSession ==
  /\ ~halted
  /\ sessionCount' = sessionCount + 1
  /\ sessionCount' > MaxPerSession
  /\ Halt("session")
  /\ UNCHANGED <<deques, now, granted>>

SlideMinute ==
  \E n \in 0..Len(minuteTimes) :
    /\ FrontExpired(n, minuteTimes, now - MinuteWindow)
    /\ minuteTimes' = Slid(minuteTimes, n, now)

SlideTools(tool) ==
  \E n \in 0..Len(recentTools) :
    /\ FrontExpired(n, TimesOf(recentTools), now - LoopWindow)
    /\ recentTools' = Slid(recentTools, n, [at |-> now, tool |-> tool])

(* Mutant: the budget is compared before the call is counted.              *)
WithinSession_TestFirst ==
  /\ ~halted
  /\ sessionCount <= MaxPerSession
  /\ sessionCount' = sessionCount + 1

WithinSession ==
  /\ ~halted
  /\ sessionCount' = sessionCount + 1
  /\ sessionCount' <= MaxPerSession

(* allow(), too many calls in the minute: returns before _recent_tools is  *)
(* touched.                                                                *)
ExceedRate ==
  /\ WithinSession
  /\ SlideMinute
  /\ Len(minuteTimes') > MaxPerMinute
  /\ Halt("rate")
  /\ UNCHANGED <<recentTools, now, granted>>

(* allow(), the same tool once too often in the loop window.               *)
ExceedLoop(tool) ==
  /\ WithinSession
  /\ SlideMinute
  /\ Len(minuteTimes') <= MaxPerMinute
  /\ SlideTools(tool)
  /\ Cardinality(SameTool(recentTools', tool)) > LoopThreshold
  /\ Halt("loop")
  /\ UNCHANGED <<now, granted>>

Grant(tool) ==
  /\ WithinSession
  /\ SlideMinute
  /\ Len(minuteTimes') <= MaxPerMinute
  /\ SlideTools(tool)
  /\ Cardinality(SameTool(recentTools', tool)) <= LoopThreshold
  /\ verdict' = "ok"
  /\ granted' = Append(granted, [at |-> now, tool |-> tool])
  /\ UNCHANGED <<halted, haltReason, now>>

Allow(tool) ==
  \/ RefuseHalted
  \/ ExceedSession
  \/ ExceedRate
  \/ ExceedLoop(tool)
  \/ Grant(tool)

(* Mutant: the session budget survives a resume.                           *)
Resume_KeepsCount ==
  /\ halted' = FALSE
  /\ haltReason' = ""
  /\ minuteTimes' = << >>
  /\ recentTools' = << >>
  /\ granted' = << >>
  /\ UNCHANGED <<sessionCount, verdict, now>>

Resume ==
  /\ halted' = FALSE
  /\ haltReason' = ""
  /\ sessionCount' = 0
  /\ minuteTimes' = << >>
  /\ recentTools' = << >>
  /\ granted' = << >>
  /\ UNCHANGED <<verdict, now>>

Tick ==
  /\ now < MaxTime
  /\ now' = now + 1
  /\ UNCHANGED <<sessionCount, deques, halted, haltReason, verdict, granted>>

Next ==
  \/ \E tool \in Tools : Allow(tool)
  \/ Resume
  \/ Tick

Spec == Init /\ [][Next]_vars

-----------------------------------------------------------------------------

(* The supervisor's fields have the types its constructor gives them, and  *)
(* a halted supervisor knows why.                                          *)
TypeOK ==
  /\ sessionCount \in Nat
  /\ minuteTimes \in Seq(0..MaxTime)
  /\ recentTools \in Seq(Call)
  /\ halted \in BOOLEAN
  /\ haltReason \in Reasons \cup {""}
  /\ halted => haltReason \in Reasons
  /\ verdict \in Reasons \cup {"none", "ok"}
  /\ now \in 0..MaxTime
  /\ granted \in Seq(Call)

(* Line 6, "Max 30 actions/minute": of the calls allow() grants, the one   *)
(* MaxPerMinute places later comes more than a minute later, although the  *)
(* supervisor forgets a call as soon as it leaves the window.              *)
RateBound ==
  \A i, j \in 1..Len(granted) :
    j - i >= MaxPerMinute => granted[j].at - granted[i].at > MinuteWindow

(* Line 7, "Max 200 actions/session": between two resumes no more calls    *)
(* are granted than the session budget.                                    *)
SessionBound == Len(granted) <= MaxPerSession

(* Lines 66-75: looking back from any granted call, its tool was granted   *)
(* at most LoopThreshold times in the loop window, itself included.        *)
LoopBound ==
  \A i \in 1..Len(granted) :
    Cardinality({j \in 1..i : /\ granted[j].tool = granted[i].tool
                              /\ granted[j].at >= granted[i].at - LoopWindow})
      <= LoopThreshold

-----------------------------------------------------------------------------

(* The inductive invariant.  The history is in clock order and ends now;   *)
(* while the supervisor runs, the counter counts the history and each      *)
(* deque is the history without a prefix that has left its window.         *)
HistoryInOrder ==
  /\ \A i \in 1..Len(granted) : granted[i].at <= now
  /\ \A i, j \in 1..Len(granted) : i <= j => granted[i].at <= granted[j].at

MinuteIsSuffix ==
  \E k \in 0..Len(granted) :
    /\ Len(minuteTimes) = Len(granted) - k
    /\ \A i \in 1..Len(minuteTimes) : minuteTimes[i] = granted[k + i].at
    /\ \A i \in 1..k : granted[i].at < now - MinuteWindow

ToolsAreSuffix ==
  \E k \in 0..Len(granted) :
    /\ Len(recentTools) = Len(granted) - k
    /\ \A i \in 1..Len(recentTools) : recentTools[i] = granted[k + i]
    /\ \A i \in 1..k : granted[i].at < now - LoopWindow

(* What allow() keeps is enough to decide: _session_count is the number of *)
(* calls granted, and the deques hold every granted call still in their    *)
(* window, each once and in order.                                         *)
DequesComplete ==
  ~halted => /\ sessionCount = Len(granted)
             /\ MinuteIsSuffix
             /\ ToolsAreSuffix

IInv ==
  /\ TypeOK
  /\ HistoryInOrder
  /\ DequesComplete
  /\ RateBound
  /\ SessionBound
  /\ LoopBound

-----------------------------------------------------------------------------

Budget == INSTANCE ActionBudget
            WITH now <- now, granted <- granted, halted <- halted

(* allow(), with its counter and its two pruned deques, grants and refuses *)
(* exactly as the policy over the whole history does.                      *)
ImplementsBudget == Budget!Spec
=============================================================================
