---------------------------- MODULE ActionBudget ----------------------------
(***************************************************************************)
(* What security/supervisor.py promises: a policy over the whole history   *)
(* of granted calls, with no deque, no pruning and no counter.             *)
(*                                                                         *)
(* A call is granted when the calls granted since the last resume leave    *)
(* room for it in the session budget, in the minute window and in the      *)
(* loop window of its own tool.  The first call that does not fit halts    *)
(* the agent until the operator resumes it.                                *)
(***************************************************************************)
EXTENDS Integers, Sequences, FiniteSets

CONSTANTS
  Tools,          \* the values of action["tool"]
  MaxPerMinute,   \* MAX_PER_MINUTE
  MaxPerSession,  \* MAX_PER_SESSION
  MinuteWindow,   \* the 60.0 of the rate limit
  LoopWindow,     \* LOOP_WINDOW_SEC
  LoopThreshold,  \* LOOP_THRESHOLD
  MaxTime         \* bound: the clock stops here

VARIABLES
  now,      \* time.monotonic()
  granted,  \* the calls granted since the last resume, oldest first
  halted

vars == <<now, granted, halted>>

Call == [at : 0..MaxTime, tool : Tools]

-----------------------------------------------------------------------------

(* The granted calls not yet older than a window; a call exactly as old as *)
(* the window still counts.                                                *)
RecentCalls(window) ==
  {i \in DOMAIN granted : granted[i].at >= now - window}

RecentCallsOf(tool, window) ==
  {i \in RecentCalls(window) : granted[i].tool = tool}

FitsBudget(tool) ==
  /\ Len(granted) < MaxPerSession
  /\ Cardinality(RecentCalls(MinuteWindow)) < MaxPerMinute
  /\ Cardinality(RecentCallsOf(tool, LoopWindow)) < LoopThreshold

-----------------------------------------------------------------------------

Init ==
  /\ now = 0
  /\ granted = << >>
  /\ halted = FALSE

Grant(tool) ==
  /\ ~halted
  /\ FitsBudget(tool)
  /\ granted' = Append(granted, [at |-> now, tool |-> tool])
  /\ UNCHANGED <<now, halted>>

Trip(tool) ==
  /\ ~halted
  /\ ~FitsBudget(tool)
  /\ halted' = TRUE
  /\ UNCHANGED <<now, granted>>

Resume ==
  /\ halted' = FALSE
  /\ granted' = << >>
  /\ UNCHANGED now

Tick ==
  /\ now < MaxTime
  /\ now' = now + 1
  /\ UNCHANGED <<granted, halted>>

Next ==
  \/ \E tool \in Tools : Grant(tool) \/ Trip(tool)
  \/ Resume
  \/ Tick

Spec == Init /\ [][Next]_vars
=============================================================================
