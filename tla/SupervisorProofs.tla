-------------------------- MODULE SupervisorProofs --------------------------
(***************************************************************************)
(* The supervisor grants no more than its limits and decides exactly as    *)
(* the policy of ActionBudget does, for every tool set, limit and window.  *)
(***************************************************************************)
EXTENDS Supervisor, SequenceTheorems, FiniteSetTheorems, TLAPS

USE SupervisorAssumption

-----------------------------------------------------------------------------

(* A deque slid by n keeps its entries after the n-th, in order, and ends  *)
(* with the new one.                                                       *)
LEMMA SlidProperties ==
  ASSUME NEW S, NEW q \in Seq(S), NEW n \in 0..Len(q), NEW e \in S
  PROVE  /\ Slid(q, n, e) \in Seq(S)
         /\ Len(Slid(q, n, e)) = Len(q) - n + 1
         /\ \A i \in 1..(Len(q) - n) : Slid(q, n, e)[i] = q[n + i]
         /\ Slid(q, n, e)[Len(q) - n + 1] = e
<1> DEFINE s == SubSeq(q, n + 1, Len(q))
<1>1. Len(q) \in Nat /\ \A i \in 1..Len(q) : q[i] \in S
  BY LenProperties, ElementOfSeq
<1>2. \A i \in (n + 1)..Len(q) : q[i] \in S
  BY <1>1
<1>3. /\ s \in Seq(S)
      /\ Len(s) = IF n + 1 <= Len(q) THEN Len(q) - (n + 1) + 1 ELSE 0
      /\ \A i \in 1..(Len(q) - (n + 1) + 1) : s[i] = q[n + 1 + i - 1]
  BY <1>1, <1>2, SubSeqProperties
<1>4. Len(s) = Len(q) - n
  BY <1>1, <1>3
<1>5. \A i \in 1..(Len(q) - n) : s[i] = q[n + i]
  BY <1>1, <1>3
<1> HIDE DEF s
<1>6. /\ Append(s, e) \in Seq(S)
      /\ Len(Append(s, e)) = Len(s) + 1
      /\ \A i \in 1..Len(s) : Append(s, e)[i] = s[i]
      /\ Append(s, e)[Len(s) + 1] = e
  BY <1>3, AppendProperties
<1>7. Slid(q, n, e) = Append(s, e)
  BY DEF Slid, s
<1> QED
  BY <1>1, <1>4, <1>5, <1>6, <1>7

(* The same as one predicate, which the provers can carry unopened.        *)
SlidFrom(s, q, n, e) ==
  /\ Len(s) = Len(q) - n + 1
  /\ \A i \in 1..(Len(q) - n) : s[i] = q[n + i]
  /\ s[Len(q) - n + 1] = e

LEMMA SlidIsSlidFrom ==
  ASSUME NEW S, NEW q \in Seq(S), NEW n \in 0..Len(q), NEW e \in S
  PROVE  SlidFrom(Slid(q, n, e), q, n, e)
  BY SlidProperties DEF SlidFrom

(* The slides of allow() keep the deques typed.                            *)
LEMMA MinuteTyped ==
  ASSUME TypeOK, SlideMinute
  PROVE  minuteTimes' \in Seq(0..MaxTime)
<1>1. minuteTimes \in Seq(0..MaxTime) /\ now \in 0..MaxTime
  BY DEF TypeOK
<1>2. PICK n \in 0..Len(minuteTimes) : minuteTimes' = Slid(minuteTimes, n, now)
  BY DEF SlideMinute
<1> QED
  BY <1>1, <1>2, SlidProperties

LEMMA ToolsTyped ==
  ASSUME TypeOK, NEW tool \in Tools, SlideTools(tool)
  PROVE  recentTools' \in Seq(Call)
<1>1. recentTools \in Seq(Call) /\ [at |-> now, tool |-> tool] \in Call
  BY DEF TypeOK, Call
<1>2. PICK n \in 0..Len(recentTools) :
        recentTools' = Slid(recentTools, n, [at |-> now, tool |-> tool])
  BY DEF SlideTools
<1> QED
  BY <1>1, <1>2, SlidProperties

LEMMA TypeInductive ==
  ASSUME TypeOK, [Next]_vars
  PROVE  TypeOK'
<1>1. CASE RefuseHalted
  BY <1>1 DEF RefuseHalted, TypeOK, deques
<1>2. CASE ExceedSession
  <2>0. sessionCount \in Nat /\ sessionCount' = sessionCount + 1
    BY <1>2, Zenon DEF ExceedSession, TypeOK
  <2>1. sessionCount' \in Nat
    BY <2>0
  <2> QED
    BY <1>2, <2>1, Zenon DEF ExceedSession, Halt, TypeOK, deques, Reasons
<1>3. CASE ExceedRate
  <2>0. sessionCount \in Nat /\ sessionCount' = sessionCount + 1
    BY <1>3, Zenon DEF ExceedRate, WithinSession, TypeOK
  <2>1. sessionCount' \in Nat
    BY <2>0
  <2>2. minuteTimes' \in Seq(0..MaxTime)
    BY <1>3, MinuteTyped DEF ExceedRate
  <2> QED
    BY <1>3, <2>1, <2>2, Zenon DEF ExceedRate, Halt, TypeOK, Reasons
<1>4. ASSUME NEW tool \in Tools, ExceedLoop(tool)
      PROVE  TypeOK'
  <2>0. sessionCount \in Nat /\ sessionCount' = sessionCount + 1
    BY <1>4, Zenon DEF ExceedLoop, WithinSession, TypeOK
  <2>1. sessionCount' \in Nat
    BY <2>0
  <2>2. minuteTimes' \in Seq(0..MaxTime) /\ recentTools' \in Seq(Call)
    BY <1>4, MinuteTyped, ToolsTyped DEF ExceedLoop
  <2> QED
    BY <1>4, <2>1, <2>2, Zenon DEF ExceedLoop, Halt, TypeOK, Reasons
<1>5. ASSUME NEW tool \in Tools, Grant(tool)
      PROVE  TypeOK'
  <2>0. sessionCount \in Nat /\ sessionCount' = sessionCount + 1
    BY <1>5, Zenon DEF Grant, WithinSession, TypeOK
  <2>1. sessionCount' \in Nat
    BY <2>0
  <2>2. minuteTimes' \in Seq(0..MaxTime) /\ recentTools' \in Seq(Call)
    BY <1>5, MinuteTyped, ToolsTyped DEF Grant
  <2>3. [at |-> now, tool |-> tool] \in Call
    BY DEF TypeOK, Call
  <2>4. granted' \in Seq(Call)
    BY <1>5, <2>3, AppendProperties DEF Grant, TypeOK
  <2> QED
    BY <1>5, <2>1, <2>2, <2>4, Zenon DEF Grant, TypeOK
<1>6. CASE Resume
  <2>1. 0 \in Nat /\ << >> \in Seq(0..MaxTime) /\ << >> \in Seq(Call)
    BY EmptySeq
  <2> QED
    BY <1>6, <2>1, Zenon DEF Resume, TypeOK
<1>7. CASE Tick
  <2>0. now \in 0..MaxTime /\ now < MaxTime /\ now' = now + 1
    BY <1>7, Zenon DEF Tick, TypeOK
  <2>1. now' \in 0..MaxTime
    BY <2>0
  <2> QED
    BY <1>7, <2>1, Zenon DEF Tick, TypeOK, deques
<1>8. CASE UNCHANGED vars
  BY <1>8 DEF vars, deques, TypeOK
<1> QED
  BY <1>1, <1>2, <1>3, <1>4, <1>5, <1>6, <1>7, <1>8 DEF Next, Allow

(* The supervisor's fields keep their types whatever calls arrive.         *)
THEOREM TypeCorrect == Spec => []TypeOK
<1>1. Init => TypeOK
  <2>1. /\ 0 \in Nat /\ 0 \in 0..MaxTime
        /\ << >> \in Seq(0..MaxTime) /\ << >> \in Seq(Call)
    BY EmptySeq
  <2> QED
    BY <2>1, Zenon DEF Init, TypeOK
<1>2. TypeOK /\ [Next]_vars => TypeOK'
  BY TypeInductive
<1> QED
  BY <1>1, <1>2, PTL DEF Spec

-----------------------------------------------------------------------------

(* Every entry of a sequence of calls is a call, made at some tick.        *)
LEMMA CallsTyped ==
  ASSUME NEW h \in Seq(Call)
  PROVE  /\ Len(h) \in Nat
         /\ \A i \in 1..Len(h) : h[i] \in Call /\ h[i].at \in Int
<1>1. Len(h) \in Nat
  BY LenProperties
<1>2. ASSUME NEW i \in 1..Len(h)
      PROVE  h[i] \in Call /\ h[i].at \in Int
  <2>1. h[i] \in Call
    BY ElementOfSeq
  <2>2. h[i].at \in 0..MaxTime
    BY <2>1 DEF Call
  <2> QED
    BY <2>1, <2>2
<1> QED
  BY <1>1, <1>2

(* The times of a deque of calls, as FrontExpired reads them.              *)
LEMMA TimesOfProperties ==
  ASSUME NEW q \in Seq(Call)
  PROVE  /\ Len(TimesOf(q)) = Len(q)
         /\ \A i \in 1..Len(q) : TimesOf(q)[i] = q[i].at
<1>1. Len(q) \in Nat
  BY LenProperties
<1> QED
  BY <1>1 DEF TimesOf

(* Popping the front of a deque that is a suffix of an ordered history     *)
(* leaves exactly the calls that are not older than the cutoff.            *)
LEMMA PopCutsHistory ==
  ASSUME NEW h \in Seq(Call), NEW c \in Int,
         \A i, j \in 1..Len(h) : i <= j => h[i].at <= h[j].at,
         NEW k \in 0..Len(h), NEW times,
         Len(times) = Len(h) - k,
         \A i \in 1..Len(times) : times[i] = h[k + i].at,
         \A i \in 1..k : h[i].at < c,
         NEW n \in 0..Len(times), FrontExpired(n, times, c)
  PROVE  /\ k + n \in 0..Len(h)
         /\ \A i \in 1..(k + n) : h[i].at < c
         /\ \A i \in (k + n + 1)..Len(h) : h[i].at >= c
<1>1. Len(h) \in Nat /\ \A i \in 1..Len(h) : h[i].at \in Int
  BY CallsTyped
<1>2. k + n \in 0..Len(h)
  BY <1>1
<1>3. ASSUME NEW i \in 1..(k + n)
      PROVE  h[i].at < c
  <2>1. CASE i <= k
    BY <2>1
  <2>2. CASE i > k
    <3>1. i - k \in 1..n /\ times[i - k] = h[k + (i - k)].at
      BY <1>1, <2>2
    <3> QED
      BY <1>1, <3>1 DEF FrontExpired
  <2> QED
    BY <2>1, <2>2
<1>4. ASSUME NEW i \in (k + n + 1)..Len(h)
      PROVE  h[i].at >= c
  <2>1. n < Len(times) /\ n + 1 \in 1..Len(times)
    BY <1>1
  <2>2. times[n + 1] >= c /\ times[n + 1] = h[k + (n + 1)].at
    BY <2>1 DEF FrontExpired
  <2>3. k + (n + 1) \in 1..Len(h) /\ i \in 1..Len(h) /\ k + (n + 1) <= i
    BY <1>1
  <2>4. h[k + (n + 1)].at <= h[i].at
    BY <2>3
  <2> QED
    BY <1>1, <2>2, <2>3, <2>4
<1> QED
  BY <1>2, <1>3, <1>4

(* The calls of a history that a window reaching back to c holds of a tool. *)
InWindow(h, c, tool) == {i \in 1..Len(h) : h[i].at >= c /\ h[i].tool = tool}

(* The calls of one tool in the slid deque are the calls of that tool      *)
(* still in the window, and the new one.                                   *)
LEMMA LoopCount ==
  ASSUME NEW h \in Seq(Call), NEW q \in Seq(Call), NEW e \in Call, NEW c \in Int,
         NEW k \in 0..Len(h),
         Len(q) = Len(h) - k + 1,
         \A i \in 1..(Len(h) - k) : q[i] = h[k + i],
         q[Len(h) - k + 1] = e,
         \A i \in 1..k : h[i].at < c,
         \A i \in (k + 1)..Len(h) : h[i].at >= c
  PROVE  /\ IsFiniteSet(InWindow(h, c, e.tool))
         /\ Cardinality(InWindow(h, c, e.tool)) \in Nat
         /\ Cardinality(SameTool(q, e.tool)) = Cardinality(InWindow(h, c, e.tool)) + 1
<1> DEFINE R == InWindow(h, c, e.tool)
           B == SameTool(q, e.tool)
           A == R \cup {Len(h) + 1}
           f == [i \in B |-> k + i]
<1>1. Len(h) \in Nat /\ \A i \in 1..Len(h) : h[i].at \in Int
  BY CallsTyped
<1>2. IsFiniteSet(R) /\ Cardinality(R) \in Nat
  <2>1. IsFiniteSet(1..Len(h))
    BY <1>1, FS_Interval, 1 \in Int, Len(h) \in Int
  <2>2. R \in SUBSET (1..Len(h))
    BY DEF InWindow
  <2> QED
    BY <2>1, <2>2, FS_Subset, FS_CardinalityType
<1>3. IsFiniteSet(A) /\ Cardinality(A) = Cardinality(R) + 1
  <2>1. Len(h) + 1 \notin R
    BY <1>1 DEF InWindow
  <2> QED
    BY <1>2, <2>1, FS_AddElement
<1>4. IsFiniteSet(B)
  <2>1. IsFiniteSet(1..Len(q))
    BY <1>1, FS_Interval
  <2>2. B \in SUBSET (1..Len(q))
    BY DEF SameTool
  <2> QED
    BY <2>1, <2>2, FS_Subset
<1>5. ASSUME NEW i \in B
      PROVE  k + i \in A
  <2>1. i \in 1..Len(q) /\ q[i].tool = e.tool
    BY DEF SameTool
  <2>2. CASE i = Len(h) - k + 1
    BY <1>1, <2>2
  <2>3. CASE i \in 1..(Len(h) - k)
    <3>1. k + i \in (k + 1)..Len(h) /\ k + i \in 1..Len(h) /\ q[i] = h[k + i]
      BY <1>1, <2>3
    <3> QED
      BY <2>1, <3>1 DEF InWindow
  <2> QED
    BY <1>1, <2>1, <2>2, <2>3
<1>6. ASSUME NEW j \in A
      PROVE  j - k \in B
  <2>1. CASE j = Len(h) + 1
    BY <1>1, <2>1 DEF SameTool
  <2>2. CASE j \in R
    <3>1. j \in 1..Len(h) /\ h[j].at >= c /\ h[j].tool = e.tool
      BY <2>2 DEF InWindow
    <3>2. ~(j <= k)
      BY <1>1, <3>1
    <3>3. j - k \in 1..(Len(h) - k)
      BY <1>1, <3>1, <3>2
    <3>4. q[j - k] = h[k + (j - k)]
      BY <3>3
    <3>5. k + (j - k) = j
      BY <3>1
    <3> QED
      BY <1>1, <3>1, <3>3, <3>4, <3>5 DEF SameTool
  <2> QED
    BY <2>1, <2>2
<1>7. B \subseteq Int /\ A \subseteq Int
  BY <1>1 DEF SameTool, InWindow
<1>8. f \in [B -> A]
  BY <1>5
<1>9. \A a, b \in B : f[a] = f[b] => a = b
  BY <1>7
<1>10. ASSUME NEW j \in A
       PROVE  \E i \in B : f[i] = j
  <2>1. j - k \in B /\ f[j - k] = k + (j - k)
    BY <1>6
  <2>2. k + (j - k) = j
    BY <1>7
  <2> QED
    BY <2>1, <2>2
<1>11. f \in Bijection(B, A)
  BY <1>8, <1>9, <1>10 DEF Bijection, Injection, Surjection, IsInjective
<1>12. ExistsBijection(B, A)
  BY <1>11 DEF ExistsBijection
<1> QED
  BY <1>2, <1>3, <1>4, <1>12, FS_Bijection

-----------------------------------------------------------------------------

(* After the rate limit's slide, _minute_times holds the granted calls     *)
(* still in the minute, and the new one.                                   *)
LEMMA MinuteCut ==
  ASSUME TypeOK, HistoryInOrder, MinuteIsSuffix, SlideMinute
  PROVE  \E k \in 0..Len(granted) :
           /\ Len(minuteTimes') = Len(granted) - k + 1
           /\ \A i \in 1..(Len(granted) - k) : minuteTimes'[i] = granted[k + i].at
           /\ minuteTimes'[Len(granted) - k + 1] = now
           /\ \A i \in 1..k : granted[i].at < now - MinuteWindow
           /\ \A i \in (k + 1)..Len(granted) : granted[i].at >= now - MinuteWindow
<1> DEFINE h == granted
           c == now - MinuteWindow
<1>1. h \in Seq(Call) /\ now \in 0..MaxTime /\ minuteTimes \in Seq(0..MaxTime)
  BY DEF TypeOK
<1>2. Len(h) \in Nat /\ c \in Int /\ Len(minuteTimes) \in Nat
  BY <1>1, CallsTyped, LenProperties
<1>3. \A i, j \in 1..Len(h) : i <= j => h[i].at <= h[j].at
  BY DEF HistoryInOrder
<1>4. PICK k \in 0..Len(h) :
        /\ Len(minuteTimes) = Len(h) - k
        /\ \A i \in 1..Len(minuteTimes) : minuteTimes[i] = h[k + i].at
        /\ \A i \in 1..k : h[i].at < c
  BY DEF MinuteIsSuffix
<1>5. PICK n \in 0..Len(minuteTimes) :
        /\ FrontExpired(n, minuteTimes, c)
        /\ minuteTimes' = Slid(minuteTimes, n, now)
  BY DEF SlideMinute
<1>6. /\ k + n \in 0..Len(h)
      /\ \A i \in 1..(k + n) : h[i].at < c
      /\ \A i \in (k + n + 1)..Len(h) : h[i].at >= c
  BY <1>1, <1>2, <1>3, <1>4, <1>5, PopCutsHistory
<1>7. /\ Len(minuteTimes') = Len(minuteTimes) - n + 1
      /\ \A i \in 1..(Len(minuteTimes) - n) : minuteTimes'[i] = minuteTimes[n + i]
      /\ minuteTimes'[Len(minuteTimes) - n + 1] = now
  <2> DEFINE T == 0..MaxTime
  <2>1. minuteTimes \in Seq(T) /\ now \in T /\ n \in 0..Len(minuteTimes)
    BY <1>1
  <2> HIDE DEF T
  <2>2. SlidFrom(Slid(minuteTimes, n, now), minuteTimes, n, now)
    BY <2>1, SlidIsSlidFrom
  <2> QED
    BY <1>5, <2>2 DEF SlidFrom
<1>8. Len(minuteTimes) - n = Len(h) - (k + n)
  BY <1>2, <1>4
<1>9. ASSUME NEW i \in 1..(Len(h) - (k + n))
      PROVE  minuteTimes'[i] = h[(k + n) + i].at
  <2>1. minuteTimes'[i] = minuteTimes[n + i]
    BY <1>7, <1>8
  <2>2. n + i \in 1..Len(minuteTimes) /\ k + (n + i) = (k + n) + i
    BY <1>2, <1>8
  <2> QED
    BY <1>4, <2>1, <2>2
<1> QED
  BY <1>2, <1>6, <1>7, <1>8, <1>9

(* After the loop detector's slide, _recent_tools holds the granted calls  *)
(* still in the loop window, and the new one.                              *)
LEMMA ToolsCut ==
  ASSUME TypeOK, HistoryInOrder, ToolsAreSuffix, NEW tool \in Tools,
         SlideTools(tool)
  PROVE  \E k \in 0..Len(granted) :
           /\ Len(recentTools') = Len(granted) - k + 1
           /\ \A i \in 1..(Len(granted) - k) : recentTools'[i] = granted[k + i]
           /\ recentTools'[Len(granted) - k + 1] = [at |-> now, tool |-> tool]
           /\ \A i \in 1..k : granted[i].at < now - LoopWindow
           /\ \A i \in (k + 1)..Len(granted) : granted[i].at >= now - LoopWindow
<1> DEFINE h == granted
           c == now - LoopWindow
           e == [at |-> now, tool |-> tool]
<1>1. /\ h \in Seq(Call) /\ now \in 0..MaxTime /\ recentTools \in Seq(Call)
      /\ e \in Call
  BY DEF TypeOK, Call
<1>2. Len(h) \in Nat /\ c \in Int /\ Len(recentTools) \in Nat
  BY <1>1, CallsTyped
<1>3. \A i, j \in 1..Len(h) : i <= j => h[i].at <= h[j].at
  BY DEF HistoryInOrder
<1>4. PICK k \in 0..Len(h) :
        /\ Len(recentTools) = Len(h) - k
        /\ \A i \in 1..Len(recentTools) : recentTools[i] = h[k + i]
        /\ \A i \in 1..k : h[i].at < c
  BY DEF ToolsAreSuffix
<1>5. PICK n \in 0..Len(recentTools) :
        /\ FrontExpired(n, TimesOf(recentTools), c)
        /\ recentTools' = Slid(recentTools, n, e)
  BY DEF SlideTools
<1> DEFINE times == TimesOf(recentTools)
<1>6. /\ Len(times) = Len(h) - k
      /\ \A i \in 1..Len(times) : times[i] = h[k + i].at
  <2>1. /\ Len(times) = Len(recentTools)
        /\ \A i \in 1..Len(recentTools) : times[i] = recentTools[i].at
    BY <1>1, TimesOfProperties
  <2> HIDE DEF times
  <2> QED
    BY <1>4, <2>1
<1>7. n \in 0..Len(times) /\ FrontExpired(n, times, c)
  BY <1>4, <1>5, <1>6
<1> HIDE DEF times
<1>8. /\ k + n \in 0..Len(h)
      /\ \A i \in 1..(k + n) : h[i].at < c
      /\ \A i \in (k + n + 1)..Len(h) : h[i].at >= c
  BY <1>1, <1>2, <1>3, <1>4, <1>6, <1>7, PopCutsHistory
<1>9. /\ Len(recentTools') = Len(recentTools) - n + 1
      /\ \A i \in 1..(Len(recentTools) - n) : recentTools'[i] = recentTools[n + i]
      /\ recentTools'[Len(recentTools) - n + 1] = e
  <2> HIDE DEF e
  <2>1. recentTools \in Seq(Call) /\ e \in Call /\ n \in 0..Len(recentTools)
    BY <1>1
  <2>2. SlidFrom(Slid(recentTools, n, e), recentTools, n, e)
    BY <2>1, SlidIsSlidFrom
  <2> QED
    BY <1>5, <2>2 DEF SlidFrom
<1>10. Len(recentTools) - n = Len(h) - (k + n)
  BY <1>2, <1>4
<1>11. ASSUME NEW i \in 1..(Len(h) - (k + n))
       PROVE  recentTools'[i] = h[(k + n) + i]
  <2>1. recentTools'[i] = recentTools[n + i]
    BY <1>9, <1>10
  <2>2. n + i \in 1..Len(recentTools) /\ k + (n + i) = (k + n) + i
    BY <1>2, <1>10
  <2> QED
    BY <1>4, <2>1, <2>2
<1> QED
  BY <1>2, <1>8, <1>9, <1>10, <1>11

-----------------------------------------------------------------------------

(* The granted calls of a tool still in the loop window: what the policy   *)
(* counts, and what the deque counts but for the new call.                 *)
InLoopWindow(tool) == InWindow(granted, now - LoopWindow, tool)

LEMMA DequeCountsLoop ==
  ASSUME TypeOK, HistoryInOrder, ToolsAreSuffix, NEW tool \in Tools,
         SlideTools(tool)
  PROVE  /\ IsFiniteSet(InLoopWindow(tool))
         /\ Cardinality(InLoopWindow(tool)) \in Nat
         /\ Cardinality(SameTool(recentTools', tool))
              = Cardinality(InLoopWindow(tool)) + 1
<1> DEFINE e == [at |-> now, tool |-> tool]
           c == now - LoopWindow
           R == InWindow(granted, c, e.tool)
<1>1. granted \in Seq(Call) /\ e \in Call /\ c \in Int
  <2>1. granted \in Seq(Call) /\ now \in 0..MaxTime
    BY DEF TypeOK
  <2>2. c \in Int
    BY <2>1
  <2>3. e \in Call
    BY <2>1 DEF Call
  <2> QED
    BY <2>1, <2>2, <2>3
<1>2. recentTools' \in Seq(Call)
  BY ToolsTyped
<1>3. PICK k \in 0..Len(granted) :
        /\ Len(recentTools') = Len(granted) - k + 1
        /\ \A i \in 1..(Len(granted) - k) : recentTools'[i] = granted[k + i]
        /\ recentTools'[Len(granted) - k + 1] = e
        /\ \A i \in 1..k : granted[i].at < c
        /\ \A i \in (k + 1)..Len(granted) : granted[i].at >= c
  BY ToolsCut
<1>4. e.tool = tool /\ R = InLoopWindow(tool)
  BY DEF InLoopWindow
<1> HIDE DEF e, c
<1>5. /\ IsFiniteSet(R)
      /\ Cardinality(R) \in Nat
      /\ Cardinality(SameTool(recentTools', e.tool)) = Cardinality(R) + 1
  <2> DEFINE q == recentTools'
  <2>1. /\ q \in Seq(Call)
        /\ Len(q) = Len(granted) - k + 1
        /\ \A i \in 1..(Len(granted) - k) : q[i] = granted[k + i]
        /\ q[Len(granted) - k + 1] = e
    BY <1>2, <1>3
  <2> HIDE DEF q
  <2>2. /\ IsFiniteSet(R)
        /\ Cardinality(R) \in Nat
        /\ Cardinality(SameTool(q, e.tool)) = Cardinality(R) + 1
    BY <1>1, <1>3, <2>1, LoopCount
  <2> QED
    BY <2>2 DEF q
<1> HIDE DEF R
<1> QED
  BY <1>4, <1>5

(* A step that leaves the history alone, and the clock too or lets it run, *)
(* keeps every bound on the history.                                       *)
LEMMA HistoryUnchanged ==
  ASSUME IInv, granted' = granted, now' \in Int, now' >= now
  PROVE  /\ HistoryInOrder'
         /\ RateBound' /\ SessionBound' /\ LoopBound'
<1>1. granted \in Seq(Call) /\ now \in Int
  <2>1. granted \in Seq(Call) /\ now \in 0..MaxTime
    BY Zenon DEF IInv, TypeOK
  <2> QED
    BY <2>1
<1>2. Len(granted) \in Nat /\ \A i \in 1..Len(granted) : granted[i].at \in Int
  BY <1>1, CallsTyped
<1>3. HistoryInOrder'
  BY <1>1, <1>2 DEF IInv, HistoryInOrder
<1>4. RateBound' /\ SessionBound' /\ LoopBound'
  BY Zenon DEF IInv, RateBound, SessionBound, LoopBound
<1> QED
  BY <1>3, <1>4

LEMMA GrantPreserves ==
  ASSUME IInv, NEW tool \in Tools, Grant(tool)
  PROVE  /\ HistoryInOrder' /\ DequesComplete'
         /\ RateBound' /\ SessionBound' /\ LoopBound'
<1> DEFINE h == granted
           L == Len(granted)
           e == [at |-> now, tool |-> tool]
<1>1. /\ TypeOK /\ HistoryInOrder /\ RateBound /\ SessionBound /\ LoopBound
      /\ sessionCount = L /\ MinuteIsSuffix /\ ToolsAreSuffix
  BY Zenon DEF IInv, DequesComplete, Grant, WithinSession
<1>2. /\ sessionCount' = sessionCount + 1 /\ sessionCount' <= MaxPerSession
      /\ SlideMinute /\ Len(minuteTimes') <= MaxPerMinute
      /\ SlideTools(tool)
      /\ Cardinality(SameTool(recentTools', tool)) <= LoopThreshold
      /\ granted' = Append(h, e) /\ now' = now
  BY Zenon DEF Grant, WithinSession
<1>3. h \in Seq(Call) /\ now \in 0..MaxTime /\ e \in Call
  BY <1>1 DEF TypeOK, Call
<1>4. L \in Nat /\ \A i \in 1..L : h[i].at \in Int
  BY <1>3, CallsTyped
<1>5. /\ Len(granted') = L + 1
      /\ \A i \in 1..L : granted'[i] = h[i]
      /\ granted'[L + 1] = e
  <2> HIDE DEF e
  <2> QED
    BY <1>2, <1>3, AppendProperties
<1>6. e.at = now /\ e.tool = tool
  OBVIOUS
<1>7. PICK k \in 0..L :
        /\ Len(minuteTimes') = L - k + 1
        /\ \A i \in 1..(L - k) : minuteTimes'[i] = h[k + i].at
        /\ minuteTimes'[L - k + 1] = now
        /\ \A i \in 1..k : h[i].at < now - MinuteWindow
        /\ \A i \in (k + 1)..L : h[i].at >= now - MinuteWindow
  BY <1>1, <1>2, MinuteCut
<1>8. PICK m \in 0..L :
        /\ Len(recentTools') = L - m + 1
        /\ \A i \in 1..(L - m) : recentTools'[i] = h[m + i]
        /\ recentTools'[L - m + 1] = e
        /\ \A i \in 1..m : h[i].at < now - LoopWindow
        /\ \A i \in (m + 1)..L : h[i].at >= now - LoopWindow
  BY <1>1, <1>2, ToolsCut
<1>9. HistoryInOrder'
  <2>1. \A i \in 1..L : h[i].at <= now
    BY <1>1 DEF HistoryInOrder
  <2>2. \A i, j \in 1..L : i <= j => h[i].at <= h[j].at
    BY <1>1 DEF HistoryInOrder
  <2>3. \A i \in 1..Len(granted') :
          /\ granted'[i].at <= now'
          /\ (i \in 1..L /\ granted'[i].at = h[i].at) \/ (i = L + 1 /\ granted'[i].at = now)
    BY <1>2, <1>3, <1>4, <1>5, <1>6, <2>1
  <2>4. ASSUME NEW i \in 1..Len(granted'), NEW j \in 1..Len(granted'), i <= j
        PROVE  granted'[i].at <= granted'[j].at
    <3>1. CASE j = L + 1
      BY <1>2, <1>5, <1>6, <2>3, <2>4, <3>1
    <3>2. CASE j \in 1..L
      <4>1. i \in 1..L
        BY <1>4, <1>5, <2>4, <3>2
      <4> QED
        BY <1>5, <2>2, <2>4, <3>2, <4>1
    <3> QED
      BY <1>4, <1>5, <3>1, <3>2
  <2> QED
    BY <2>3, <2>4 DEF HistoryInOrder
<1>10. MinuteIsSuffix'
  <2>1. k \in 0..Len(granted')
    BY <1>4, <1>5
  <2>2. Len(minuteTimes') = Len(granted') - k
    BY <1>4, <1>5, <1>7
  <2>3. ASSUME NEW i \in 1..Len(minuteTimes')
        PROVE  minuteTimes'[i] = granted'[k + i].at
    <3>1. CASE i = L - k + 1
      BY <1>4, <1>5, <1>6, <1>7, <3>1
    <3>2. CASE i \in 1..(L - k)
      <4>1. k + i \in 1..L
        BY <1>4, <3>2
      <4> QED
        BY <1>5, <1>7, <3>2, <4>1
    <3> QED
      BY <1>4, <1>7, <3>1, <3>2
  <2>4. \A i \in 1..k : granted'[i].at < now' - MinuteWindow
    BY <1>2, <1>4, <1>5, <1>7
  <2> QED
    BY <2>1, <2>2, <2>3, <2>4 DEF MinuteIsSuffix
<1>11. ToolsAreSuffix'
  <2>1. m \in 0..Len(granted')
    BY <1>4, <1>5
  <2>2. Len(recentTools') = Len(granted') - m
    BY <1>4, <1>5, <1>8
  <2>3. ASSUME NEW i \in 1..Len(recentTools')
        PROVE  recentTools'[i] = granted'[m + i]
    <3> HIDE DEF e
    <3>1. CASE i = L - m + 1
      BY <1>4, <1>5, <1>8, <3>1
    <3>2. CASE i \in 1..(L - m)
      <4>1. m + i \in 1..L
        BY <1>4, <3>2
      <4> QED
        BY <1>5, <1>8, <3>2, <4>1
    <3> QED
      BY <1>4, <1>8, <3>1, <3>2
  <2>4. \A i \in 1..m : granted'[i].at < now' - LoopWindow
    BY <1>2, <1>4, <1>5, <1>8
  <2> QED
    BY <2>1, <2>2, <2>3, <2>4 DEF ToolsAreSuffix
<1>12. DequesComplete'
  <2>1. sessionCount' = Len(granted')
    BY <1>1, <1>2, <1>5
  <2> QED
    BY <1>10, <1>11, <2>1, Zenon DEF DequesComplete
<1>13. RateBound'
  <2> SUFFICES ASSUME NEW i \in 1..Len(granted'), NEW j \in 1..Len(granted'),
                      j - i >= MaxPerMinute
               PROVE  granted'[j].at - granted'[i].at > MinuteWindow
    BY DEF RateBound
  <2>1. CASE j \in 1..L
    <3>1. i \in 1..L
      BY <1>4, <1>5, <2>1
    <3> QED
      BY <1>1, <1>5, <2>1, <3>1 DEF RateBound
  <2>2. CASE j = L + 1
    <3>1. i \in 1..k
      BY <1>2, <1>4, <1>5, <1>7, <2>2
    <3>2. i \in 1..L /\ h[i].at \in Int /\ h[i].at < now - MinuteWindow
      BY <1>4, <1>7, <3>1
    <3>3. granted'[j].at = now /\ granted'[i].at = h[i].at
      BY <1>5, <1>6, <2>2, <3>2
    <3> QED
      BY <1>3, <3>2, <3>3
  <2> QED
    BY <1>4, <1>5, <2>1, <2>2
<1>14. SessionBound'
  BY <1>1, <1>2, <1>5 DEF SessionBound
<1>15. LoopBound'
  <2> DEFINE C(i) == {j \in 1..i : /\ granted'[j].tool = granted'[i].tool
                                   /\ granted'[j].at >= granted'[i].at - LoopWindow}
             R == InLoopWindow(tool)
  <2> SUFFICES ASSUME NEW i \in 1..Len(granted')
               PROVE  Cardinality(C(i)) <= LoopThreshold
    BY DEF LoopBound
  <2>1. CASE i \in 1..L
    <3>1. C(i) = {j \in 1..i : /\ h[j].tool = h[i].tool
                               /\ h[j].at >= h[i].at - LoopWindow}
      BY <1>4, <1>5, <2>1
    <3>2. Cardinality({j \in 1..i : /\ h[j].tool = h[i].tool
                                    /\ h[j].at >= h[i].at - LoopWindow}) <= LoopThreshold
      BY <1>1, <2>1 DEF LoopBound
    <3> QED
      BY <3>1, <3>2
  <2>2. CASE i = L + 1
    <3>1. C(i) = R \cup {L + 1}
      <4>1. /\ granted'[L + 1].at = now /\ granted'[L + 1].tool = tool
            /\ \A j \in 1..L : granted'[j] = h[j]
        BY <1>5, <1>6
      <4>2. \A j : j \in 1..(L + 1) <=> j \in 1..L \/ j = L + 1
        BY <1>4
      <4>3. now >= now - LoopWindow
        BY <1>3
      <4>4. L + 1 \in C(i)
        BY <1>4, <2>2, <4>1, <4>3
      <4>5. \A j \in 1..L : j \in C(i) <=> j \in R
        BY <1>4, <2>2, <4>1, <4>2 DEF InLoopWindow, InWindow
      <4>6. C(i) \subseteq 1..(L + 1) /\ R \subseteq 1..L
        BY <2>2 DEF InLoopWindow, InWindow
      <4> QED
        BY <4>2, <4>4, <4>5, <4>6
    <3>2. /\ IsFiniteSet(R)
          /\ Cardinality(R) \in Nat
          /\ Cardinality(R) + 1 <= LoopThreshold
      BY <1>1, <1>2, DequeCountsLoop
    <3>3. L + 1 \notin R
      BY <1>4 DEF InLoopWindow, InWindow
    <3>4. Cardinality(R \cup {L + 1}) = Cardinality(R) + 1
      BY <3>2, <3>3, FS_AddElement
    <3> QED
      BY <3>1, <3>2, <3>4
  <2>3. i \in 1..L \/ i = L + 1
    BY <1>4, <1>5
  <2> HIDE DEF C
  <2> QED
    BY <2>1, <2>2, <2>3
<1> QED
  BY <1>9, <1>12, <1>13, <1>14, <1>15

LEMMA ResumePreserves ==
  ASSUME IInv, Resume
  PROVE  /\ HistoryInOrder' /\ DequesComplete'
         /\ RateBound' /\ SessionBound' /\ LoopBound'
<1>1. /\ sessionCount' = 0 /\ minuteTimes' = << >> /\ recentTools' = << >>
      /\ granted' = << >>
  BY DEF Resume
<1>2. Len(<< >>) = 0
  BY EmptySeq
<1>3. HistoryInOrder' /\ RateBound' /\ LoopBound'
  BY <1>1, <1>2 DEF HistoryInOrder, RateBound, LoopBound
<1>4. SessionBound'
  BY <1>1, <1>2 DEF SessionBound
<1>5. MinuteIsSuffix' /\ ToolsAreSuffix' /\ sessionCount' = Len(granted')
  BY <1>1, <1>2 DEF MinuteIsSuffix, ToolsAreSuffix
<1> QED
  BY <1>3, <1>4, <1>5, Zenon DEF DequesComplete

LEMMA TickPreserves ==
  ASSUME IInv, Tick
  PROVE  /\ HistoryInOrder' /\ DequesComplete'
         /\ RateBound' /\ SessionBound' /\ LoopBound'
<1>1. /\ granted \in Seq(Call) /\ now \in 0..MaxTime /\ now' = now + 1
      /\ minuteTimes' = minuteTimes /\ recentTools' = recentTools
      /\ sessionCount' = sessionCount /\ halted' = halted /\ granted' = granted
  BY Zenon DEF IInv, TypeOK, Tick, deques
<1>2. now' \in Int /\ now' >= now
  BY <1>1
<1>3. \A i \in 1..Len(granted) : granted[i].at \in Int
  BY <1>1, CallsTyped
<1>4. MinuteIsSuffix => MinuteIsSuffix'
  <2> SUFFICES ASSUME NEW k \in 0..Len(granted),
                      Len(minuteTimes) = Len(granted) - k,
                      \A i \in 1..Len(minuteTimes) : minuteTimes[i] = granted[k + i].at,
                      \A i \in 1..k : granted[i].at < now - MinuteWindow
               PROVE  MinuteIsSuffix'
    BY DEF MinuteIsSuffix
  <2>1. \A i \in 1..k : granted[i].at < now' - MinuteWindow
    BY <1>1, <1>3, CallsTyped
  <2> QED
    BY <1>1, <2>1 DEF MinuteIsSuffix
<1>5. ToolsAreSuffix => ToolsAreSuffix'
  <2> SUFFICES ASSUME NEW k \in 0..Len(granted),
                      Len(recentTools) = Len(granted) - k,
                      \A i \in 1..Len(recentTools) : recentTools[i] = granted[k + i],
                      \A i \in 1..k : granted[i].at < now - LoopWindow
               PROVE  ToolsAreSuffix'
    BY DEF ToolsAreSuffix
  <2>1. \A i \in 1..k : granted[i].at < now' - LoopWindow
    BY <1>1, <1>3, CallsTyped
  <2> QED
    BY <1>1, <2>1 DEF ToolsAreSuffix
<1>6. DequesComplete'
  BY <1>1, <1>4, <1>5, Zenon DEF IInv, DequesComplete
<1> QED
  BY <1>1, <1>2, <1>6, HistoryUnchanged

(* The steps that halt the supervisor, or leave it halted, touch neither   *)
(* the history nor the clock.                                              *)
LEMMA RefusalPreserves ==
  ASSUME IInv, halted', granted' = granted, now' = now
  PROVE  /\ HistoryInOrder' /\ DequesComplete'
         /\ RateBound' /\ SessionBound' /\ LoopBound'
<1>1. now \in 0..MaxTime
  BY Zenon DEF IInv, TypeOK
<1>2. now' \in Int /\ now' >= now
  BY <1>1
<1>3. DequesComplete'
  BY Zenon DEF DequesComplete
<1> QED
  BY <1>2, <1>3, HistoryUnchanged

LEMMA IInvInductive ==
  ASSUME IInv, [Next]_vars
  PROVE  IInv'
<1> DEFINE Rest == /\ HistoryInOrder /\ DequesComplete
                   /\ RateBound /\ SessionBound /\ LoopBound
<1>1. TypeOK'
  BY TypeInductive DEF IInv
<1>2. ASSUME RefuseHalted
      PROVE  Rest'
  <2>1. halted' /\ granted' = granted /\ now' = now
    BY <1>2, Zenon DEF RefuseHalted
  <2> QED
    BY <2>1, RefusalPreserves
<1>3. ASSUME ExceedSession
      PROVE  Rest'
  <2>1. halted' /\ granted' = granted /\ now' = now
    BY <1>3, Zenon DEF ExceedSession, Halt
  <2> QED
    BY <2>1, RefusalPreserves
<1>4. ASSUME ExceedRate
      PROVE  Rest'
  <2>1. halted' /\ granted' = granted /\ now' = now
    BY <1>4, Zenon DEF ExceedRate, Halt
  <2> QED
    BY <2>1, RefusalPreserves
<1>5. ASSUME NEW tool \in Tools, ExceedLoop(tool)
      PROVE  Rest'
  <2>1. halted' /\ granted' = granted /\ now' = now
    BY <1>5, Zenon DEF ExceedLoop, Halt
  <2> QED
    BY <2>1, RefusalPreserves
<1>6. ASSUME NEW tool \in Tools, Grant(tool)
      PROVE  Rest'
  BY <1>6, GrantPreserves
<1>7. ASSUME Resume
      PROVE  Rest'
  BY <1>7, ResumePreserves
<1>8. ASSUME Tick
      PROVE  Rest'
  BY <1>8, TickPreserves
<1>9. ASSUME UNCHANGED vars
      PROVE  Rest'
  BY <1>9, Zenon DEF vars, deques, IInv, HistoryInOrder, DequesComplete, RateBound,
     SessionBound, LoopBound, MinuteIsSuffix, ToolsAreSuffix
<1>10. Rest'
  <2> HIDE DEF Rest
  <2> QED
    BY <1>2, <1>3, <1>4, <1>5, <1>6, <1>7, <1>8, <1>9, Zenon DEF Next, Allow
<1> QED
  BY <1>1, <1>10, Zenon DEF IInv

LEMMA IInvInitial == Init => IInv
<1> SUFFICES ASSUME Init PROVE IInv
  OBVIOUS
<1>1. TypeOK
  <2>1. /\ 0 \in Nat /\ 0 \in 0..MaxTime
        /\ << >> \in Seq(0..MaxTime) /\ << >> \in Seq(Call)
    BY EmptySeq
  <2> QED
    BY <2>1, Zenon DEF Init, TypeOK
<1>2. /\ sessionCount = 0 /\ minuteTimes = << >> /\ recentTools = << >>
      /\ granted = << >>
  BY DEF Init
<1>3. Len(<< >>) = 0
  BY EmptySeq
<1>4. HistoryInOrder /\ RateBound /\ LoopBound
  BY <1>2, <1>3 DEF HistoryInOrder, RateBound, LoopBound
<1>5. SessionBound
  BY <1>2, <1>3 DEF SessionBound
<1>6. MinuteIsSuffix /\ ToolsAreSuffix /\ sessionCount = Len(granted)
  BY <1>2, <1>3 DEF MinuteIsSuffix, ToolsAreSuffix
<1> QED
  BY <1>1, <1>4, <1>5, <1>6, Zenon DEF IInv, DequesComplete

LEMMA Invariance == Spec => []IInv
<1>1. Init => IInv
  BY IInvInitial
<1>2. IInv /\ [Next]_vars => IInv'
  BY IInvInductive
<1> QED
  BY <1>1, <1>2, PTL DEF Spec

(* No minute ever holds more granted calls than MaxPerMinute: pruning      *)
(* forgets nothing that still counts, whatever the arrivals.               *)
THEOREM RateLimited == Spec => []RateBound
<1>1. IInv => RateBound
  BY DEF IInv
<1> QED
  BY <1>1, Invariance, PTL

(* The session budget is never overrun between two resumes.                *)
THEOREM SessionLimited == Spec => []SessionBound
<1>1. IInv => SessionBound
  BY DEF IInv
<1> QED
  BY <1>1, Invariance, PTL

(* No tool is granted more than LoopThreshold times in a loop window.      *)
THEOREM LoopLimited == Spec => []LoopBound
<1>1. IInv => LoopBound
  BY DEF IInv
<1> QED
  BY <1>1, Invariance, PTL

(* The counter and the two deques always hold exactly what the decision    *)
(* needs of the history.                                                   *)
THEOREM DequesAlwaysComplete == Spec => []DequesComplete
<1>1. IInv => DequesComplete
  BY DEF IInv
<1> QED
  BY <1>1, Invariance, PTL

-----------------------------------------------------------------------------

(* The policy module counts with its own instance of FiniteSets.           *)
LEMMA SameCardinality == \A S : Budget!Cardinality(S) = Cardinality(S)
  BY Zenon DEF Budget!Cardinality, Cardinality

(* The policy's counts over the whole history are the lengths and counts   *)
(* that allow() reads off its deques, less the call it has just appended.  *)
LEMMA PolicyCountsMinute ==
  ASSUME TypeOK, HistoryInOrder, MinuteIsSuffix, SlideMinute
  PROVE  /\ Cardinality(Budget!RecentCalls(MinuteWindow)) \in Nat
         /\ Len(minuteTimes') = Cardinality(Budget!RecentCalls(MinuteWindow)) + 1
<1> DEFINE L == Len(granted)
           c == now - MinuteWindow
<1>1. granted \in Seq(Call) /\ now \in 0..MaxTime
  BY DEF TypeOK
<1>2. L \in Nat /\ DOMAIN granted = 1..L /\ c \in Int
  BY <1>1, LenProperties
<1>3. \A i \in 1..L : granted[i].at \in Int
  BY <1>1, CallsTyped
<1>4. PICK k \in 0..L :
        /\ Len(minuteTimes') = L - k + 1
        /\ \A i \in 1..k : granted[i].at < c
        /\ \A i \in (k + 1)..L : granted[i].at >= c
  BY MinuteCut
<1>5. Budget!RecentCalls(MinuteWindow) = (k + 1)..L
  <2>1. Budget!RecentCalls(MinuteWindow) = {i \in 1..L : granted[i].at >= c}
    BY <1>2 DEF Budget!RecentCalls
  <2>2. ASSUME NEW i \in 1..L
        PROVE  granted[i].at >= c <=> i \in (k + 1)..L
    BY <1>2, <1>3, <1>4
  <2>3. (k + 1)..L \subseteq 1..L
    BY <1>2
  <2> QED
    BY <2>1, <2>2, <2>3
<1>6. Cardinality((k + 1)..L) = L - k
  <2>1. k + 1 \in Int /\ L \in Int
    BY <1>2
  <2>2. Cardinality((k + 1)..L) = IF k + 1 > L THEN 0 ELSE L - (k + 1) + 1
    BY <2>1, FS_Interval
  <2> QED
    BY <1>2, <2>2
<1> QED
  BY <1>2, <1>4, <1>5, <1>6

LEMMA PolicyCountsLoop ==
  ASSUME TypeOK, HistoryInOrder, ToolsAreSuffix, NEW tool \in Tools,
         SlideTools(tool)
  PROVE  /\ Cardinality(Budget!RecentCallsOf(tool, LoopWindow)) \in Nat
         /\ Cardinality(SameTool(recentTools', tool))
              = Cardinality(Budget!RecentCallsOf(tool, LoopWindow)) + 1
<1>1. DOMAIN granted = 1..Len(granted)
  BY LenProperties DEF TypeOK
<1>2. Budget!RecentCallsOf(tool, LoopWindow) = InLoopWindow(tool)
  BY <1>1 DEF Budget!RecentCallsOf, Budget!RecentCalls, InLoopWindow, InWindow
<1> QED
  BY <1>2, DequeCountsLoop

LEMMA StepRefines ==
  ASSUME IInv, [Next]_vars
  PROVE  [Budget!Next]_(Budget!vars)
<1>1. /\ TypeOK /\ HistoryInOrder
      /\ ~halted => sessionCount = Len(granted) /\ MinuteIsSuffix /\ ToolsAreSuffix
  BY Zenon DEF IInv, DequesComplete
<1>2. Len(granted) \in Nat
  BY <1>1, CallsTyped DEF TypeOK
<1>3. ASSUME RefuseHalted
      PROVE  UNCHANGED Budget!vars
  BY <1>3, Zenon DEF RefuseHalted, Budget!vars
<1>4. ASSUME NEW tool \in Tools, ExceedSession
      PROVE  Budget!Trip(tool)
  <2>1. /\ ~halted /\ sessionCount' = sessionCount + 1 /\ sessionCount' > MaxPerSession
        /\ halted' = TRUE /\ now' = now /\ granted' = granted
    BY <1>4, Zenon DEF ExceedSession, Halt
  <2>2. ~(Len(granted) < MaxPerSession)
    BY <1>1, <1>2, <2>1
  <2> QED
    BY <2>1, <2>2, Zenon DEF Budget!Trip, Budget!FitsBudget
<1>5. ASSUME NEW tool \in Tools, ExceedRate
      PROVE  Budget!Trip(tool)
  <2>1. /\ ~halted /\ SlideMinute /\ Len(minuteTimes') > MaxPerMinute
        /\ halted' = TRUE /\ now' = now /\ granted' = granted
    BY <1>5, Zenon DEF ExceedRate, WithinSession, Halt
  <2>2. ~(Cardinality(Budget!RecentCalls(MinuteWindow)) < MaxPerMinute)
    BY <1>1, <2>1, PolicyCountsMinute
  <2> QED
    BY <2>1, <2>2, SameCardinality, Zenon DEF Budget!Trip, Budget!FitsBudget
<1>6. ASSUME NEW tool \in Tools, ExceedLoop(tool)
      PROVE  Budget!Trip(tool)
  <2>1. /\ ~halted /\ SlideTools(tool)
        /\ Cardinality(SameTool(recentTools', tool)) > LoopThreshold
        /\ halted' = TRUE /\ now' = now /\ granted' = granted
    BY <1>6, Zenon DEF ExceedLoop, WithinSession, Halt
  <2>2. ~(Cardinality(Budget!RecentCallsOf(tool, LoopWindow)) < LoopThreshold)
    BY <1>1, <2>1, PolicyCountsLoop
  <2> QED
    BY <2>1, <2>2, SameCardinality, Zenon DEF Budget!Trip, Budget!FitsBudget
<1>7. ASSUME NEW tool \in Tools, Grant(tool)
      PROVE  Budget!Grant(tool)
  <2>1. /\ ~halted /\ sessionCount' = sessionCount + 1 /\ sessionCount' <= MaxPerSession
        /\ SlideMinute /\ Len(minuteTimes') <= MaxPerMinute
        /\ SlideTools(tool)
        /\ Cardinality(SameTool(recentTools', tool)) <= LoopThreshold
        /\ granted' = Append(granted, [at |-> now, tool |-> tool])
        /\ halted' = halted /\ now' = now
    BY <1>7, Zenon DEF Grant, WithinSession
  <2>2. Len(granted) < MaxPerSession
    BY <1>1, <1>2, <2>1
  <2>3. Cardinality(Budget!RecentCalls(MinuteWindow)) < MaxPerMinute
    BY <1>1, <2>1, PolicyCountsMinute
  <2>4. Cardinality(Budget!RecentCallsOf(tool, LoopWindow)) < LoopThreshold
    BY <1>1, <2>1, PolicyCountsLoop
  <2> QED
    BY <2>1, <2>2, <2>3, <2>4, SameCardinality, Zenon DEF Budget!Grant, Budget!FitsBudget
<1>8. ASSUME Resume
      PROVE  Budget!Resume
  BY <1>8, Zenon DEF Resume, Budget!Resume
<1>9. ASSUME Tick
      PROVE  Budget!Tick
  BY <1>9, Zenon DEF Tick, Budget!Tick
<1>10. ASSUME UNCHANGED vars
       PROVE  UNCHANGED Budget!vars
  BY <1>10, Zenon DEF vars, deques, Budget!vars
<1> QED
  BY <1>3, <1>4, <1>5, <1>6, <1>7, <1>8, <1>9, <1>10, Zenon
     DEF Next, Allow, Budget!Next

(* allow(), with its counter and its two pruned deques, grants and refuses *)
(* exactly as the policy over the whole history does.                      *)
THEOREM Refinement == Spec => ImplementsBudget
<1>1. Init => Budget!Init
  BY Zenon DEF Init, Budget!Init
<1>2. IInv /\ [Next]_vars => [Budget!Next]_(Budget!vars)
  BY StepRefines
<1> QED
  BY <1>1, <1>2, Invariance, PTL DEF Spec, Budget!Spec, ImplementsBudget
=============================================================================
