-------------------------- MODULE SidePartsProofs --------------------------
(***************************************************************************)
(* For any number of commands, files, calls and edits: the snapshot a      *)
(* rollback goes back to is the right one, and a restored configuration    *)
(* can be taken back.  For any scores, marks, texts, rows and answers:     *)
(* what each decision promises, the tables that are kept by hand, each     *)
(* apart from the others, making up for one another.                       *)
(***************************************************************************)
EXTENDS SideParts, SequenceTheorems, FiniteSetTheorems, TLAPS

-----------------------------------------------------------------------------
(* The items at some places of a list.                                     *)

UpTo(places, i) == {j \in places : j <= i}

LEMMA FinitePlaces ==
  ASSUME NEW len \in Nat, NEW places \in SUBSET (1..len)
  PROVE  IsFiniteSet(places) /\ Cardinality(places) \in Nat
<1>1. IsFiniteSet(1..len)
  BY FS_Interval
<1>2. IsFiniteSet(places)
  BY <1>1, FS_Subset
<1> QED
  BY <1>2, FS_CardinalityType

LEMMA UpToGrows ==
  ASSUME NEW len \in Nat, NEW places \in SUBSET (1..len), NEW i \in places
  PROVE  /\ Cardinality(UpTo(places, i)) \in 1..Cardinality(places)
         /\ Cardinality(UpTo(places, i)) <= i
         /\ \A j \in places : i < j => Cardinality(UpTo(places, i)) < Cardinality(UpTo(places, j))
<1>1. IsFiniteSet(places) /\ Cardinality(places) \in Nat
  BY FinitePlaces
<1>2. ASSUME NEW j \in places
      PROVE  /\ IsFiniteSet(UpTo(places, j)) /\ Cardinality(UpTo(places, j)) \in Nat
             /\ Cardinality(UpTo(places, j)) <= Cardinality(places)
  BY <1>1, FS_Subset, FS_CardinalityType DEF UpTo
<1>3. i \in UpTo(places, i)
  BY DEF UpTo
<1>4. Cardinality(UpTo(places, i)) # 0
  BY <1>2, <1>3, FS_EmptySet
<1>5. Cardinality(UpTo(places, i)) <= i
  <2>1. IsFiniteSet(1..i) /\ Cardinality(1..i) = i
    BY FS_Interval
  <2>2. \A m \in places : m <= i => m \in 1..i
    OBVIOUS
  <2>3. UpTo(places, i) \in SUBSET (1..i)
    BY <2>2, Zenon DEF UpTo
  <2> QED
    BY <2>1, <2>3, FS_Subset
<1>6. ASSUME NEW j \in places, i < j
      PROVE  Cardinality(UpTo(places, i)) < Cardinality(UpTo(places, j))
  <2>1. i \in Int /\ j \in Int /\ \A m \in places : m \in Int
    OBVIOUS
  <2>2. UpTo(places, i) \in SUBSET UpTo(places, j)
    <3>1. \A m \in Int : m <= i => m <= j
      BY <1>6, <2>1
    <3> QED
      BY <2>1, <3>1, Zenon DEF UpTo
  <2>3. j \in UpTo(places, j) /\ j \notin UpTo(places, i)
    BY <1>6, <2>1 DEF UpTo
  <2>4. Cardinality(UpTo(places, i)) <= Cardinality(UpTo(places, j))
    BY <1>2, <2>2, FS_Subset
  <2>5. Cardinality(UpTo(places, i)) # Cardinality(UpTo(places, j))
    BY <1>2, <2>2, <2>3, FS_Subset
  <2> QED
    BY <1>2, <2>4, <2>5
<1> QED
  BY <1>1, <1>2, <1>4, <1>5, <1>6

(* The places are counted off in their order, each once and no later than  *)
(* where it is.                                                            *)
LEMMA NthInOrder ==
  ASSUME NEW len \in Nat, NEW places \in SUBSET (1..len)
  PROVE  /\ Cardinality(places) \in Nat
         /\ \A k \in 1..Cardinality(places) :
              /\ Nth(places, k) \in places
              /\ k <= Nth(places, k)
              /\ \A m \in 1..Cardinality(places) : k < m => Nth(places, k) < Nth(places, m)
         /\ \A i \in places : Nth(places, Cardinality(UpTo(places, i))) = i
         /\ \A i \in places : \E k \in 1..Cardinality(places) : Nth(places, k) = i
<1> DEFINE n == Cardinality(places)
           Count == [i \in places |-> Cardinality(UpTo(places, i))]
<1>1. IsFiniteSet(places) /\ n \in Nat
  BY FinitePlaces
<1>2. /\ Count \in [places -> 1..n]
      /\ \A i, j \in places : i < j => Count[i] < Count[j]
      /\ \A i \in places : Count[i] <= i /\ Count[i] = Cardinality(UpTo(places, i))
  BY UpToGrows
<1>3. \A i, j \in places : Count[i] = Count[j] => i = j
  BY <1>1, <1>2
<1>4. ASSUME NEW k \in 1..n
      PROVE  \E i \in places : Count[i] = k
  <2> SUFFICES ASSUME \A i \in places : Count[i] # k
               PROVE  FALSE
    OBVIOUS
  <2> DEFINE others == (1..n) \ {k}
  <2>1. Count \in [places -> others]
    BY <1>2
  <2>2. IsFiniteSet(1..n) /\ Cardinality(1..n) = n
    BY <1>1, FS_Interval
  <2>3. IsFiniteSet(others) /\ Cardinality(others) = n - 1
    BY <2>2, FS_RemoveElement
  <2>4. Cardinality(others) < Cardinality(places)
    BY <1>1, <2>3
  <2> HIDE DEF n, Count, others
  <2>5. \E i, j \in places : i # j /\ Count[i] = Count[j]
    BY <1>1, <2>1, <2>3, <2>4, FS_PigeonHole
  <2> QED
    BY <1>3, <2>5
<1>5. \A k \in 1..n : Nth(places, k) = CHOOSE i \in places : Count[i] = k
  BY DEF Nth, UpTo
<1> HIDE DEF n, Count
<1>6. \A k \in 1..n : Nth(places, k) \in places /\ Count[Nth(places, k)] = k
  BY <1>4, <1>5
<1>7. \A i \in places : Count[i] \in 1..n /\ Nth(places, Count[i]) = i
  BY <1>2, <1>3, <1>6
<1>8. ASSUME NEW k \in 1..n, NEW m \in 1..n, k < m
      PROVE  Nth(places, k) < Nth(places, m)
  <2>1. PICK i \in places : i = Nth(places, k) /\ Count[i] = k
    BY <1>6
  <2>2. PICK j \in places : j = Nth(places, m) /\ Count[j] = m
    BY <1>6
  <2>3. i \in Int /\ j \in Int /\ k \in Int /\ m \in Int
    BY <1>1
  <2>4. i # j /\ ~(j < i)
    BY <1>2, <1>8, <2>1, <2>2, <2>3
  <2> QED
    BY <2>1, <2>2, <2>3, <2>4
<1>9. \A k \in 1..n : k <= Nth(places, k)
  BY <1>2, <1>6
<1> QED
  BY <1>1, <1>2, <1>6, <1>7, <1>8, <1>9 DEF n

(* What is at the places is as long as there are places, and is their item.*)
LEMMA AtPlacesOf ==
  ASSUME NEW s, NEW places \in SUBSET (1..Len(s)), Len(s) \in Nat
  PROVE  /\ Cardinality(places) \in Nat
         /\ Len(AtPlaces(s, places)) = Cardinality(places)
         /\ DOMAIN AtPlaces(s, places) = 1..Cardinality(places)
         /\ \A k \in 1..Cardinality(places) :
              Nth(places, k) \in places /\ AtPlaces(s, places)[k] = s[Nth(places, k)]
<1>1. /\ Cardinality(places) \in Nat
      /\ \A k \in 1..Cardinality(places) : Nth(places, k) \in places
  BY NthInOrder
<1> DEFINE n == Cardinality(places)
           t == [k \in 1..n |-> s[Nth(places, k)]]
<1>2. n \in Nat /\ t \in [1..n -> {s[Nth(places, k)] : k \in 1..n}]
  BY <1>1
<1>3. DOMAIN t = 1..n /\ \A k \in 1..n : t[k] = s[Nth(places, k)]
  OBVIOUS
<1> HIDE DEF n, t
<1>4. Len(t) = n
  BY <1>2, <1>3
<1> QED
  BY <1>1, <1>3, <1>4 DEF AtPlaces, n, t

(* What SeqOf lists is a sequence.                                         *)
LEMMA ListUpTo ==
  ASSUME NEW S, NEW bound \in Nat, NEW s \in SeqOf(S, bound)
  PROVE  s \in Seq(S) /\ Len(s) \in Nat
<1>1. PICK n \in 0..bound : s \in [1..n -> S]
  BY DEF SeqOf
<1> QED
  BY <1>1

-----------------------------------------------------------------------------
(* Risk.                                                                   *)

(* The order of the levels.                                                *)
LEMMA Ranks ==
  Rank("AUTO") = 1 /\ Rank("NOTIFY") = 2 /\ Rank("CONFIRM") = 3 /\ Rank("BLOCK") = 4
BY DEF Rank, Levels

(* The classifier's level is the highest that some evidence calls for.     *)
LEMMA RankAtLeast ==
  ASSUME NEW p, NEW q,
         MatchesBlock(p) => MatchesBlock(q),
         MatchesConfirm(p) => MatchesConfirm(q),
         MatchesNotify(p) => MatchesNotify(q),
         p.score \in Int, q.score \in Int, q.score >= p.score
  PROVE  Rank(ClassifyRisk(q)) >= Rank(ClassifyRisk(p))
BY Ranks DEF ClassifyRisk

(* One mark or a worse score more never takes the level down.              *)
LEMMA Evidence ==
  ASSUME NEW p \in Proposals
  PROVE  MoreEvidence(p)
<1>1. p.score \in Int
  <2>1. p.score \in Scores \/ p.score = -1
    BY DEF Proposals, NoScore
  <2>2. Scores \subseteq 0..100
    BY RiskAssumption
  <2>3. -1 \in Int
    OBVIOUS
  <2>4. \A n \in 0..100 : n \in Int
    OBVIOUS
  <2> QED
    BY <2>1, <2>2, <2>3, <2>4, Zenon
<1>2. ASSUME NEW mark \in Marks
      PROVE  Rank(ClassifyRisk([p EXCEPT !.marks = @ \cup {mark}])) >= Rank(ClassifyRisk(p))
  <2> DEFINE q == [p EXCEPT !.marks = @ \cup {mark}]
  <2>1. q.type = p.type /\ q.score = p.score /\ q.marks = p.marks \cup {mark}
    BY DEF Proposals
  <2> HIDE DEF q
  <2>2. MatchesBlock(p) => MatchesBlock(q)
    BY <2>1 DEF MatchesBlock
  <2>3. MatchesConfirm(p) => MatchesConfirm(q)
    BY <2>1 DEF MatchesConfirm
  <2>4. MatchesNotify(p) => MatchesNotify(q)
    BY <2>1 DEF MatchesNotify
  <2>5. Rank(ClassifyRisk(q)) >= Rank(ClassifyRisk(p))
    BY <1>1, <2>1, <2>2, <2>3, <2>4, RankAtLeast
  <2> QED
    BY <2>5 DEF q
<1>3. ASSUME NEW worse \in Scores, worse > p.score
      PROVE  Rank(ClassifyRisk([p EXCEPT !.score = worse])) >= Rank(ClassifyRisk(p))
  <2> DEFINE q == [p EXCEPT !.score = worse]
  <2>1. q.type = p.type /\ q.score = worse /\ q.marks = p.marks
    BY DEF Proposals
  <2> HIDE DEF q
  <2>2. worse \in Int
    BY RiskAssumption
  <2>3. /\ MatchesBlock(p) => MatchesBlock(q)
        /\ MatchesConfirm(p) => MatchesConfirm(q)
        /\ MatchesNotify(p) => MatchesNotify(q)
    BY <2>1 DEF MatchesBlock, MatchesConfirm, MatchesNotify
  <2>4. Rank(ClassifyRisk(q)) >= Rank(ClassifyRisk(p))
    BY <1>1, <1>3, <2>1, <2>2, <2>3, RankAtLeast
  <2> QED
    BY <2>4 DEF q
<1> QED
  BY <1>2, <1>3 DEF MoreEvidence

(* The planner's table, the barrier's and the classifier's, side by side.   *)
LEMMA Meeting ==
  ASSUME NEW p \in Proposals
  PROVE  RatingsMeet(p)
<1>1. p.type \in VALID_ACTION_TYPES
  BY DEF Proposals
<1>2. ASSUME ACTION_RISK_DEFAULTS[p.type] = "CONFIRM"
      PROVE  IsRealWorld(p) \/ ClassifyRisk(p) \in {"CONFIRM", "BLOCK"}
  <2>1. p.type \in {"run_command", "install_package", "submit_form", "send_message", "make_call"}
    BY <1>1, <1>2 DEF ACTION_RISK_DEFAULTS
  <2>2. CASE p.type \in {"run_command", "install_package"}
    BY <2>2 DEF MatchesConfirm, ClassifyRisk
  <2>3. CASE p.type \in {"submit_form", "send_message", "make_call"}
    BY <2>3 DEF IsRealWorld, REAL_WORLD_TYPES
  <2>4. \A n \in 0..100 : n \in Int
    OBVIOUS
  <2> QED
    BY <2>1, <2>2, <2>3, <2>4, Zenon
<1>3. ASSUME ClassifyRisk([p EXCEPT !.marks = {}, !.score = NoScore]) = "CONFIRM"
      PROVE  ACTION_RISK_DEFAULTS[p.type] = "CONFIRM"
  <2> DEFINE q == [p EXCEPT !.marks = {}, !.score = NoScore]
  <2>1. q.type = p.type /\ q.marks = {} /\ q.score = -1
    BY DEF Proposals, NoScore
  <2> HIDE DEF q
  <2>2. ClassifyRisk(q) = "CONFIRM"
    BY <1>3 DEF q
  <2>3. MatchesConfirm(q)
    BY <2>1, <2>2 DEF ClassifyRisk, MatchesBlock
  <2>4. p.type \in {"run_command", "install_package"}
    BY <1>1, <2>1, <2>3 DEF MatchesConfirm, VALID_ACTION_TYPES
  <2> QED
    BY <1>1, <2>4 DEF ACTION_RISK_DEFAULTS
<1> QED
  BY <1>2, <1>3 DEF RatingsMeet

(* A denied text is denied by a second list, too, each form by its own.    *)
LEMMA Backing ==
  ASSUME NEW a \in ToolActions
  PROVE  DenialBackedUp(a)
BY Zenon DEF DenialBackedUp, Allowed, Validated, IsSafe, Forbidden, Denied, Begins, Ends, BeginsPrinted

-----------------------------------------------------------------------------
(* Planners.                                                               *)

(* All of the known items of an answer and no other, in their order.       *)
LEMMA KnownInOrder ==
  ASSUME NEW items \in Seq(Items)
  PROVE  /\ \A n \in 1..Len(items) :
              (\E k \in 1..Len(KnownOf(items)) : KnownOf(items)[k] = FromAnswer(n)) <=> items[n] = "known"
         /\ \A k, m \in 1..Len(KnownOf(items)) : k < m => KnownOf(items)[k].item < KnownOf(items)[m].item
<1> DEFINE known == {n \in 1..Len(items) : items[n] = "known"}
           c == Cardinality(known)
           plan == [k \in 1..c |-> FromAnswer(Nth(known, k))]
<1>1. Len(items) \in Nat /\ known \in SUBSET (1..Len(items))
  OBVIOUS
<1>2. \A n \in 1..Len(items) : n \in known <=> items[n] = "known"
  OBVIOUS
<1> HIDE DEF known
<1>3. /\ c \in Nat
      /\ \A k \in 1..c : /\ Nth(known, k) \in known
                         /\ \A m \in 1..c : k < m => Nth(known, k) < Nth(known, m)
      /\ \A i \in known : \E k \in 1..c : Nth(known, k) = i
  BY <1>1, NthInOrder
<1> HIDE DEF c
<1>4. /\ plan \in [1..c -> {FromAnswer(Nth(known, k)) : k \in 1..c}]
      /\ \A k \in 1..c : plan[k] = FromAnswer(Nth(known, k))
  OBVIOUS
<1> HIDE DEF plan
<1>5. Len(plan) = c
  BY <1>3, <1>4
<1>6. KnownOf(items) = plan
  BY DEF KnownOf, known, c, plan
<1>7. \A n, m : FromAnswer(n) = FromAnswer(m) => n = m
  BY DEF FromAnswer
<1>8. \A n : FromAnswer(n).item = n
  BY DEF FromAnswer
<1>9. \A n \in 1..Len(items) : (\E k \in 1..c : plan[k] = FromAnswer(n)) <=> items[n] = "known"
  BY <1>2, <1>3, <1>4, <1>7
<1>10. \A k, m \in 1..c : k < m => plan[k].item < plan[m].item
  BY <1>3, <1>4, <1>8
<1> QED
  BY <1>5, <1>6, <1>9, <1>10

(* Whatever comes of the call, each planner has the whole answer or a stub.*)
LEMMA PlanOfWhole ==
  ASSUME NEW planning \in Plannings
  PROVE  WholeOrStub(planning)
<1> DEFINE answer == planning.answer
<1>1. planning.request \in Requests /\ planning.call \in Calls /\ answer \in Answers
  BY DEF Plannings
<1>2. answer.items \in Seq(Items)
  <2>1. CASE answer.items \in SeqOf(Items, MaxItems)
    BY <2>1, PlannersAssumption, ListUpTo
  <2>2. CASE answer.items \in {<<item>> : item \in Items}
    <3>1. PICK item \in Items : answer.items = <<item>>
      BY <2>2
    <3>2. <<item>> \in Seq(Items)
      OBVIOUS
    <3> QED
      BY <3>1, <3>2
  <2> QED
    BY <1>1, <2>1, <2>2 DEF Answers
<1> SUFFICES ASSUME NEW backend \in Backends
             PROVE  LET plan == Plan(backend, planning.request, planning.call, answer)
                    IN  \/ /\ planning.call = "answered" /\ Readable(ItemsOf(backend, answer))
                           /\ \A n \in 1..Len(answer.items) :
                                (\E k \in 1..Len(plan) : plan[k] = FromAnswer(n)) <=>
                                  /\ n \in 1..Len(ItemsOf(backend, answer))
                                  /\ answer.items[n] = "known"
                           /\ \A k, m \in 1..Len(plan) : k < m => plan[k].item < plan[m].item
                        \/ plan = << >>
                        \/ plan = <<LaunchNamed>> /\ planning.request # "anything else"
  BY DEF WholeOrStub
<1> DEFINE items == ItemsOf(backend, answer)
           plan == Plan(backend, planning.request, planning.call, answer)
<1>3. items = answer.items \/ items = << >>
  BY <1>1 DEF ItemsOf, Answers
<1>4. KnownOf(<< >>) = << >>
  <2> DEFINE known == {n \in 1..Len(<< >>) : << >>[n] = "known"}
  <2>1. known = {}
    OBVIOUS
  <2>2. Cardinality(known) = 0
    BY <2>1, FS_EmptySet
  <2> QED
    BY <2>2 DEF KnownOf
<1>5. StubPlan(backend, planning.request) = << >>
        \/ (StubPlan(backend, planning.request) = <<LaunchNamed>> /\ planning.request # "anything else")
  BY DEF StubPlan
<1>6. \/ plan = << >> \/ plan = StubPlan(backend, planning.request)
      \/ planning.call = "answered" /\ Readable(items) /\ plan = KnownOf(items)
  BY <1>1 DEF Plan, Parse, Calls
<1>7. ASSUME planning.call = "answered", Readable(items), plan = KnownOf(items), items = answer.items
      PROVE  /\ \A n \in 1..Len(answer.items) :
                  (\E k \in 1..Len(plan) : plan[k] = FromAnswer(n)) <=>
                    /\ n \in 1..Len(items)
                    /\ answer.items[n] = "known"
             /\ \A k, m \in 1..Len(plan) : k < m => plan[k].item < plan[m].item
  BY <1>2, <1>7, KnownInOrder
<1> HIDE DEF answer, items, plan
<1> QED
  BY <1>3, <1>4, <1>5, <1>6, <1>7 DEF answer, items, plan

-----------------------------------------------------------------------------
(* Learning.                                                               *)

(* What the firewall lets through of a list of rows: no blocked row, and   *)
(* every allowed one, no later than where it was.                          *)
LEMMA FilterOfRows ==
  ASSUME NEW rows, Len(rows) \in Nat
  PROVE  /\ Len(FilterForPlanning(rows)) \in Nat
         /\ DOMAIN FilterForPlanning(rows) = 1..Len(FilterForPlanning(rows))
         /\ FilterForPlanning(rows) \in Seq({FilterForPlanning(rows)[k] : k \in 1..Len(FilterForPlanning(rows))})
         /\ \A k \in 1..Len(FilterForPlanning(rows)) : \E n \in 1..Len(rows) :
              /\ Classify(rows[n]) # "block"
              /\ FilterForPlanning(rows)[k] = IF Classify(rows[n]) = "summarize"
                                              THEN [rows[n] EXCEPT !.says = {}] ELSE rows[n]
         /\ \A n \in 1..Len(rows) : Classify(rows[n]) = "allow" =>
              \E k \in 1..Len(FilterForPlanning(rows)) : k <= n /\ FilterForPlanning(rows)[k] = rows[n]
<1> DEFINE open == {n \in 1..Len(rows) : Classify(rows[n]) # "block"}
           safe == AtPlaces(rows, open)
           c == Cardinality(open)
           out == [n \in 1..c |-> IF Classify(safe[n]) = "summarize" THEN [safe[n] EXCEPT !.says = {}] ELSE safe[n]]
<1>1. open \in SUBSET (1..Len(rows))
  OBVIOUS
<1>2. \A n \in 1..Len(rows) : n \in open <=> Classify(rows[n]) # "block"
  OBVIOUS
<1> HIDE DEF open
<1>3. /\ c \in Nat /\ Len(safe) = c
      /\ \A k \in 1..c : Nth(open, k) \in open /\ safe[k] = rows[Nth(open, k)]
  BY <1>1, AtPlacesOf
<1>4. ASSUME NEW i \in open
      PROVE  \E k \in 1..c : Nth(open, k) = i /\ k <= i
  <2>1. \A k \in 1..c : k <= Nth(open, k)
    BY <1>1, NthInOrder
  <2>2. \E k \in 1..c : Nth(open, k) = i
    BY <1>1, NthInOrder
  <2> QED
    BY <2>1, <2>2
<1>5. FilterForPlanning(rows) = out
  BY <1>3 DEF FilterForPlanning, open
<1> HIDE DEF safe, c
<1>6. /\ out \in [1..c -> {out[k] : k \in 1..c}]
      /\ \A k \in 1..c : out[k] = IF Classify(safe[k]) = "summarize" THEN [safe[k] EXCEPT !.says = {}] ELSE safe[k]
  OBVIOUS
<1> HIDE DEF out
<1>7. Len(out) = c /\ DOMAIN out = 1..c /\ out \in Seq({out[k] : k \in 1..c})
  BY <1>3, <1>6
<1>8. ASSUME NEW k \in 1..c
      PROVE  \E n \in 1..Len(rows) :
               /\ Classify(rows[n]) # "block"
               /\ out[k] = IF Classify(rows[n]) = "summarize" THEN [rows[n] EXCEPT !.says = {}] ELSE rows[n]
  BY <1>1, <1>2, <1>3, <1>6
<1>9. ASSUME NEW n \in 1..Len(rows), Classify(rows[n]) = "allow"
      PROVE  \E k \in 1..c : k <= n /\ out[k] = rows[n]
  <2>1. PICK k \in 1..c : Nth(open, k) = n /\ k <= n
    BY <1>2, <1>4, <1>9
  <2>2. safe[k] = rows[n]
    BY <1>3, <2>1
  <2> QED
    BY <1>6, <1>9, <2>1, <2>2
<1> QED
  BY <1>3, <1>5, <1>7, <1>8, <1>9

(* A text is a list of pieces.                                             *)
LEMMA TextListed ==
  ASSUME NEW lesson \in Lessons
  PROVE  lesson.text \in Seq(Pieces) /\ Len(lesson.text) \in Nat
<1>1. PICK text \in SeqOf(Pieces, MaxPieces) :
        lesson \in [text : {text}, trigger : BOOLEAN, cut : Cuts(text), type : {"launch_app", "run_command"}]
  BY DEF Lessons
<1>2. lesson.text = text
  BY <1>1
<1>3. MaxPieces \in Nat
  BY LearningAssumption
<1> QED
  BY <1>1, <1>2, <1>3, ListUpTo

(* Without a quote nothing is removed, so that a text without one is       *)
(* stored in all its words.                                                *)
LEMMA UnquotedStored ==
  ASSUME NEW lesson, Len(lesson.text) \in Nat, lesson.cut = Whole(lesson.text),
         \A i \in 1..Len(lesson.text) : ~lesson.text[i].quoted
  PROVE  ExtractPreference(lesson) = {lesson.text[i].says : i \in 1..Len(lesson.text)}
<1>1. QuotesLeft(lesson.text) = {}
  BY DEF QuotesLeft
<1>2. \A i : QuotesBefore(lesson.text, i) = {}
  BY <1>1 DEF QuotesBefore
<1>3. \A i : ~Removed(lesson.text, i)
  BY <1>1, <1>2 DEF Removed
<1>4. lesson.cut.kept = Len(lesson.text) /\ lesson.cut.word = "none"
  BY DEF Whole
<1>5. StillReadable(lesson) = 1..Len(lesson.text)
  BY <1>3, <1>4 DEF StillReadable
<1>6. ~QuoteStays(lesson)
  <2>1. Cardinality({}) = 0
    BY FS_EmptySet
  <2> QED
    BY <1>1, <2>1 DEF QuoteStays, Odd
<1> QED
  BY <1>4, <1>5, <1>6 DEF ExtractPreference, Kinds

(* A list of two.                                                          *)
LEMMA PairListed ==
  ASSUME NEW x, NEW y
  PROVE  /\ Len(<<x, y>>) \in Nat /\ 1 \in 1..Len(<<x, y>>) /\ <<x, y>>[1] = x
         /\ \A n \in 1..Len(<<x, y>>) : <<x, y>>[n] = x \/ <<x, y>>[n] = y
<1>1. Len(<<x, y>>) = 2
  OBVIOUS
<1>2. <<x, y>>[1] = x /\ <<x, y>>[2] = y
  OBVIOUS
<1>3. \A n \in 1..2 : n = 1 \/ n = 2
  OBVIOUS
<1> QED
  BY <1>1, <1>2, <1>3

(* The row of a preference that is safe to learn is allowed.               *)
LEMMA SafeComesBack ==
  ASSUME NEW lesson \in Lessons
  PROVE  PreferenceComesBack(lesson)
<1> DEFINE rows == RecordSuccess(lesson)
           words == {lesson.text[i].says : i \in 1..Len(lesson.text)}
<1> SUFFICES ASSUME IsSafeForLearning(lesson), lesson.trigger, lesson.cut = Whole(lesson.text),
                    \A i \in 1..Len(lesson.text) : lesson.text[i].says # "blocked phrase"
             PROVE  \E row \in Range(FilterForPlanning(rows)) : row.source = "cognitive" /\ row.says = words
  BY DEF PreferenceComesBack
<1>1. lesson.text \in Seq(Pieces) /\ Len(lesson.text) \in Nat
  BY TextListed
<1>2. \A i \in 1..Len(lesson.text) : ~lesson.text[i].quoted /\ lesson.text[i].says # "known command"
  BY DEF IsSafeForLearning, CommandFound
<1>3. ExtractPreference(lesson) = words
  BY <1>1, <1>2, UnquotedStored
<1>4. words \cap {"blocked phrase", "known command", "back quote"} = {}
  <2>1. \A i \in 1..Len(lesson.text) : lesson.text[i].says \in Kinds
    <3> SUFFICES ASSUME NEW i \in 1..Len(lesson.text)
                 PROVE  lesson.text[i].says \in Kinds
      OBVIOUS
    <3>1. lesson.text[i] \in Pieces
      BY <1>1, ElementOfSeq
    <3> HIDE DEF Kinds
    <3> QED
      BY <3>1 DEF Pieces
  <2> QED
    BY <1>2, <2>1 DEF Kinds
<1> HIDE DEF words
<1>5. rows = <<Preference(lesson), TypeRow>>
  BY DEF RecordSuccess, FirewallSet
<1> HIDE DEF rows
<1>6. Len(rows) \in Nat /\ 1 \in 1..Len(rows) /\ rows[1] = Preference(lesson)
  BY <1>5, PairListed, Zenon
<1>7. /\ Preference(lesson).source = "cognitive" /\ Preference(lesson).says = words
      /\ Preference(lesson).approved = TRUE
  BY <1>3, Zenon DEF Preference
<1>8. Classify(rows[1]) = "allow"
  BY <1>4, <1>6, <1>7 DEF Classify
<1> DEFINE out == FilterForPlanning(rows)
<1>9. /\ DOMAIN out = 1..Len(out)
      /\ \A n \in 1..Len(rows) : Classify(rows[n]) = "allow" => \E k \in 1..Len(out) : out[k] = rows[n]
  BY <1>6, FilterOfRows
<1> HIDE DEF out
<1>10. PICK k \in DOMAIN out : out[k] = rows[1]
  BY <1>6, <1>8, <1>9, Zenon
<1>11. out[k] \in Range(out)
  BY Zenon DEF Range
<1> QED
  BY <1>6, <1>7, <1>10, <1>11, Zenon DEF out

Sides == {"opening", "closing"}

Quoted(text) == {j \in 1..Len(text) : text[j].quoted}

Eaten(text) == {j \in 1..Len(text) : text[j].quoted /\ text[j].path # "none"}

(* Two quotes each.                                                        *)
LEMMA Pairs ==
  ASSUME NEW S, IsFiniteSet(S)
  PROVE  /\ IsFiniteSet(S \X Sides) /\ Cardinality(S) \in Nat
         /\ Cardinality(S \X Sides) = 2 * Cardinality(S)
<1>1. IsFiniteSet({"opening"}) /\ Cardinality({"opening"}) = 1
  BY FS_Singleton
<1>2. Sides = {"opening"} \cup {"closing"} /\ "closing" \notin {"opening"}
  BY DEF Sides
<1>3. IsFiniteSet(Sides) /\ Cardinality(Sides) = 2
  BY <1>1, <1>2, FS_AddElement
<1>4. /\ IsFiniteSet(S \X Sides) /\ Cardinality(S) \in Nat
      /\ Cardinality(S \X Sides) = Cardinality(S) * Cardinality(Sides)
  BY <1>3, FS_Product, FS_CardinalityType
<1> QED
  BY <1>3, <1>4

(* If no closing quote is eaten, a quoted word is behind its own opening   *)
(* quote and whole pairs, and in front of its closing one.                 *)
LEMMA NoneEaten ==
  ASSUME NEW text, Len(text) \in Nat, NEW i \in Quoted(text), Eaten(text) = {}
  PROVE  Removed(text, i)
<1> DEFINE earlier == {j \in Quoted(text) : j < i}
<1>1. i \in 1..Len(text) /\ \A j \in Quoted(text) : j \in 1..Len(text) /\ j \in Int
  BY DEF Quoted
<1>2. IsFiniteSet(earlier)
  <2>1. IsFiniteSet(1..Len(text))
    BY FS_Interval
  <2>2. earlier \in SUBSET (1..Len(text))
    BY <1>1
  <2> QED
    BY <2>1, <2>2, FS_Subset
<1>3. QuotesLeft(text) = Quoted(text) \X Sides
  <2>1. \A q \in (1..Len(text)) \X Sides : text[q[1]].quoted => text[q[1]].path = "none"
    BY DEF Eaten
  <2> QED
    BY <2>1, Zenon DEF QuotesLeft, Quoted, Sides
<1>4. QuotesBefore(text, i) = (earlier \X Sides) \cup {<<i, "opening">>}
  <2>1. <<i, "opening">> \in Quoted(text) \X Sides
    BY DEF Sides
  <2> QED
    BY <1>1, <1>3, <2>1 DEF QuotesBefore
<1>5. <<i, "opening">> \notin earlier \X Sides
  BY <1>1
<1>6. /\ Cardinality(earlier) \in Nat /\ IsFiniteSet(earlier \X Sides)
      /\ Cardinality(earlier \X Sides) = 2 * Cardinality(earlier)
  BY <1>2, Pairs
<1>7. <<i, "closing">> \in QuotesLeft(text) /\ <<i, "closing">> \notin QuotesBefore(text, i)
  <2>1. <<i, "closing">> \in Quoted(text) \X Sides
    BY DEF Sides
  <2> QED
    BY <1>1, <1>3, <2>1 DEF QuotesBefore
<1> HIDE DEF earlier
<1>8. Cardinality(QuotesBefore(text, i)) = 2 * Cardinality(earlier) + 1
  <2> DEFINE whole == earlier \X Sides
             own == <<i, "opening">>
  <2>1. /\ IsFiniteSet(whole) /\ own \notin whole /\ QuotesBefore(text, i) = whole \cup {own}
        /\ Cardinality(whole) = 2 * Cardinality(earlier)
    BY <1>4, <1>5, <1>6
  <2> HIDE DEF whole, own
  <2>2. Cardinality(whole \cup {own}) = Cardinality(whole) + 1
    BY <2>1, FS_AddElement, Zenon
  <2> QED
    BY <2>1, <2>2
<1>9. \A n \in Nat : (2 * n + 1) % 2 = 1
  OBVIOUS
<1>10. Odd(QuotesBefore(text, i))
  BY <1>6, <1>8, <1>9 DEF Odd
<1> QED
  BY <1>7, <1>10 DEF Removed

(* If one is, a quote is left over.                                        *)
LEMMA OneEaten ==
  ASSUME NEW text, Len(text) \in Nat, NEW e, Eaten(text) = {e}
  PROVE  Odd(QuotesLeft(text))
<1>1. e \in Quoted(text) /\ \A j \in Quoted(text) : j = e <=> text[j].path # "none"
  BY DEF Eaten, Quoted
<1>2. IsFiniteSet(Quoted(text))
  <2>1. IsFiniteSet(1..Len(text))
    BY FS_Interval
  <2>2. Quoted(text) \in SUBSET (1..Len(text))
    BY DEF Quoted
  <2> QED
    BY <2>1, <2>2, FS_Subset
<1>3. QuotesLeft(text) = (Quoted(text) \X Sides) \ {<<e, "closing">>}
  <2>1. QuotesLeft(text) = {q \in Quoted(text) \X Sides : q[2] = "closing" => text[q[1]].path = "none"}
    BY Zenon DEF QuotesLeft, Quoted, Sides
  <2>2. \A q \in Quoted(text) \X Sides : q = <<q[1], q[2]>> /\ q[1] \in Quoted(text)
    OBVIOUS
  <2>3. \A q \in Quoted(text) \X Sides : (q[2] = "closing" => text[q[1]].path = "none") <=> q # <<e, "closing">>
    BY <1>1, <2>2
  <2> QED
    BY <2>1, <2>3, Zenon
<1>4. <<e, "closing">> \in Quoted(text) \X Sides
  BY <1>1 DEF Sides
<1>5. /\ Cardinality(Quoted(text)) \in Nat /\ IsFiniteSet(Quoted(text) \X Sides)
      /\ Cardinality(Quoted(text) \X Sides) = 2 * Cardinality(Quoted(text))
  BY <1>2, Pairs
<1>6. Cardinality(QuotesLeft(text)) = 2 * Cardinality(Quoted(text)) - 1
  <2> DEFINE whole == Quoted(text) \X Sides
             gone == <<e, "closing">>
  <2>1. /\ IsFiniteSet(whole) /\ gone \in whole /\ QuotesLeft(text) = whole \ {gone}
        /\ Cardinality(whole) = 2 * Cardinality(Quoted(text))
    BY <1>3, <1>4, <1>5
  <2> HIDE DEF whole, gone
  <2>2. Cardinality(whole \ {gone}) = Cardinality(whole) - 1
    BY <2>1, FS_RemoveElement, Zenon
  <2> QED
    BY <2>1, <2>2
<1>7. \A n \in Nat : (2 * n - 1) % 2 = 1
  OBVIOUS
<1> QED
  BY <1>5, <1>6, <1>7 DEF Odd

(* A row in the prompt that memory stored of a text has no quote left.     *)
LEMMA NoQuoteLeft ==
  ASSUME NEW lesson, lesson.trigger,
         Preference(lesson) \in Range(FilterForPlanning(RecordSuccess(lesson)))
  PROVE  "back quote" \notin ExtractPreference(lesson)
<1> DEFINE rows == RecordSuccess(lesson)
           out == FilterForPlanning(rows)
<1>1. rows = <<Preference(lesson), TypeRow>>
  BY DEF RecordSuccess, FirewallSet
<1> HIDE DEF rows
<1>2. Len(rows) \in Nat /\ \A n \in 1..Len(rows) : rows[n] = Preference(lesson) \/ rows[n] = TypeRow
  <2> DEFINE x == Preference(lesson)
             y == TypeRow
  <2>1. rows = <<x, y>>
    BY <1>1
  <2> HIDE DEF x, y
  <2>2. Len(<<x, y>>) \in Nat /\ \A n \in 1..Len(<<x, y>>) : <<x, y>>[n] = x \/ <<x, y>>[n] = y
    BY PairListed
  <2>3. Len(rows) \in Nat /\ \A n \in 1..Len(rows) : rows[n] = x \/ rows[n] = y
    BY <2>1, <2>2, Zenon
  <2> QED
    BY <2>3 DEF x, y
<1>3. PICK k \in DOMAIN out : Preference(lesson) = out[k]
  BY Zenon DEF Range, rows
<1>4. DOMAIN out = 1..Len(out)
  BY <1>2, FilterOfRows
<1>5. PICK n \in 1..Len(rows) :
        /\ Classify(rows[n]) # "block"
        /\ out[k] = IF Classify(rows[n]) = "summarize" THEN [rows[n] EXCEPT !.says = {}] ELSE rows[n]
  BY <1>2, <1>4, FilterOfRows
<1> HIDE DEF out
<1>6. Preference(lesson).source = "cognitive" /\ Preference(lesson).says = ExtractPreference(lesson)
  BY Zenon DEF Preference
<1>7. rows[n].source = out[k].source
  <2>1. [rows[n] EXCEPT !.says = {}].source = rows[n].source
    <3>1. CASE rows[n] = Preference(lesson)
      BY <3>1, Zenon DEF Preference
    <3>2. CASE rows[n] = TypeRow
      BY <3>2, Zenon DEF TypeRow
    <3> QED
      BY <1>2, <3>1, <3>2, Zenon
  <2> QED
    BY <1>5, <2>1, Zenon
<1>8. TypeRow.source = "operational"
  BY Zenon DEF TypeRow
<1>9. rows[n] = Preference(lesson)
  BY <1>2, <1>3, <1>6, <1>7, <1>8, Zenon
<1>10. Classify(Preference(lesson)) # "block"
  BY <1>5, <1>9, Zenon
<1> QED
  BY <1>6, <1>10 DEF Classify

(* A quoted word stays readable only where two closing quotes were eaten,  *)
(* or one and what is left over is behind the cut.                         *)
LEMMA QuotedRemoved ==
  ASSUME NEW lesson \in Lessons
  PROVE  QuotedStaysOut(lesson)
<1> DEFINE text == lesson.text
<1>1. Len(text) \in Nat
  BY TextListed
<1> SUFFICES ASSUME NEW i \in StillReadable(lesson), lesson.trigger, text[i].quoted,
                    Preference(lesson) \in Range(FilterForPlanning(RecordSuccess(lesson)))
             PROVE  Cardinality(Eaten(text)) >= IF lesson.cut = Whole(text) THEN 2 ELSE 1
  BY DEF QuotedStaysOut, Eaten
<1>2. i \in Quoted(text) /\ ~Removed(text, i)
  BY DEF StillReadable, Quoted
<1>3. IsFiniteSet(Eaten(text)) /\ Cardinality(Eaten(text)) \in Nat
  <2>1. IsFiniteSet(1..Len(text))
    BY <1>1, FS_Interval
  <2>2. Eaten(text) \in SUBSET (1..Len(text))
    BY DEF Eaten
  <2>3. IsFiniteSet(Eaten(text))
    BY <2>1, <2>2, FS_Subset
  <2> QED
    BY <2>3, FS_CardinalityType
<1>4. Cardinality(Eaten(text)) # 0
  BY <1>1, <1>2, <1>3, FS_EmptySet, NoneEaten
<1>5. ASSUME lesson.cut = Whole(text), Cardinality(Eaten(text)) = 1
      PROVE  FALSE
  <2>1. PICK e : Eaten(text) = {e}
    BY <1>3, <1>5, FS_Singleton
  <2>2. Odd(QuotesLeft(text))
    BY <1>1, <2>1, OneEaten
  <2>3. lesson.cut.kept = Len(text)
    BY <1>5 DEF Whole
  <2>4. QuotesLeft(text) \subseteq QuotesBefore(text, Len(text) + 1)
    BY <1>1 DEF QuotesLeft, QuotesBefore
  <2>5. QuoteStays(lesson)
    BY <2>2, <2>3, <2>4 DEF QuoteStays
  <2>6. "back quote" \in ExtractPreference(lesson)
    BY <2>5, Zenon DEF ExtractPreference
  <2> QED
    BY <2>6, NoQuoteLeft
<1> QED
  BY <1>3, <1>4, <1>5

(* The first rows of a list.                                               *)
LEMMA FirstRows ==
  ASSUME NEW T, NEW rows \in Seq(T), NEW limit \in Nat
  PROVE  /\ FirstOf(rows, limit) \in Seq(T)
         /\ Len(FirstOf(rows, limit)) = IF limit < Len(rows) THEN limit ELSE Len(rows)
         /\ \A n \in 1..Len(FirstOf(rows, limit)) : FirstOf(rows, limit)[n] = rows[n]
BY DEF FirstOf

(* Those before a row that is in a set of places are one fewer than those  *)
(* up to it.                                                               *)
LEMMA UpToOneMore ==
  ASSUME NEW len \in Nat, NEW places \in SUBSET (1..len), NEW i \in places
  PROVE  Cardinality(UpTo(places, i)) = Cardinality({j \in places : j < i}) + 1
<1> DEFINE fewer == {j \in places : j < i}
<1>1. \A j \in places : j \in Int /\ i \in Int
  OBVIOUS
<1>2. IsFiniteSet(places) /\ fewer \in SUBSET places
  BY FinitePlaces
<1>3. IsFiniteSet(fewer)
  BY <1>2, FS_Subset
<1>4. \A j \in places : j <= i <=> j < i \/ j = i
  BY <1>1
<1>5. UpTo(places, i) = fewer \cup {i}
  BY <1>4 DEF UpTo
<1>6. i \notin fewer
  BY <1>1
<1> HIDE DEF fewer
<1> QED
  BY <1>3, <1>5, <1>6, FS_AddElement DEF fewer

(* Along the three caps: an allowed row among the first of the query is    *)
(* counted off no later than PromptLimit in what is relevant, and a filter *)
(* only moves it to the front.                                             *)
LEMMA AllowedStays ==
  ASSUME NEW rows \in Histories
  PROVE  PreferenceStays(rows)
<1>1. rows \in Seq(HeldRows) /\ Len(rows) \in Nat
  BY LearningAssumption, ListUpTo DEF Histories
<1>2. QueryLimit \in Nat /\ RelevantLimit \in Nat /\ PromptLimit \in Nat /\ PromptLimit <= RelevantLimit
  BY LearningAssumption
<1> SUFFICES ASSUME NEW n \in 1..Len(rows), Classify(rows[n]) = "allow", n <= QueryLimit,
                    Cardinality(OfInterest(FirstOf(rows, n - 1))) < PromptLimit
             PROVE  rows[n] \in Range(PromptRows(rows))
  BY DEF PreferenceStays
<1> DEFINE newest == FirstOf(rows, QueryLimit)
           places == OfInterest(newest)
           found == AtPlaces(newest, places)
           given == FirstOf(found, RelevantLimit)
           open == FilterForPlanning(given)
           k == Cardinality(UpTo(places, n))
<1>3. /\ newest \in Seq(HeldRows) /\ Len(newest) \in Nat /\ n \in 1..Len(newest)
      /\ Len(newest) <= Len(rows)
      /\ \A i \in 1..Len(newest) : newest[i] = rows[i]
  BY <1>1, <1>2, FirstRows
<1> HIDE DEF newest
<1>4. places \in SUBSET (1..Len(newest))
  BY DEF OfInterest
<1>5. n \in places
  <2>1. rows[n] \in HeldRows
    BY <1>1
  <2>2. rows[n].source # "operational"
    BY DEF Classify
  <2>3. rows[n].source = "cognitive"
    BY <2>1, <2>2 DEF HeldRows
  <2> QED
    BY <1>3, <2>3 DEF OfInterest
<1>6. {j \in places : j < n} = OfInterest(FirstOf(rows, n - 1))
  <2> DEFINE earlier == FirstOf(rows, n - 1)
  <2>1. Len(earlier) = n - 1 /\ \A i \in 1..Len(earlier) : earlier[i] = rows[i]
    BY <1>1, FirstRows
  <2> HIDE DEF earlier
  <2>2. \A i \in Int : i \in 1..Len(earlier) <=> i \in 1..Len(newest) /\ i < n
    BY <1>3, <2>1
  <2>3. \A i \in 1..Len(earlier) : i \in 1..Len(newest) /\ newest[i] = earlier[i]
    BY <1>3, <2>1, <2>2
  <2> QED
    BY <1>3, <2>2, <2>3 DEF OfInterest, earlier
<1>7. k \in 1..PromptLimit
  <2>1. k \in 1..Cardinality(places) /\ Cardinality(places) \in Nat
    BY <1>3, <1>4, <1>5, UpToGrows, FinitePlaces
  <2>2. k = Cardinality(OfInterest(FirstOf(rows, n - 1))) + 1
    BY <1>3, <1>4, <1>5, <1>6, UpToOneMore
  <2> HIDE DEF k
  <2>3. Cardinality(OfInterest(FirstOf(rows, n - 1))) \in Int
    <3>1. IsFiniteSet(places) /\ OfInterest(FirstOf(rows, n - 1)) \in SUBSET places
      BY <1>3, <1>4, <1>6, FinitePlaces
    <3>2. IsFiniteSet(OfInterest(FirstOf(rows, n - 1)))
      BY <3>1, FS_Subset
    <3> QED
      BY <3>2, FS_CardinalityType
  <2> QED
    BY <1>2, <2>1, <2>2, <2>3
<1>8. /\ found \in Seq(HeldRows) /\ Len(found) = Cardinality(places) /\ Cardinality(places) \in Nat
      /\ k \in 1..Len(found) /\ found[k] = rows[n]
  <2>1. /\ Cardinality(places) \in Nat /\ Len(found) = Cardinality(places)
        /\ DOMAIN found = 1..Cardinality(places)
        /\ \A i \in 1..Cardinality(places) : Nth(places, i) \in places /\ found[i] = newest[Nth(places, i)]
    BY <1>3, <1>4, AtPlacesOf
  <2>2. found \in [1..Cardinality(places) -> HeldRows]
    <3>1. \A i \in 1..Cardinality(places) : found[i] \in HeldRows
      BY <1>3, <1>4, <2>1
    <3>2. found = [i \in 1..Cardinality(places) |-> newest[Nth(places, i)]]
      BY DEF AtPlaces
    <3> QED
      BY <2>1, <3>1, <3>2
  <2>3. k \in 1..Cardinality(places) /\ Nth(places, k) = n
    BY <1>3, <1>4, <1>5, UpToGrows, NthInOrder
  <2> HIDE DEF k, found, places
  <2> QED
    BY <1>3, <2>1, <2>2, <2>3
<1> HIDE DEF k, found, places
<1>9. /\ given \in Seq(HeldRows) /\ Len(given) \in Nat
      /\ k \in 1..Len(given) /\ given[k] = rows[n]
  BY <1>2, <1>7, <1>8, FirstRows
<1> HIDE DEF given
<1>10. PICK m \in 1..Len(open) : m <= k /\ open[m] = rows[n]
  <2>1. Classify(given[k]) = "allow"
    BY <1>9, Zenon
  <2>2. \E m \in 1..Len(open) : m <= k /\ open[m] = given[k]
    BY <1>9, <2>1, FilterOfRows
  <2> QED
    BY <1>9, <2>2
<1>11. Len(open) \in Nat /\ open \in Seq({open[i] : i \in 1..Len(open)})
  BY <1>9, FilterOfRows
<1>12. PromptRows(rows) = FirstOf(open, PromptLimit)
  BY DEF PromptRows, GetRelevant, given, found, places, newest
<1> HIDE DEF open
<1>13. m \in 1..Len(FirstOf(open, PromptLimit)) /\ FirstOf(open, PromptLimit)[m] = rows[n]
  <2>1. /\ Len(FirstOf(open, PromptLimit)) = IF PromptLimit < Len(open) THEN PromptLimit ELSE Len(open)
        /\ \A i \in 1..Len(FirstOf(open, PromptLimit)) : FirstOf(open, PromptLimit)[i] = open[i]
    BY <1>2, <1>11, FirstRows
  <2>2. m <= PromptLimit
    BY <1>2, <1>7, <1>10, <1>11
  <2>3. m \in 1..Len(FirstOf(open, PromptLimit))
    BY <1>2, <1>10, <1>11, <2>1, <2>2
  <2> QED
    BY <1>10, <2>1, <2>3
<1>14. FirstOf(open, PromptLimit) \in Seq({open[i] : i \in 1..Len(open)})
  BY <1>2, <1>11, FirstRows
<1> QED
  BY <1>12, <1>13, <1>14 DEF Range

-----------------------------------------------------------------------------
(* What is judged.                                                         *)

(* What is judged is what it is said to be.                                *)
Judged == subject.kind \in SubjectKinds => subject.is \in Subjects(subject.kind)

LEMMA JudgedInvariant == Spec => []Judged
<1>1. Init => Judged
  <2>1. Init => subject.kind = "none"
    BY DEF Init, RulesInit
  <2>2. "none" \notin SubjectKinds
    BY DEF SubjectKinds
  <2> QED
    BY <2>1, <2>2, Zenon DEF Judged
<1>2. ASSUME Judged, [Next]_vars
      PROVE  Judged'
  <2>1. CASE Judge
    <3>1. PICK kind \in SubjectKinds : \E s \in Subjects(kind) : subject' = [kind |-> kind, is |-> s]
      BY <2>1, Zenon DEF Judge
    <3>2. PICK s \in Subjects(kind) : subject' = [kind |-> kind, is |-> s]
      BY <3>1, Zenon
    <3>3. subject'.kind = kind /\ subject'.is = s
      BY <3>2
    <3> QED
      BY <3>3, Zenon DEF Judged
  <2>2. CASE UNCHANGED subject
    BY <1>2, <2>2, Zenon DEF Judged
  <2> QED
    BY <1>2, <2>1, <2>2 DEF Next, vars
<1> QED
  BY <1>1, <1>2, PTL DEF Spec

(* The kinds one by one.                                                   *)
LEMMA JudgedKinds ==
  ASSUME Judged
  PROVE  /\ subject.kind = "proposal" => subject.is \in Proposals
         /\ subject.kind = "tool action" => subject.is \in ToolActions
         /\ subject.kind = "lesson" => subject.is \in Lessons
         /\ subject.kind = "history" => subject.is \in Histories
         /\ subject.kind = "planning" => subject.is \in Plannings
BY DEF Judged, Subjects, SubjectKinds

(* More evidence never lowers the gate's level, whatever the scores.       *)
THEOREM NeverLowered == Spec => []MoreEvidenceNoLowerRisk
<1>1. Judged => MoreEvidenceNoLowerRisk
  BY JudgedKinds, Evidence DEF MoreEvidenceNoLowerRisk
<1> QED
  BY <1>1, JudgedInvariant, PTL

(* What the planner rates CONFIRM comes to a prompt, or is blocked.        *)
THEOREM ReachesUser == Spec => []RatedConfirmReachesUser
<1>1. Judged => RatedConfirmReachesUser
  BY JudgedKinds, Meeting DEF RatedConfirmReachesUser
<1> QED
  BY <1>1, JudgedInvariant, PTL

(* No denial of the policy engine stands alone but for a word boundary.    *)
THEOREM NeverAlone == Spec => []DenialsBackedUp
<1>1. Judged => DenialsBackedUp
  BY JudgedKinds, Backing DEF DenialsBackedUp
<1> QED
  BY <1>1, JudgedInvariant, PTL

(* Texts of any length: what is quoted stays out of later prompts unless   *)
(* two paths ate closing quotes, or one in a text that was cut.            *)
THEOREM NothingQuoted == Spec => []QuotesStayOut
<1>1. Judged => QuotesStayOut
  BY JudgedKinds, QuotedRemoved DEF QuotesStayOut
<1> QED
  BY <1>1, JudgedInvariant, PTL

(* A preference that is safe to learn is let into a later prompt, and for  *)
(* any caps and any history stays there until they push it out.            *)
THEOREM NotInVain == Spec => []PreferencesComeBack
<1>1. Judged => PreferencesComeBack
  BY JudgedKinds, SafeComesBack, AllowedStays DEF PreferencesComeBack
<1> QED
  BY <1>1, JudgedInvariant, PTL

(* However long an answer is, each planner's plan is made of the whole of  *)
(* it or of the request alone.                                             *)
THEOREM NeverHalf == Spec => []PlansWholeOrStub
<1>1. Judged => PlansWholeOrStub
  BY JudgedKinds, PlanOfWhole DEF PlansWholeOrStub
<1> QED
  BY <1>1, JudgedInvariant, PTL

-----------------------------------------------------------------------------
(* The configuration. *)

USE RestoreAssumption

(* Why a restore can be undone: while the files are copied, those that are *)
(* done have their content of the start in the backup; after a whole copy  *)
(* all have, and what restore_from_backup() has done has it again.         *)
BackupHolds ==
  LET there == Existing(kept.config)
  IN  /\ call.phase = "backing up" =>
           /\ config = kept.config /\ ~kept.whole
           /\ \A f \in there \ call.left : backup[f] = kept.config[f]
      /\ kept.whole => \A f \in there : backup[f] = kept.config[f]
      /\ kept.whole /\ call.phase \in {"restoring", "restored"} =>
           \A f \in there : f \in call.left \/ config[f] = kept.config[f]
      /\ call.phase = "restored" => call.left = {}

LEMMA RestoreTypes ==
  ASSUME RestoreTypeOK, RestoreNext
  PROVE  RestoreTypeOK'
<1>1. /\ 1 \in 0..MaxVersion /\ Idle \in [phase : Phases, left : SUBSET Files]
      /\ \A dir : Existing(dir) \subseteq Files
  BY DEF Idle, Phases, Existing
<1>2. /\ config \in Contents /\ backup \in Contents /\ calls \in 0..MaxCalls
      /\ call \in [phase : Phases, left : SUBSET Files]
      /\ kept \in [config : Contents, whole : BOOLEAN]
  BY DEF RestoreTypeOK
<1>3. calls < MaxCalls => calls + 1 \in 0..MaxCalls
  BY <1>2
<1>4. ASSUME NEW f \in Files, NEW version \in 0..MaxVersion, Edit(f, version)
      PROVE  RestoreTypeOK'
  BY <1>1, <1>2, <1>3, <1>4 DEF Edit, Between, RestoreTypeOK, Contents
<1>5. ASSUME NEW f \in Files, BackUpFile(f)
      PROVE  RestoreTypeOK'
  BY <1>2, <1>5 DEF BackUpFile, Copied, RestoreTypeOK, Contents
<1>6. ASSUME NEW f \in Files, UndoFile(f)
      PROVE  RestoreTypeOK'
  BY <1>1, <1>2, <1>6 DEF UndoFile, RestoreTypeOK, Contents
<1>7. ASSUME NEW f \in Files, RestoreFile(f)
      PROVE  RestoreTypeOK'
  BY <1>2, <1>7 DEF RestoreFile, RestoreTypeOK, Contents
<1>8. CASE Restore
  BY <1>1, <1>2, <1>3, <1>8 DEF Restore, Between, RestoreTypeOK, Phases
<1>9. CASE BackedUp
  BY <1>2, <1>9 DEF BackedUp, RestoreTypeOK, Phases
<1>10. CASE UndoEnds
  BY <1>1, <1>2, <1>10 DEF UndoEnds, RestoreTypeOK
<1>11. CASE RestoreFromBackup
  BY <1>1, <1>2, <1>3, <1>11 DEF RestoreFromBackup, Between, RestoreTypeOK, Phases
<1>12. CASE Restored
  BY <1>1, <1>2, <1>12 DEF Restored, RestoreTypeOK, Phases
<1> QED
  BY <1>4, <1>5, <1>6, <1>7, <1>8, <1>9, <1>10, <1>11, <1>12 DEF RestoreNext

LEMMA BackupInductive ==
  ASSUME RestoreTypeOK, BackupHolds, RestoreNext
  PROVE  BackupHolds'
<1>1. /\ config \in Contents /\ backup \in Contents
      /\ call \in [phase : Phases, left : SUBSET Files]
      /\ kept \in [config : Contents, whole : BOOLEAN]
  BY DEF RestoreTypeOK
<1>2. ASSUME NEW f \in Files, NEW version \in 0..MaxVersion, Edit(f, version)
      PROVE  BackupHolds'
  BY <1>1, <1>2 DEF Edit, Idle, BackupHolds
<1>3. ASSUME NEW f \in Files, BackUpFile(f)
      PROVE  BackupHolds'
  <2>1. /\ call.phase = "backing up" /\ config = kept.config /\ ~kept.whole
        /\ backup' = [backup EXCEPT ![f] = config[f]]
        /\ call'.phase = "backing up" /\ call'.left = call.left \ {f}
        /\ UNCHANGED <<config, kept>>
    BY <1>1, <1>3 DEF BackUpFile, Copied, BackupHolds
  <2>2. \A g \in Existing(kept.config) \ call'.left : backup'[g] = kept.config[g]
    BY <1>1, <2>1 DEF BackupHolds, Contents, Existing
  <2> QED
    BY <2>1, <2>2 DEF BackupHolds
<1>4. ASSUME NEW f \in Files, UndoFile(f)
      PROVE  BackupHolds'
  <2>1. call.phase = "undoing" /\ call'.phase = "undoing" /\ UNCHANGED <<backup, kept>>
    BY <1>1, <1>4 DEF UndoFile
  <2> QED
    BY <2>1 DEF BackupHolds
<1>5. ASSUME NEW f \in Files, RestoreFile(f)
      PROVE  BackupHolds'
  <2>1. /\ call.phase = "restoring" /\ call'.phase = "restoring" /\ call'.left = call.left \ {f}
        /\ config' = [config EXCEPT ![f] = backup[f]] /\ UNCHANGED <<backup, kept>>
    BY <1>1, <1>5 DEF RestoreFile
  <2>2. kept.whole => \A g \in Existing(kept.config) : g \in call'.left \/ config'[g] = kept.config[g]
    BY <1>1, <2>1 DEF BackupHolds, Contents, Existing
  <2> QED
    BY <2>1, <2>2 DEF BackupHolds
<1>6. CASE Restore
  <2>1. /\ call'.phase = "backing up" /\ call'.left = Existing(config)
        /\ kept'.config = config /\ kept'.whole = FALSE /\ config' = config
    BY <1>6 DEF Restore
  <2> QED
    BY <2>1 DEF BackupHolds
<1>7. CASE BackedUp
  <2>1. /\ call.phase = "backing up" /\ call'.phase = "undoing"
        /\ kept'.config = kept.config /\ kept'.whole = (call.left = {}) /\ backup' = backup
    BY <1>1, <1>7 DEF BackedUp
  <2>2. kept'.whole => \A f \in Existing(kept.config) : backup[f] = kept.config[f]
    BY <2>1 DEF BackupHolds
  <2> QED
    BY <2>1, <2>2 DEF BackupHolds
<1>8. CASE UndoEnds
  BY <1>1, <1>8 DEF UndoEnds, Idle, BackupHolds
<1>9. CASE RestoreFromBackup
  <2>1. /\ call'.phase = "restoring" /\ call'.left = Existing(backup) /\ UNCHANGED <<config, backup, kept>>
    BY <1>9 DEF RestoreFromBackup
  <2>2. kept.whole => \A f \in Existing(kept.config) : f \in Existing(backup)
    BY DEF BackupHolds, Existing
  <2> QED
    BY <2>1, <2>2 DEF BackupHolds
<1>10. CASE Restored
  <2>1. /\ call.phase = "restoring" /\ UNCHANGED <<config, backup, kept>>
        /\ \/ call.left = {} /\ call'.phase = "restored" /\ call'.left = {}
           \/ call'.phase = "idle"
    BY <1>10 DEF Restored, Idle
  <2> QED
    BY <2>1 DEF BackupHolds
<1> QED
  BY <1>2, <1>3, <1>4, <1>5, <1>6, <1>7, <1>8, <1>9, <1>10 DEF RestoreNext

(* What restore_from_snapshot() overwrote is there again after             *)
(* restore_from_backup(): after edits, half a restore and older backups,   *)
(* unless an error had ended the copy that was made first.                 *)
THEOREM RestoreTakenBack == Spec => []RestoreUndoable
<1>1. Init => RestoreTypeOK /\ BackupHolds
  <2> SUFFICES ASSUME Init
               PROVE  RestoreTypeOK /\ BackupHolds
    OBVIOUS
  <2>1. RestoreInit
    BY DEF Init
  <2>2. config \in Contents /\ backup \in Contents /\ calls \in 0..MaxCalls
    BY <2>1 DEF RestoreInit, Contents
  <2>3. call.phase = "idle" /\ call \in [phase : Phases, left : SUBSET Files]
    BY <2>1 DEF RestoreInit, Idle, Phases
  <2>4. kept \in [config : Contents, whole : BOOLEAN] /\ kept.whole = FALSE
    BY <2>1, <2>2 DEF RestoreInit
  <2> QED
    BY <2>2, <2>3, <2>4 DEF RestoreTypeOK, BackupHolds
<1>2. RestoreTypeOK /\ BackupHolds /\ [Next]_vars => RestoreTypeOK' /\ BackupHolds'
  <2> SUFFICES ASSUME RestoreTypeOK, BackupHolds, [Next]_vars
               PROVE  RestoreTypeOK' /\ BackupHolds'
    OBVIOUS
  <2>1. CASE RestoreNext
    BY <2>1, RestoreTypes, BackupInductive
  <2>2. CASE UNCHANGED restoreVars
    BY <2>2 DEF restoreVars, RestoreTypeOK, BackupHolds
  <2> QED
    BY <2>1, <2>2 DEF Next, vars
<1>3. BackupHolds => RestoreUndoable
  BY DEF BackupHolds, RestoreUndoable
<1> QED
  BY <1>1, <1>2, <1>3, PTL DEF Spec

-----------------------------------------------------------------------------
(* The snapshots. *)

Ended(c) == take[c] \in {"returned", "acted"}

(* Numbers and processes: a snapshot is made once, for one command, and    *)
(* its number is the one take() returns, if it returns one.                *)
Numbered ==
  /\ \A c \in Commands :
       /\ made[c] \in 0..Len(snapshots)
       /\ num[c] # 0 => num[c] = made[c] /\ ~runs[c] /\ Ended(c)
       /\ take[c] = "idle" => made[c] = 0 /\ ~runs[c]
       /\ runs[c] => made[c] = 0
       /\ c \notin before[c] /\ \A d \in before[c] : Ended(d)
  /\ \A c, d \in Commands : made[c] = made[d] /\ made[c] # 0 => c = d

(* A snapshot shows none but commands that have acted, and not the one it  *)
(* was returned to.                                                        *)
Shows ==
  /\ \A c \in system : take[c] = "acted"
  /\ \A n \in 1..Len(snapshots) : \A c \in snapshots[n] : take[c] = "acted" /\ num[c] # n
  /\ roll.performed => boot \in 1..Len(snapshots) /\ (boot # roll.target => boot \in late)
  /\ roll.ok => roll.performed
  /\ roll.at = "running" => roll.target # 0
  /\ 0 \notin strays

(* Once a later take() has returned its number, last has moved on for good.*)
MovedOn ==
  \A c, d \in Commands : d \in before[c] /\ num[c] # 0 /\ num[d] # 0 => last # num[d]

SnapshotsSafe == SnapshotsTypeOK /\ Numbered /\ Shows /\ MovedOn

LEMMA SnapshotAdded ==
  ASSUME NEW s \in Seq(SUBSET Commands), NEW e \in SUBSET Commands
  PROVE  /\ Append(s, e) \in Seq(SUBSET Commands)
         /\ Len(s) \in Nat /\ Len(Append(s, e)) = Len(s) + 1
         /\ \A n \in 1..Len(s) : Append(s, e)[n] = s[n]
         /\ Append(s, e)[Len(s) + 1] = e
<1>1. Append(s, e) \in Seq(SUBSET Commands)
  BY AppendProperties
<1>2. Len(s) \in Nat
  BY LenProperties
<1>3. Len(Append(s, e)) = Len(s) + 1
  BY AppendProperties
<1>4. \A n \in 1..Len(s) : Append(s, e)[n] = s[n]
  BY AppendProperties
<1>5. Append(s, e)[Len(s) + 1] = e
  BY AppendProperties
<1> QED
  BY <1>1, <1>2, <1>3, <1>4, <1>5, Zenon

Rolls ==
  [at : {"none", "running", "returned"}, target : Nat, performed : BOOLEAN, ok : BOOLEAN]

LEMMA SnapshotTypes ==
  ASSUME SnapshotsTypeOK
  PROVE  /\ snapshots \in Seq(SUBSET Commands) /\ Len(snapshots) \in Nat
         /\ \A n \in 1..Len(snapshots) : snapshots[n] \subseteq Commands
         /\ take \in [Commands -> {"idle", "waiting", "returned", "acted"}]
         /\ num \in [Commands -> 0..Len(snapshots)] /\ made \in [Commands -> 0..Len(snapshots)]
         /\ runs \in [Commands -> BOOLEAN] /\ before \in [Commands -> SUBSET Commands]
         /\ last \in 0..Len(snapshots) /\ system \subseteq Commands
         /\ roll \in Rolls /\ strays \subseteq Nat /\ rollbacks \in 0..MaxRollbacks
         /\ boot \in 0..Len(snapshots) /\ late \subseteq Nat
<1>1. snapshots \in Seq(SUBSET Commands)
  BY DEF SnapshotsTypeOK
<1>2. Len(snapshots) \in Nat /\ \A n \in 1..Len(snapshots) : snapshots[n] \subseteq Commands
  BY <1>1, LenProperties, ElementOfSeq
<1> QED
  BY <1>1, <1>2 DEF SnapshotsTypeOK, Numbers, Rolls

(* take(), up to where snapper makes the snapshot.                         *)
LEMMA CallTakeSafe ==
  ASSUME SnapshotsSafe, NEW c \in Commands, CallTake(c)
  PROVE  SnapshotsSafe'
<1>1. /\ take[c] = "idle" /\ take'[c] \in {"waiting", "returned"}
      /\ before'[c] = {d \in Commands : take[d] \in {"returned", "acted"}}
      /\ take' \in [Commands -> {"idle", "waiting", "returned", "acted"}]
      /\ runs' \in [Commands -> BOOLEAN] /\ before' \in [Commands -> SUBSET Commands]
      /\ \A d \in Commands \ {c} : take'[d] = take[d] /\ runs'[d] = runs[d] /\ before'[d] = before[d]
      /\ UNCHANGED <<enabled, last, num, made, snapshots, system, rollVars>>
  BY SnapshotTypes DEF SnapshotsSafe, CallTake
<1>2. /\ made[c] = 0 /\ num[c] = 0 /\ ~runs[c]
  BY <1>1 DEF SnapshotsSafe, Numbered, Ended
<1>3. SnapshotsTypeOK'
  BY <1>1 DEF SnapshotsSafe, SnapshotsTypeOK, Numbers, rollVars
<1>4. Numbered'
  BY <1>1, <1>2 DEF SnapshotsSafe, Numbered, Ended
<1>5. Shows'
  <2>1. \A d \in Commands : take[d] = "acted" => take'[d] = "acted"
    BY <1>1
  <2>2. system \subseteq Commands /\ \A n \in 1..Len(snapshots) : snapshots[n] \subseteq Commands
    BY SnapshotTypes DEF SnapshotsSafe
  <2> QED
    BY <1>1, <2>1, <2>2 DEF SnapshotsSafe, Shows, rollVars
<1>6. MovedOn'
  BY <1>1, <1>2 DEF SnapshotsSafe, MovedOn
<1> QED
  BY <1>3, <1>4, <1>5, <1>6 DEF SnapshotsSafe

LEMMA MakeSafe ==
  ASSUME SnapshotsSafe, NEW c \in Commands, Make(c)
  PROVE  SnapshotsSafe'
<1> DEFINE L == Len(snapshots)
<1>1. /\ snapshots' \in Seq(SUBSET Commands) /\ L \in Nat /\ Len(snapshots') = L + 1
      /\ \A n \in 1..L : snapshots'[n] = snapshots[n]
      /\ snapshots'[L + 1] = system
  BY SnapshotTypes, SnapshotAdded DEF SnapshotsSafe, Make
<1>2. /\ runs[c] /\ runs' = [runs EXCEPT ![c] = FALSE] /\ made' = [made EXCEPT ![c] = L + 1]
      /\ UNCHANGED <<enabled, last, take, num, before, system, rollVars>>
  BY <1>1 DEF Make
<1>3. made[c] = 0 /\ num[c] = 0
  BY <1>2 DEF SnapshotsSafe, Numbered
<1>4. \A n \in 0..L : n \in 0..(L + 1)
  BY <1>1
<1>5. L + 1 \in 0..(L + 1)
  BY <1>1
<1>6. SnapshotsTypeOK'
  <2>1. num' \in [Commands -> 0..(L + 1)] /\ made' \in [Commands -> 0..(L + 1)]
    BY <1>2, <1>4, <1>5, SnapshotTypes DEF SnapshotsSafe
  <2>2. runs' \in [Commands -> BOOLEAN] /\ last' \in 0..(L + 1) /\ boot' \in 0..(L + 1)
    BY <1>2, <1>4, SnapshotTypes DEF SnapshotsSafe, rollVars
  <2> QED
    BY <1>1, <1>2, <2>1, <2>2 DEF SnapshotsSafe, SnapshotsTypeOK, Numbers, rollVars
<1>7. Numbered'
  <2>1. \A d \in Commands \ {c} : made'[d] = made[d] /\ runs'[d] = runs[d] /\ made[d] \in 0..L
    BY <1>2, SnapshotTypes DEF SnapshotsSafe
  <2>2. made'[c] = L + 1 /\ ~runs'[c]
    BY <1>2, SnapshotTypes DEF SnapshotsSafe
  <2>3. \A d \in Commands : made'[d] \in 0..(L + 1)
    BY <1>4, <1>5, <2>1, <2>2
  <2>4. \A n \in 0..L : n # L + 1
    BY <1>1
  <2>5. \A d, e \in Commands : made'[d] = made'[e] /\ made'[d] # 0 => d = e
    BY <2>1, <2>2, <2>4 DEF SnapshotsSafe, Numbered
  <2>6. take[c] # "idle"
    BY <1>2 DEF SnapshotsSafe, Numbered
  <2> QED
    BY <1>1, <1>2, <1>3, <2>1, <2>2, <2>3, <2>5, <2>6 DEF SnapshotsSafe, Numbered, Ended
<1>8. Shows'
  <2>1. \A n \in 1..(L + 1) : n \in 1..L \/ n = L + 1
    BY <1>1
  <2>2. \A d \in Commands : num[d] # L + 1
    BY <1>1, SnapshotTypes DEF SnapshotsSafe
  <2>3. \A d \in system : d \in Commands /\ take[d] = "acted"
    BY SnapshotTypes DEF SnapshotsSafe, Shows
  <2>4. \A n \in 1..(L + 1) : \A d \in snapshots'[n] : take[d] = "acted" /\ num[d] # n
    BY <1>1, <2>1, <2>2, <2>3 DEF SnapshotsSafe, Shows
  <2>7. (roll.at = "running" => roll.target # 0) /\ 0 \notin strays
    BY DEF SnapshotsSafe, Shows
  <2>5. roll.performed => boot \in 1..(L + 1) /\ (boot # roll.target => boot \in late)
    <3>1. \A n \in 1..L : n \in 1..(L + 1)
      BY <1>1
    <3> QED
      BY <1>1, <3>1 DEF SnapshotsSafe, Shows
  <2>6. roll.ok => roll.performed
    BY DEF SnapshotsSafe, Shows
  <2> QED
    BY <1>1, <1>2, <2>3, <2>4, <2>5, <2>6, <2>7 DEF Shows, rollVars
<1>9. MovedOn'
  BY <1>2 DEF SnapshotsSafe, MovedOn
<1> QED
  BY <1>6, <1>7, <1>8, <1>9 DEF SnapshotsSafe

LEMMA ResumeSafe ==
  ASSUME SnapshotsSafe, NEW c \in Commands, Resume(c)
  PROVE  SnapshotsSafe'
<1>1. /\ take[c] = "waiting" /\ ~runs[c]
      /\ take' = [take EXCEPT ![c] = "returned"] /\ num' = [num EXCEPT ![c] = made[c]]
      /\ last' = IF made[c] = 0 THEN last ELSE made[c]
      /\ UNCHANGED <<enabled, runs, made, snapshots, before, system, rollVars>>
  BY DEF Resume, Taken
<1>2. /\ take'[c] = "returned" /\ num'[c] = made[c]
      /\ \A d \in Commands \ {c} : take'[d] = take[d] /\ num'[d] = num[d]
  BY <1>1, SnapshotTypes DEF SnapshotsSafe
<1>3. SnapshotsTypeOK'
  BY <1>1 DEF SnapshotsSafe, SnapshotsTypeOK, Numbers, rollVars
<1>4. Numbered'
  BY <1>1, <1>2 DEF SnapshotsSafe, Numbered, Ended
<1>5. Shows'
  <2>1. \A n \in 1..Len(snapshots) : \A d \in snapshots[n] : d \in Commands /\ take[d] = "acted" /\ num[d] # n
    BY SnapshotTypes DEF SnapshotsSafe, Shows
  <2>2. \A d \in system : d \in Commands /\ take[d] = "acted"
    BY SnapshotTypes DEF SnapshotsSafe, Shows
  <2>3. \A d \in Commands : take[d] = "acted" => d # c /\ take'[d] = "acted" /\ num'[d] = num[d]
    BY <1>1, <1>2
  <2> QED
    BY <1>1, <2>1, <2>2, <2>3 DEF SnapshotsSafe, Shows, rollVars
<1>6. MovedOn'
  <2> SUFFICES ASSUME NEW d \in Commands, NEW e \in Commands,
                      e \in before[d], num'[d] # 0, num'[e] # 0
               PROVE  last' # num'[e]
    BY <1>1 DEF MovedOn
  <2>1. Ended(e) /\ e # d
    BY DEF SnapshotsSafe, Numbered
  <2>2. e # c
    BY <1>1, <2>1 DEF Ended
  <2>3. num'[e] = num[e] /\ num[e] = made[e]
    BY <1>2, <2>2 DEF SnapshotsSafe, Numbered
  <2>4. CASE made[c] # 0
    <3>1. last' = made[c] /\ made[c] # made[e]
      BY <1>1, <2>2, <2>4 DEF SnapshotsSafe, Numbered
    <3> QED
      BY <2>3, <3>1
  <2>5. CASE made[c] = 0
    <3>1. d # c /\ num'[d] = num[d] /\ last' = last
      BY <1>1, <1>2, <2>5
    <3> QED
      BY <2>3, <3>1 DEF SnapshotsSafe, MovedOn
  <2> QED
    BY <2>4, <2>5
<1> QED
  BY <1>3, <1>4, <1>5, <1>6 DEF SnapshotsSafe

LEMMA MakeFailsSafe ==
  ASSUME SnapshotsSafe, NEW c \in Commands, MakeFails(c)
  PROVE  SnapshotsSafe'
<1>1. /\ runs' = [runs EXCEPT ![c] = FALSE] /\ runs[c]
      /\ UNCHANGED <<enabled, last, take, num, made, snapshots, before, system, rollVars>>
  BY DEF MakeFails
<1>2. SnapshotsTypeOK'
  BY <1>1 DEF SnapshotsSafe, SnapshotsTypeOK, Numbers, rollVars
<1>3. \A d \in Commands : runs'[d] => runs[d]
  BY <1>1, SnapshotTypes DEF SnapshotsSafe
<1>4. Numbered'
  BY <1>1, <1>3 DEF SnapshotsSafe, Numbered, Ended
<1>5. Shows' /\ MovedOn'
  BY <1>1 DEF SnapshotsSafe, Shows, MovedOn, rollVars
<1> QED
  BY <1>2, <1>4, <1>5 DEF SnapshotsSafe

(* take() gives up, or the command acts.                                   *)
LEMMA StageSafe ==
  ASSUME SnapshotsSafe, NEW c \in Commands, GiveUp(c) \/ Act(c)
  PROVE  SnapshotsSafe'
<1>1. /\ take[c] \in {"waiting", "returned"} /\ take'[c] \in {"returned", "acted"}
      /\ take[c] = "returned" => take'[c] = "acted"
      /\ take' \in [Commands -> {"idle", "waiting", "returned", "acted"}]
      /\ \A d \in Commands \ {c} : take'[d] = take[d]
      /\ UNCHANGED <<enabled, last, num, runs, made, snapshots, before, rollVars>>
      /\ system' = system \/ (take'[c] = "acted" /\ system' = system \cup {c})
  BY SnapshotTypes DEF SnapshotsSafe, GiveUp, Act, MayAct
<1>2. SnapshotsTypeOK'
  <2>1. system' \subseteq Commands
    BY <1>1, SnapshotTypes DEF SnapshotsSafe
  <2> QED
    BY <1>1, <2>1 DEF SnapshotsSafe, SnapshotsTypeOK, Numbers, rollVars
<1>3. Numbered'
  <2>1. \A d \in Commands : before[d] \subseteq Commands
    BY SnapshotTypes DEF SnapshotsSafe
  <2>2. \A d \in Commands : (Ended(d) => Ended(d)') /\ (take'[d] = "idle" => take[d] = "idle")
    BY <1>1 DEF Ended
  <2> QED
    BY <1>1, <2>1, <2>2 DEF SnapshotsSafe, Numbered
<1>4. Shows'
  <2>1. \A d \in Commands : take[d] = "acted" => take'[d] = "acted"
    BY <1>1
  <2>2. system \subseteq Commands /\ \A n \in 1..Len(snapshots) : snapshots[n] \subseteq Commands
    BY SnapshotTypes DEF SnapshotsSafe
  <2>3. \A d \in system' : take'[d] = "acted"
    BY <1>1, <2>1, <2>2 DEF SnapshotsSafe, Shows
  <2> QED
    BY <1>1, <2>1, <2>2, <2>3 DEF SnapshotsSafe, Shows, rollVars
<1>5. MovedOn'
  BY <1>1 DEF SnapshotsSafe, MovedOn
<1> QED
  BY <1>2, <1>3, <1>4, <1>5 DEF SnapshotsSafe

(* rollback() touches none of what take() keeps, and not the system.       *)
LEMMA RollSafe ==
  ASSUME SnapshotsSafe, UNCHANGED <<enabled, takeVars, system>>,
         roll' \in Rolls, strays' \subseteq Nat, late' \subseteq Nat, rollbacks' \in 0..MaxRollbacks,
         boot' \in 0..Len(snapshots),
         roll'.performed => boot' \in 1..Len(snapshots) /\ (boot' # roll'.target => boot' \in late'),
         roll'.ok => roll'.performed, roll'.at = "running" => roll'.target # 0, 0 \notin strays'
  PROVE  SnapshotsSafe'
<1>1. UNCHANGED <<enabled, last, take, num, runs, made, snapshots, before, system>>
  BY DEF takeVars
<1>2. SnapshotsTypeOK'
  BY <1>1 DEF SnapshotsSafe, SnapshotsTypeOK, Numbers, Rolls
<1>3. Numbered' /\ MovedOn'
  BY <1>1 DEF SnapshotsSafe, Numbered, Ended, MovedOn
<1>4. Shows'
  BY <1>1 DEF SnapshotsSafe, Shows
<1> QED
  BY <1>2, <1>3, <1>4 DEF SnapshotsSafe

LEMMA SnapshotsInductive ==
  ASSUME SnapshotsSafe, SnapshotsNext
  PROVE  SnapshotsSafe'
<1>1. /\ roll \in Rolls /\ strays \subseteq Nat /\ rollbacks \in 0..MaxRollbacks
      /\ Len(snapshots) \in Nat /\ last \in Nat
      /\ boot \in 0..Len(snapshots) /\ late \subseteq Nat
  BY SnapshotTypes DEF SnapshotsSafe
<1>2. /\ roll.performed => boot \in 1..Len(snapshots) /\ (boot # roll.target => boot \in late)
      /\ roll.ok => roll.performed
      /\ roll.at = "running" => roll.target # 0
      /\ 0 \notin strays
  BY DEF SnapshotsSafe, Shows
<1>3. ASSUME NEW c \in Commands,
             CallTake(c) \/ Make(c) \/ MakeFails(c) \/ Resume(c) \/ GiveUp(c) \/ Act(c)
      PROVE  SnapshotsSafe'
  BY <1>3, CallTakeSafe, MakeSafe, MakeFailsSafe, ResumeSafe, StageSafe
<1>4. ASSUME NEW n \in 0..(Len(snapshots) + 1), CallRollback(n)
      PROVE  SnapshotsSafe'
  <2> DEFINE target == IF n # 0 THEN n ELSE last
  <2>1. target \in Nat
    BY <1>1
  <2>2. /\ roll' = [at |-> IF target = 0 THEN "returned" ELSE "running", target |-> target,
                    performed |-> FALSE, ok |-> FALSE]
        /\ rollbacks < MaxRollbacks /\ rollbacks' = rollbacks + 1
        /\ UNCHANGED <<enabled, takeVars, system, strays, boot, late>>
    BY <1>4 DEF CallRollback
  <2> HIDE DEF target
  <2>3. /\ roll' \in Rolls /\ roll'.performed = FALSE /\ roll'.ok = FALSE
        /\ roll'.at = "running" => roll'.target # 0
    BY <2>1, <2>2 DEF Rolls
  <2>4. rollbacks' \in 0..MaxRollbacks
    BY <1>1, <2>2, SnapshotsAssumption
  <2> QED
    BY <1>1, <1>2, <2>2, <2>3, <2>4, RollSafe
<1>5. CASE RollBack
  <2>1. /\ roll.at = "running" /\ roll.target <= Len(snapshots) /\ boot' = roll.target
        /\ roll' = [roll EXCEPT !.performed = TRUE] /\ late' = {}
        /\ UNCHANGED <<enabled, takeVars, system, strays, rollbacks>>
    BY <1>5 DEF RollBack
  <2>2. roll.target \in 1..Len(snapshots)
    BY <1>1, <1>2, <2>1 DEF Rolls
  <2>3. roll' \in Rolls /\ roll'.target = roll.target /\ roll'.performed
    BY <1>1, <2>1 DEF Rolls
  <2>4. boot' \in 0..Len(snapshots) /\ boot' \in 1..Len(snapshots) /\ boot' = roll'.target
    BY <1>1, <2>1, <2>2, <2>3
  <2>5. roll'.at = "running" => roll'.target # 0
    BY <1>2, <2>1, <2>3
  <2> QED
    BY <1>1, <1>2, <2>1, <2>3, <2>4, <2>5, RollSafe
<1>6. ASSUME NEW n \in strays, RollBackStray(n)
      PROVE  SnapshotsSafe'
  <2>1. /\ n <= Len(snapshots) /\ boot' = n /\ strays' \subseteq strays /\ late' = late \cup {n}
        /\ UNCHANGED <<enabled, takeVars, system, roll, rollbacks>>
    BY <1>1, <1>6 DEF RollBackStray
  <2>2. n \in Nat /\ n \in 1..Len(snapshots) /\ n \in 0..Len(snapshots)
    BY <1>1, <1>2, <2>1
  <2>3. late' \subseteq Nat /\ boot' \in late'
    BY <1>1, <2>1, <2>2
  <2> QED
    BY <1>1, <1>2, <2>1, <2>2, <2>3, RollSafe
<1>7. CASE EndRollback
  <2>1. /\ roll' = [roll EXCEPT !.at = "returned", !.ok = roll.performed]
        /\ UNCHANGED <<enabled, takeVars, system, strays, boot, rollbacks, late>>
    BY <1>7 DEF EndRollback, Succeeded
  <2>2. /\ roll' \in Rolls /\ roll'.target = roll.target
        /\ roll'.performed = roll.performed /\ roll'.ok = roll.performed /\ roll'.at = "returned"
    BY <1>1, <2>1 DEF Rolls
  <2> QED
    BY <1>1, <1>2, <2>1, <2>2, RollSafe
<1>8. CASE GiveUpRollback
  <2>1. /\ roll.at = "running" /\ roll' = [roll EXCEPT !.at = "returned"] /\ strays' \subseteq strays \cup {roll.target}
        /\ UNCHANGED <<enabled, takeVars, system, boot, rollbacks, late>>
    BY <1>8 DEF GiveUpRollback
  <2>2. /\ roll' \in Rolls /\ roll'.target = roll.target
        /\ roll'.performed = roll.performed /\ roll'.ok = roll.ok /\ roll.target \in Nat
        /\ roll'.at = "returned"
    BY <1>1, <2>1 DEF Rolls
  <2> QED
    BY <1>1, <1>2, <2>1, <2>2, RollSafe
<1> QED
  BY <1>3, <1>4, <1>5, <1>6, <1>7, <1>8 DEF SnapshotsNext

LEMMA SnapshotsKept == Spec => []SnapshotsSafe
<1>1. Init => SnapshotsSafe
  <2> SUFFICES ASSUME Init
               PROVE  SnapshotsSafe
    OBVIOUS
  <2>1. SnapshotsInit /\ snapshots = << >>
    BY DEF Init, SnapshotsInit
  <2>2. snapshots \in Seq(SUBSET Commands) /\ Len(snapshots) = 0 /\ 0 \in 0..MaxRollbacks
    BY <2>1, EmptySeq, SnapshotsAssumption
  <2>3. SnapshotsTypeOK
    BY <2>1, <2>2 DEF SnapshotsInit, SnapshotsTypeOK, Numbers
  <2>4. Numbered /\ MovedOn
    BY <2>1, <2>2 DEF SnapshotsInit, Numbered, MovedOn
  <2>5. 1..Len(snapshots) = {}
    BY <2>2
  <2>6. Shows
    BY <2>1, <2>5 DEF SnapshotsInit, Shows
  <2> QED
    BY <2>3, <2>4, <2>6 DEF SnapshotsSafe
<1>2. SnapshotsSafe /\ [Next]_vars => SnapshotsSafe'
  <2> SUFFICES ASSUME SnapshotsSafe, [Next]_vars
               PROVE  SnapshotsSafe'
    OBVIOUS
  <2>1. CASE SnapshotsNext
    BY <2>1, SnapshotsInductive
  <2>2. CASE UNCHANGED snapshotVars
    BY <2>2 DEF snapshotVars, takeVars, rollVars, SnapshotsSafe, SnapshotsTypeOK, Numbers, Numbered,
                Ended, Shows, MovedOn
  <2> QED
    BY <2>1, <2>2 DEF Next, vars
<1> QED
  BY <1>1, <1>2, PTL DEF Spec

(* Of two commands that both have a number, the one whose take() began     *)
(* after the other's had ended never has to stand behind it: a rollback    *)
(* without a number takes back the later of them.                          *)
THEOREM LastIsLatest == Spec => []LastNotOvertaken
<1>1. SnapshotsSafe => LastNotOvertaken
  <2> SUFFICES ASSUME SnapshotsSafe, NEW c \in Commands, NEW d \in Commands,
                      last # 0, num[d] = last, num[c] > last, d \in before[c]
               PROVE  FALSE
    BY DEF LastNotOvertaken
  <2>1. num[c] # 0 /\ num[d] # 0
    BY SnapshotTypes DEF SnapshotsSafe
  <2> QED
    BY <2>1 DEF SnapshotsSafe, MovedOn
<1> QED
  BY <1>1, SnapshotsKept, PTL

(* From a True of rollback() on the next boot starts from the snapshot     *)
(* asked for, or from that of a rollback that was given up and performed   *)
(* since, and without the action that snapshot was taken for.              *)
THEOREM RolledBack == Spec => []RollbackUndoes
<1>1. SnapshotsSafe => RollbackUndoes
  <2> SUFFICES ASSUME SnapshotsSafe, roll.ok
               PROVE  /\ boot # roll.target => boot \in late
                      /\ \A c \in Commands : num[c] = boot => c \notin snapshots[boot]
    BY DEF RollbackUndoes
  <2>1. boot \in 1..Len(snapshots) /\ (boot # roll.target => boot \in late)
    BY DEF SnapshotsSafe, Shows
  <2> QED
    BY <2>1 DEF SnapshotsSafe, Shows
<1> QED
  BY <1>1, SnapshotsKept, PTL
=============================================================================
