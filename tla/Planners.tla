------------------------------ MODULE Planners ------------------------------
(***************************************************************************)
(* The three planners: core/planner.py with a model in the process,        *)
(* core/planner_ollama.py with a local server and core/planner_universal.py*)
(* with one of seven services.  Each turns a request into a plan by way of *)
(* a model's answer, and each has a way out when there is none.            *)
(*                                                                         *)
(* A request is told apart by how it begins, an answer by its form and the *)
(* kinds of its items; a plan is the sequence of its actions.              *)
(***************************************************************************)
EXTENDS Places, SequencesExt

CONSTANT MaxItems  \* bound: items of an answer

ASSUME PlannersAssumption == MaxItems \in Nat

Backends == {"llama", "ollama", "universal"}

Requests == {"open an app", "start an app", "anything else"}

(* An item of an answer: an action of a known type, of an unknown one, and *)
(* what is no dictionary or has no usable type.                            *)
Items == {"known", "unknown", "unreadable"}

(* "embedded" is a list with other text around it.                         *)
Answers ==
  [form : {"list", "embedded", "no json"}, items : SeqOf(Items, MaxItems)] \cup
  [form : {"object"}, items : {<<item>> : item \in Items}]

(* What comes of asking for the answer: it; nobody to ask (no model was    *)
(* loaded, the server refuses the connection, no such backend); any other  *)
(* failure or timeout.                                                     *)
Calls == {"answered", "nobody", "failed"}

(* What an action of the plan may be: a known one of the answer, by its    *)
(* place, with its type's default risk; or the start of the app that the   *)
(* request names, which is AUTO.                                           *)
FromAnswer(n) == [item |-> n, launch |-> FALSE]
LaunchNamed == [item |-> 0, launch |-> TRUE]

(* _stub_plan()                                                            *)
StubPlan(backend, request) ==
  IF request = "open an app" \/ (request = "start an app" /\ backend # "llama")
  THEN <<LaunchNamed>> ELSE << >>

(* The items json.loads() gives for an answer; one object stands for a list*)
(* of one.                                                                 *)
ItemsOf(backend, answer) ==
  CASE answer.form \in {"list", "object"} -> answer.items
    [] answer.form = "embedded" -> IF backend = "llama" THEN << >> ELSE answer.items
    [] answer.form = "no json" -> << >>

Readable(items) == "unreadable" \notin Range(items)

(* The known items, in their order.                                        *)
KnownOf(items) ==
  LET known == {n \in 1..Len(items) : items[n] = "known"}
  IN  [k \in 1..Cardinality(known) |-> FromAnswer(Nth(known, k))]

(* Mutant: an unreadable item ends the loop, and what came before is kept. *)
Parse_KeepsPrefix(backend, request, items) ==
  IF Readable(items) THEN KnownOf(items)
  ELSE LET bad == CHOOSE n \in 1..Len(items) : items[n] = "unreadable"
                                              /\ \A m \in 1..(n - 1) : items[m] # "unreadable"
       IN  KnownOf(SubSeq(items, 1, bad - 1))

(* _parse_actions(), _parse(): an unreadable item raises, which plan()     *)
(* catches as it does a failed call.                                       *)
Parse(backend, request, items) ==
  IF Readable(items) THEN KnownOf(items)
  ELSE IF backend = "universal" THEN StubPlan(backend, request) ELSE << >>

(* plan()                                                                  *)
Plan(backend, request, call, answer) ==
  CASE call = "answered" -> Parse(backend, request, ItemsOf(backend, answer))
    [] call = "nobody" -> StubPlan(backend, request)
    [] call = "failed" -> IF backend = "universal" THEN StubPlan(backend, request) ELSE << >>

Plannings == [request : Requests, call : Calls, answer : Answers]

-----------------------------------------------------------------------------

(* Whatever fails and however the answer is broken, a plan is all of the   *)
(* answer's known actions in their order, or at most the start of the app  *)
(* the request itself names: never the first part of an answer that could  *)
(* not be read to its end, and never both.                                 *)
WholeOrStub(planning) ==
  \A backend \in Backends :
    LET plan == Plan(backend, planning.request, planning.call, planning.answer)
    IN  \/ /\ planning.call = "answered" /\ Readable(ItemsOf(backend, planning.answer))
           /\ \A n \in 1..Len(planning.answer.items) :
                (\E k \in 1..Len(plan) : plan[k] = FromAnswer(n)) <=>
                  /\ n \in 1..Len(ItemsOf(backend, planning.answer))
                  /\ planning.answer.items[n] = "known"
           /\ \A k, m \in 1..Len(plan) : k < m => plan[k].item < plan[m].item
        \/ plan = << >>
        \/ plan = <<LaunchNamed>> /\ planning.request # "anything else"
=============================================================================
