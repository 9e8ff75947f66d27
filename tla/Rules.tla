------------------------------- MODULE Rules -------------------------------
(***************************************************************************)
(* The pure decisions of the program, each over every subject its rules    *)
(* tell apart: one subject is judged in a behaviour.                       *)
(***************************************************************************)
EXTENDS RiskPolicy, Learning, Planners

VARIABLE subject

(* What is judged, by its kind.                                            *)
Subjects(kind) ==
  CASE kind = "proposal" -> Proposals
    [] kind = "tool action" -> ToolActions
    [] kind = "lesson" -> Lessons
    [] kind = "history" -> Histories
    [] kind = "planning" -> Plannings

SubjectKinds == {"proposal", "tool action", "lesson", "history", "planning"}

RulesInit == subject = [kind |-> "none"]

(* A subject is judged.                                                    *)
Judge ==
  /\ subject.kind = "none"
  /\ \E kind \in SubjectKinds : \E s \in Subjects(kind) : subject' = [kind |-> kind, is |-> s]

-----------------------------------------------------------------------------

(* The gate's classifier never lowers a level on more evidence: see        *)
(* MoreEvidence.                                                           *)
MoreEvidenceNoLowerRisk == subject.kind = "proposal" => MoreEvidence(subject.is)

(* Whatever the planner rates CONFIRM comes to a prompt of the barrier or  *)
(* the gate, or is blocked: see RatingsMeet.                               *)
RatedConfirmReachesUser == subject.kind = "proposal" => RatingsMeet(subject.is)

(* No denial of the policy engine stands alone, unless a word boundary is  *)
(* missing from the text: see DenialBackedUp.                              *)
DenialsBackedUp == subject.kind = "tool action" => DenialBackedUp(subject.is)

(* Nothing memory learned brings a command the user quoted into a later    *)
(* prompt, but by two paths that end in a back quote, although             *)
(* record_success() asks no firewall: see QuotedStaysOut.                  *)
QuotesStayOut == subject.kind = "lesson" => QuotedStaysOut(subject.is)

(* A preference that is safe to learn is let into a later prompt, and      *)
(* stays there until enough newer rows push it out: see PreferenceStays.   *)
PreferencesComeBack ==
  /\ subject.kind = "lesson" => PreferenceComesBack(subject.is)
  /\ subject.kind = "history" => PreferenceStays(subject.is)

(* A plan is made of a whole answer, or of the request alone: see          *)
(* WholeOrStub.                                                            *)
PlansWholeOrStub == subject.kind = "planning" => WholeOrStub(subject.is)
=============================================================================
