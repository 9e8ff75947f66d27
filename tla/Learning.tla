------------------------------ MODULE Learning ------------------------------
(***************************************************************************)
(* What memory (core/memory.py) stores of a command that succeeded, and    *)
(* what of it the context firewall (core/context_firewall.py) lets back    *)
(* into a planner's prompt.                                                *)
(*                                                                         *)
(* A text is a sequence of pieces with blanks between them: words of some  *)
(* kind and perhaps a path right behind them, in back quotes or not.       *)
(***************************************************************************)
EXTENDS Places, SequencesExt

CONSTANTS
  QueryLimit,     \* rows the query fetches, 50
  RelevantLimit,  \* rows get_relevant() returns, 20
  PromptLimit,    \* rows a planner puts into its prompt, 10 or 8
  MaxRows,        \* bound: rows of a history
  MaxPieces       \* bound: pieces of a text

ASSUME LearningAssumption ==
  /\ {QueryLimit, RelevantLimit, PromptLimit, MaxRows, MaxPieces} \subseteq Nat
  /\ PromptLimit <= RelevantLimit /\ RelevantLimit <= QueryLimit

(* A known command is one that COMMAND_PATTERNS find, or a shell           *)
(* character; they have no word for the other commands, mkfs or shutdown.  *)
Kinds == {"words", "known command", "other command", "blocked phrase"}

(* They find a deep path, of several parts, and a URL, but no shallow path.*)
Pieces == [says : Kinds, quoted : BOOLEAN, path : {"none", "shallow", "deep"}]

(* Where the 200 characters end: with the text, or in the piece after      *)
(* "kept" others, whose word is kept, or cut to other words, or to a       *)
(* command's ("shelf" to "sh").                                            *)
Whole(text) == [kept |-> Len(text), word |-> "none"]

Cuts(text) ==
  {Whole(text)} \cup
  [kept : {k \in 0..Len(text) : k < Len(text)}, word : {"kept", "words", "known command"}]

Lessons ==
  UNION {[text : {text}, trigger : BOOLEAN, cut : Cuts(text), type : {"launch_app", "run_command"}]
         : text \in SeqOf(Pieces, MaxPieces)}

(* COMMAND_PATTERNS, which know the back quote as well.                    *)
CommandFound(text) ==
  \E i \in 1..Len(text) : text[i].quoted \/ text[i].says = "known command" \/ text[i].path = "deep"

(* is_safe_for_learning()                                                  *)
IsSafeForLearning(lesson) ==
  /\ ~CommandFound(lesson.text)
  /\ lesson.type \notin {"run_command", "install_package", "delete_file", "system_config_change"}

(* set_firewall() is called by nobody: memory.py has no firewall to ask.   *)
FirewallSet == FALSE

(* The back quotes that the substitution of paths leaves: it takes all up  *)
(* to the next blank, a closing quote behind the path too.                 *)
QuotesLeft(text) ==
  {q \in (1..Len(text)) \X {"opening", "closing"} :
     text[q[1]].quoted /\ (q[2] = "closing" => text[q[1]].path = "none")}

QuotesBefore(text, i) == {q \in QuotesLeft(text) : q[1] < i \/ q = <<i, "opening">>}

Odd(quotes) == Cardinality(quotes) % 2 = 1

(* The second substitution takes what is between the first quote left and  *)
(* the next, and so on: the word of piece i, if it is behind an odd number *)
(* of quotes and not behind the last one.                                  *)
Removed(text, i) == Odd(QuotesBefore(text, i)) /\ QuotesBefore(text, i) # QuotesLeft(text)

(* What of a text can be read in what is stored.                           *)
StillReadable(lesson) ==
  {i \in 1..Len(lesson.text) :
     ~Removed(lesson.text, i) /\ (i <= lesson.cut.kept \/ (i = lesson.cut.kept + 1 /\ lesson.cut.word = "kept"))}

(* The last of an odd number of quotes stays, if it is before the cut.     *)
QuoteStays(lesson) ==
  LET quotes == QuotesLeft(lesson.text)
      cut == lesson.cut.kept + 1
  IN  Odd(quotes) /\ quotes \subseteq QuotesBefore(lesson.text, cut)

(* What is stored of a text: 200 characters of it after the substitutions. *)
ExtractPreference(lesson) ==
  LET cut == lesson.cut.kept + 1
  IN  {lesson.text[i].says : i \in StillReadable(lesson)}
      \cup (IF lesson.cut.word \in Kinds /\ ~Removed(lesson.text, cut) THEN {lesson.cut.word} ELSE {})
      \cup (IF QuoteStays(lesson) THEN {"back quote"} ELSE {})

Preference(lesson) ==
  [source |-> "cognitive", says |-> ExtractPreference(lesson), approved |-> TRUE, confidence |-> 60]

TypeRow == [source |-> "operational", says |-> {}, approved |-> TRUE, confidence |-> 100]

(* Mutant: a preference waits for an approval that nobody gives.           *)
RecordSuccess_Unapproved(lesson) ==
  IF FirewallSet /\ ~IsSafeForLearning(lesson) THEN << >>
  ELSE IF lesson.trigger THEN <<[Preference(lesson) EXCEPT !.approved = FALSE], TypeRow>>
  ELSE <<TypeRow>>

(* The rows record_success() writes: the preference, if the text has a     *)
(* word that triggers one, and the type of the action.                     *)
RecordSuccess(lesson) ==
  IF FirewallSet /\ ~IsSafeForLearning(lesson) THEN << >>
  ELSE IF lesson.trigger THEN <<Preference(lesson), TypeRow>>
  ELSE <<TypeRow>>

(* _classify()                                                             *)
Classify(row) ==
  CASE "blocked phrase" \in row.says -> "block"
    [] "blocked phrase" \notin row.says /\ row.source = "operational" -> "summarize"
    [] OTHER ->
         IF row.says \cap {"known command", "back quote"} # {} \/ (~row.approved /\ row.confidence < 80)
         THEN "block" ELSE "allow"

(* Mutant: what memory stored is taken to be safe.                         *)
FilterForPlanning_TrustsMemory(rows) == rows

(* The rows filter_for_planning() lets into the prompt; a summary says     *)
(* nothing of the row it stands for.                                       *)
FilterForPlanning(rows) ==
  LET safe == AtPlaces(rows, {n \in 1..Len(rows) : Classify(rows[n]) # "block"})
  IN  [n \in 1..Len(safe) |-> IF Classify(safe[n]) = "summarize"
                              THEN [safe[n] EXCEPT !.says = {}] ELSE safe[n]]

FirstOf(rows, limit) == SubSeq(rows, 1, IF limit < Len(rows) THEN limit ELSE Len(rows))

(* The rows memory may have come to hold, and which of them have a word of *)
(* the query.                                                              *)
HeldRows ==
  [source : {"cognitive"}, says : {{"words"}, {"words", "known command"}},
   approved : {TRUE}, confidence : {60}, relevant : BOOLEAN] \cup
  [source : {"operational"}, says : {{}}, approved : {TRUE}, confidence : {100}, relevant : BOOLEAN]

(* The rows of memory, the newest first.                                   *)
Histories == SeqOf(HeldRows, MaxRows)

(* The rows of the query's loop that have a word of it, or are preferences.*)
OfInterest(rows) == {n \in 1..Len(rows) : rows[n].relevant \/ rows[n].source = "cognitive"}

(* Mutant: the cap on what is relevant is put into the query.              *)
GetRelevant_BoundFirst(rows) ==
  LET newest == FirstOf(rows, RelevantLimit)
  IN  AtPlaces(newest, OfInterest(newest))

(* get_relevant(): in the order of time, whatever the kind of a row.       *)
GetRelevant(rows) ==
  LET newest == FirstOf(rows, QueryLimit)
  IN  FirstOf(AtPlaces(newest, OfInterest(newest)), RelevantLimit)

(* What of a history is in the prompt.                                     *)
PromptRows(rows) == FirstOf(FilterForPlanning(GetRelevant(rows)), PromptLimit)

-----------------------------------------------------------------------------

(* A command in back quotes is readable in no later prompt, known to the   *)
(* patterns or not, unless paths ate the closing quotes of two commands,   *)
(* or of one and the 200 characters end before the quote that is left.     *)
(* Neither side ensures it alone: the substitutions pair off the wrong     *)
(* quotes, and the firewall sees that by a quote that is left over.        *)
QuotedStaysOut(lesson) ==
  LET text == lesson.text
      eaten == {i \in 1..Len(text) : text[i].quoted /\ text[i].path # "none"}
  IN  \A i \in StillReadable(lesson) :
        /\ lesson.trigger /\ text[i].quoted
        /\ Preference(lesson) \in Range(FilterForPlanning(RecordSuccess(lesson)))
        => Cardinality(eaten) >= IF lesson.cut = Whole(text) THEN 2 ELSE 1

(* A preference is not learned in vain: one that is safe to learn, has no  *)
(* blocked phrase and is not cut is let into a later prompt, whole but for *)
(* its paths.                                                              *)
PreferenceComesBack(lesson) ==
  /\ IsSafeForLearning(lesson) /\ lesson.trigger /\ lesson.cut = Whole(lesson.text)
  /\ \A i \in 1..Len(lesson.text) : lesson.text[i].says # "blocked phrase"
  => \E row \in Range(FilterForPlanning(RecordSuccess(lesson))) :
       /\ row.source = "cognitive"
       /\ row.says = {lesson.text[i].says : i \in 1..Len(lesson.text)}

(* A preference stays in the prompt until QueryLimit newer rows of any     *)
(* kind, or PromptLimit newer ones for this query, push it out: three caps *)
(* with a filter between them, that rows the firewall blocks count for.    *)
PreferenceStays(rows) ==
  \A n \in 1..Len(rows) :
    /\ Classify(rows[n]) = "allow"
    /\ n <= QueryLimit
    /\ Cardinality(OfInterest(FirstOf(rows, n - 1))) < PromptLimit
    => rows[n] \in Range(PromptRows(rows))
=============================================================================
