----------------------------- MODULE RiskPolicy -----------------------------
(***************************************************************************)
(* The rule tables.  The agent's own path judges a proposal three times:   *)
(* by the planner's default risk (core/planner.py), by the real-world      *)
(* barrier (execution/real_world.py) and by the gate's classifier          *)
(* (security/confirm_gate.py), each from its own list.  The structured     *)
(* actions of the tool layer are judged by the secondary validator, the    *)
(* policy engine and the channel guard, again each from its own list.      *)
(*                                                                         *)
(* The params of a proposal are the set of the marks in them that some     *)
(* rule looks for.                                                         *)
(***************************************************************************)
EXTENDS Integers, FiniteSets

CONSTANTS
  MaxMarks,   \* bound: marks in the params of one proposal
  Scores      \* the simulation's risk scores, in hundredths

ASSUME RiskAssumption == MaxMarks \in Nat /\ Scores \subseteq 0..100

Levels == <<"AUTO", "NOTIFY", "CONFIRM", "BLOCK">>
Rank(level) == CHOOSE i \in 1..4 : Levels[i] = level

-----------------------------------------------------------------------------
(* Proposals *)

VALID_ACTION_TYPES ==
  {"launch_app", "type_in_app", "click_in_app", "open_file", "run_command", "browse_url",
   "install_package", "submit_form", "send_message", "make_call", "read_screen", "observe"}

ACTION_RISK_DEFAULTS ==
  [a \in VALID_ACTION_TYPES |->
     CASE a \in {"run_command", "install_package", "submit_form", "send_message", "make_call"} -> "CONFIRM"
       [] a = "browse_url" -> "NOTIFY"
       [] OTHER -> "AUTO"]

(* What the rules look for in the params: in the command, the URL, the     *)
(* button and the app, or anywhere.                                        *)
BlockMarks == {"system directory in command", "rm -rf / in command", "/etc/shadow", "/etc/sudoers"}
ConfirmMarks == {"delete or remove", "payment, order, buy or purchase", "system prefix"}
BarrierMarks == {"real-world url", "real-world button"}
Marks == BlockMarks \cup ConfirmMarks \cup BarrierMarks \cup {"firefox or chromium"}

NoScore == -1

Proposals ==
  [type : VALID_ACTION_TYPES,
   marks : {s \in SUBSET Marks : Cardinality(s) <= MaxMarks},
   score : Scores \cup {NoScore}]

(* Mutant: calls were forgotten.                                           *)
REAL_WORLD_TYPES_NoCalls ==
  {"submit_form", "click_payment_button", "confirm_order", "send_message", "share_file_external", "api_post"}

REAL_WORLD_TYPES ==
  {"submit_form", "click_payment_button", "confirm_order", "send_message", "make_call",
   "share_file_external", "api_post"}

IsRealWorld(p) == p.type \in REAL_WORLD_TYPES \/ p.marks \cap BarrierMarks # {}

(* The fifth block pattern wants a key "tool" among the params, which no   *)
(* proposal has: it matches nothing.                                       *)
MatchesBlock(p) == p.marks \cap BlockMarks # {}

(* /etc/shadow and /etc/sudoers are below a system prefix as well.         *)
MatchesConfirm(p) ==
  \/ p.type \in {"run_command", "system_config_change", "install_package"}
  \/ p.marks \cap (ConfirmMarks \cup {"/etc/shadow", "/etc/sudoers"}) # {}

MatchesNotify(p) ==
  p.type = "open_url" \/ (p.type = "launch_app" /\ "firefox or chromium" \in p.marks)

(* Mutant: the simulation's verdict is looked at first.                    *)
ClassifyRisk_ScoreFirst(p) ==
  CASE p.score > 85 -> "BLOCK"
    [] p.score > 50 /\ p.score <= 85 -> "CONFIRM"
    [] p.score <= 50 /\ MatchesBlock(p) -> "BLOCK"
    [] p.score <= 50 /\ ~MatchesBlock(p) /\ MatchesConfirm(p) -> "CONFIRM"
    [] p.score <= 50 /\ ~MatchesBlock(p) /\ ~MatchesConfirm(p) /\ MatchesNotify(p) -> "NOTIFY"
    [] OTHER -> "AUTO"

ClassifyRisk(p) ==
  IF MatchesBlock(p) \/ p.score > 85 THEN "BLOCK"
  ELSE IF p.score > 50 \/ MatchesConfirm(p) THEN "CONFIRM"
  ELSE IF MatchesNotify(p) THEN "NOTIFY"
  ELSE "AUTO"

-----------------------------------------------------------------------------
(* Structured actions *)

TOOL_MIN_RISK ==
  [tool \in {"terminal.apt_install", "terminal.apt_remove", "terminal.run_safe", "system.edit_config",
             "system.restart_service", "recovery.rollback", "recovery.panic",
             "real_world.browser_action", "real_world.confirm_order"} |->
     CASE tool = "terminal.run_safe" -> 4
       [] tool \in {"terminal.apt_install", "terminal.apt_remove", "system.restart_service"} -> 5
       [] tool \in {"system.edit_config", "real_world.browser_action"} -> 6
       [] tool = "recovery.rollback" -> 7
       [] tool = "recovery.panic" -> 8
       [] tool = "real_world.confirm_order" -> 9]

GuiTools == {"gui.type_text", "gui.click", "gui.open_app"}
Tools == DOMAIN TOOL_MIN_RISK \cup GuiTools \cup {"chat.respond"}

ROLLBACK_REQUIRED_TOOLS ==
  {"terminal.apt_install", "terminal.apt_remove", "system.edit_config", "recovery.rollback"}

(* What the tables look for in an argument, as its own words or as part of *)
(* longer ones: behind a blank (or nothing, or a sign), a line break or    *)
(* another letter, and in front of nothing (or a blank), a sign or another *)
(* letter, which makes it /tmp, zeros, shuf or mkfsx.                      *)
Forms ==
  {"no form", "rm -rf /", "dd if=/dev/zero", "dd of=/dev/sda", "/etc/shadow", "/etc/sudoers", "base64 -d",
   "curl | bash", "wget | sh", "mkfs, fdisk, parted or shred", "chmod 777 /", "iptables -F", "> /dev/sda"}

Texts == [form : Forms, before : {"blank", "break", "letter"}, after : {"end", "sign", "letter"}]

ToolActions ==
  [tool : Tools, text : Texts, risk : 0..10, rollback : BOOLEAN, snapshot : BOOLEAN,
   window : {"unknown", "ordinary", "sensitive"}]

(* A word begins, or ends, where the form does.                            *)
Begins(text) == text.before # "letter"
Ends(text) == text.after # "letter"

(* In str(args) a line break is a \ and the letter n.                      *)
BeginsPrinted(text) == text.before = "blank"

(* Mutant: the root itself is looked for, as in the channel guard.         *)
Forbidden_RootOnly(text) ==
  \/ text.form = "rm -rf /" /\ BeginsPrinted(text) /\ text.after = "end"
  \/ text.form = "dd of=/dev/sda" /\ BeginsPrinted(text)
  \/ text.form \in {"/etc/shadow", "/etc/sudoers", "base64 -d", "curl | bash"}
  \/ text.form = "wget | sh" /\ Ends(text)

(* _FORBIDDEN_ARG_PATTERNS, searched in str(args)                          *)
Forbidden(text) ==
  \/ text.form \in {"rm -rf /", "dd of=/dev/sda"} /\ BeginsPrinted(text)
  \/ text.form \in {"/etc/shadow", "/etc/sudoers", "base64 -d", "curl | bash"}
  \/ text.form = "wget | sh" /\ Ends(text)

(* _DENIED_COMMANDS                                                        *)
Denied(text) ==
  \/ text.form = "rm -rf /" /\ Begins(text) /\ text.after = "end"
  \/ /\ text.form \in {"dd if=/dev/zero", "mkfs, fdisk, parted or shred", "iptables -F"}
     /\ Begins(text) /\ Ends(text)
  \/ text.form \in {"chmod 777 /", "curl | bash", "wget | sh"} /\ Begins(text)
  \/ text.form = "> /dev/sda"

(* SecondaryValidator.check() finds nothing.                               *)
Validated(a) ==
  /\ a.tool \in DOMAIN TOOL_MIN_RISK => a.risk >= TOOL_MIN_RISK[a.tool]
  /\ ~Forbidden(a.text)
  /\ a.tool \in ROLLBACK_REQUIRED_TOOLS => a.rollback
  /\ a.risk >= 5 => a.snapshot

(* PolicyEngine.is_allowed(); its rules are substrings, whatever is before *)
(* and behind.                                                             *)
Allowed(a) ==
  /\ a.tool = "terminal.run_safe" =>
       a.text.form \notin {"rm -rf /", "dd if=/dev/zero", "curl | bash", "wget | sh"}
  /\ a.tool = "system.edit_config" => a.text.form \notin {"/etc/shadow", "/etc/sudoers"}

(* ChannelGuard.is_safe(): without xdotool the title is empty and matches  *)
(* nothing.                                                                *)
IsSafe(a) ==
  /\ a.tool \in GuiTools => a.window # "sensitive"
  /\ a.tool = "terminal.run_safe" => ~Denied(a.text)

-----------------------------------------------------------------------------

(* More evidence never lowers the gate's level: not a further mark in the  *)
(* params, and not a simulation that was made, or came out worse.          *)
MoreEvidence(p) ==
  /\ \A mark \in Marks :
       Rank(ClassifyRisk([p EXCEPT !.marks = @ \cup {mark}])) >= Rank(ClassifyRisk(p))
  /\ \A worse \in Scores :
       worse > p.score => Rank(ClassifyRisk([p EXCEPT !.score = worse])) >= Rank(ClassifyRisk(p))

(* Whatever the planner rates CONFIRM the user is asked about, or it is    *)
(* blocked, although the gate overwrites that rating and its own list      *)
(* lacks three of the types: the barrier has them.  And what the gate asks *)
(* about for its type alone, the planner has rated CONFIRM before, so that *)
(* a snapshot was tried.                                                   *)
RatingsMeet(p) ==
  /\ ACTION_RISK_DEFAULTS[p.type] = "CONFIRM" =>
       IsRealWorld(p) \/ ClassifyRisk(p) \in {"CONFIRM", "BLOCK"}
  /\ ClassifyRisk([p EXCEPT !.marks = {}, !.score = NoScore]) = "CONFIRM" =>
       ACTION_RISK_DEFAULTS[p.type] = "CONFIRM"

(* What the policy engine denies the validator vetoes or the channel guard *)
(* refuses, too, where the denied words are words of their own: a command  *)
(* at the start of an argument or after a blank or sign, that goes on with *)
(* no further letter, but for "rm -rf /" that may name any directory.  The *)
(* paths and "curl | bash" are refused twice wherever they stand.          *)
DenialBackedUp(a) ==
  /\ ~Allowed(a)
  /\ \/ a.text.form \in {"/etc/shadow", "/etc/sudoers", "curl | bash"}
     \/ a.text.form = "rm -rf /" /\ BeginsPrinted(a.text)
     \/ a.text.form = "dd if=/dev/zero" /\ Begins(a.text) /\ Ends(a.text)
     \/ a.text.form = "wget | sh" /\ (Begins(a.text) \/ Ends(a.text))
  => ~Validated(a) \/ ~IsSafe(a)
=============================================================================
