------------------------------ MODULE Executor ------------------------------
(***************************************************************************)
(* execution/executor.py and the D-Bus proxy it asks                       *)
(* (execution/dbus_proxy.py): what becomes of a dispatched action.  The    *)
(* agent, the proxy's handlers and threads, the input broker and the       *)
(* desktop are separate processes, and the agent gives up waiting for the  *)
(* proxy while the proxy goes on.                                          *)
(*                                                                         *)
(* The two sides name different paths for the proxy's socket, so that as   *)
(* deployed every launch finds no proxy; the model covers an installation  *)
(* that links the one to the other, too.                                   *)
(***************************************************************************)
EXTENDS Integers, Sequences, FiniteSets

CONSTANTS
  Requests,     \* dispatched actions, each a task of the agent
  Apps,         \* the applications installed, by the name of their command
  AllowListed,  \* those whose name has an entry of ALLOWED_ATSPI_CLASSES in it
  DenyListed,   \* those whose name has an entry of DENY_ATSPI_CLASSES in it
  NoApp

ASSUME ExecutorAssumption ==
  /\ AllowListed \subseteq Apps /\ DenyListed \subseteq Apps
  /\ NoApp \notin Apps
  /\ Apps \cap {"freedesktop.Application", "gnome.Shell", "firefox --new-tab url"} = {}

(* What launch_app() is called with: an application, a name that makes     *)
(* "org." and the name a service the proxy knows, or _browse()'s command   *)
(* line, which is no application's name.                                   *)
Names == Apps \cup {"freedesktop.Application", "gnome.Shell", "firefox --new-tab url"}

(* find_app() takes the applications that have a given text in their name. *)
Jobs ==
  [kind : {"launch"}, name : Names] \cup
  [kind : {"type", "click"}, names : SUBSET Apps] \cup
  [kind : {"open", "run"}]
NoJob == [kind |-> "none"]

VARIABLES
  job,      \* what each request is
  stage,    \* where its task waits
  call,     \* how far the proxy is with its launch
  text,     \* how far the input broker is with its text
  aim,      \* the application whose focused text field was found for it
  result,   \* what the task returned
  running,  \* the applications the accessibility bus lists
  focus,    \* the application that gets what is typed
  started,  \* history: how often the application was started for the request
  touched,  \* history: the applications that got its text or click
  raised    \* history: the requests whose text was typed although the call raised

desktop == <<running, focus>>
vars == <<job, stage, call, text, aim, result, desktop, started, touched, raised>>

-----------------------------------------------------------------------------
(* The lists *)

(* A denied entry wins, and what no list has is denied.                    *)
IsAllowed(app) == app \notin DenyListed /\ app \in AllowListed

(* Mutant: an application that can be activated was added to the list.     *)
ALLOWED_CALLS_WithApp ==
  [service \in {"freedesktop.Application", "gnome.Shell", "kitty"} |->
     CASE service = "gnome.Shell" ->
            [interface |-> "gnome.Shell", methods |-> {"FocusSearch", "ShowApplications"}]
       [] OTHER -> [interface |-> "freedesktop.Application", methods |-> {"Activate", "Open"}]]

(* One entry with the method Activate, and one of the five without it; the *)
(* names are without their "org.".                                         *)
ALLOWED_CALLS ==
  [service \in {"freedesktop.Application", "gnome.Shell"} |->
     CASE service = "gnome.Shell" ->
            [interface |-> "gnome.Shell", methods |-> {"FocusSearch", "ShowApplications"}]
       [] OTHER -> [interface |-> "freedesktop.Application", methods |-> {"Activate", "Open"}]]

(* validate_request(), of a request of DBusBroker.launch_app(): its one    *)
(* argument is no string.  No service of the list is denied besides.       *)
ValidateRequest(service) ==
  /\ service \in DOMAIN ALLOWED_CALLS
  /\ "Activate" \in ALLOWED_CALLS[service].methods
  /\ ALLOWED_CALLS[service].interface = "freedesktop.Application"

-----------------------------------------------------------------------------

Init ==
  /\ job = [r \in Requests |-> NoJob]
  /\ stage = [r \in Requests |-> "idle"]
  /\ call = [r \in Requests |-> "none"]
  /\ text = [r \in Requests |-> "none"]
  /\ aim = [r \in Requests |-> NoApp]
  /\ result = [r \in Requests |-> "none"]
  /\ running \in SUBSET Apps
  /\ focus = NoApp
  /\ started = [r \in Requests |-> 0]
  /\ touched = [r \in Requests |-> << >>]
  /\ raised = {}

Goto(r, s) == stage' = [stage EXCEPT ![r] = s]

Return(r, value) ==
  /\ Goto(r, "done")
  /\ result' = [result EXCEPT ![r] = value]

Dispatch(r, j) ==
  /\ stage[r] = "idle"
  /\ job' = [job EXCEPT ![r] = j]

-----------------------------------------------------------------------------
(* launch_app() *)

(* The fall-back: the command is started without a shell.                  *)
Popen(r, name) ==
  \/ /\ name \in Apps
     /\ started' = [started EXCEPT ![r] = @ + 1]
     /\ Goto(r, "window")
     /\ UNCHANGED result
  \/ /\ name \notin Apps
     /\ Return(r, "failed")
     /\ UNCHANGED started

(* The proxy is asked; without one the fall-back follows at once.          *)
Launch(r) ==
  /\ \E name \in Names :
       /\ Dispatch(r, [kind |-> "launch", name |-> name])
       /\ \/ Popen(r, name) /\ UNCHANGED call
          \/ /\ Goto(r, "proxy")
             /\ call' = [call EXCEPT ![r] = "sent"]
             /\ UNCHANGED <<result, started>>
  /\ UNCHANGED <<text, aim, desktop, touched, raised>>

(* handle_connection(): its check, of a request whose sender may be gone.  *)
HandleConnection(r) ==
  /\ call[r] = "sent"
  /\ call' = [call EXCEPT ![r] = IF ValidateRequest(job[r].name) THEN "calling" ELSE "error"]
  /\ UNCHANGED <<job, stage, text, aim, result, desktop, started, touched, raised>>

(* The proxy's thread: the bus starts what the service stands for, or not. *)
BusCall(r) ==
  /\ call[r] = "calling"
  /\ \/ /\ started' = [started EXCEPT ![r] = @ + 1]
        /\ call' = [call EXCEPT ![r] = "ok"]
     \/ /\ call' = [call EXCEPT ![r] = "error"]
        /\ UNCHANGED started
  /\ UNCHANGED <<job, stage, text, aim, result, desktop, touched, raised>>

(* Mutant: any line of the proxy is taken for success.                     *)
Answered_AnyLine(r) ==
  /\ stage[r] = "proxy"
  /\ call[r] \in {"ok", "error"}
  /\ Return(r, "ok")
  /\ UNCHANGED <<job, call, text, aim, desktop, started, touched, raised>>

Answered(r) ==
  /\ stage[r] = "proxy"
  /\ call[r] = "ok"
  /\ Return(r, "ok")
  /\ UNCHANGED <<job, call, text, aim, desktop, started, touched, raised>>

(* Mutant: nothing bounds the wait for the proxy.                          *)
NotAnswered_Refused(r) ==
  /\ stage[r] = "proxy"
  /\ call[r] = "error"
  /\ Popen(r, job[r].name)
  /\ UNCHANGED <<job, call, text, aim, desktop, touched, raised>>

(* The proxy refused, hung up, or said nothing for 5 s; in that case it    *)
(* goes on with what it was asked.                                         *)
NotAnswered(r) ==
  /\ stage[r] = "proxy"
  /\ Popen(r, job[r].name)
  /\ UNCHANGED <<job, call, text, aim, desktop, touched, raised>>

(* The 1.5 s for the window are over; nobody looks for it.                 *)
WindowAwaited(r) ==
  /\ stage[r] = "window"
  /\ Return(r, "ok")
  /\ UNCHANGED <<job, call, text, aim, desktop, started, touched, raised>>

-----------------------------------------------------------------------------
(* type_in_app() and click_in_app() *)

(* find_app(): the first of the bus, in no order the code knows, with the  *)
(* text in its name; none without pyatspi.                                 *)
Found(names) == running \cap names

(* YdotoolBroker._send(): no broker, or the text is on its way.            *)
ToBroker(r) ==
  \/ Return(r, "failed") /\ UNCHANGED text
  \/ Goto(r, "broker") /\ text' = [text EXCEPT ![r] = "sent"] /\ UNCHANGED result

(* ATSPIExecutor.type_text(), its look-up: a text field of the application *)
(* has the focus; or there is none, or the look-up raises.                 *)
LookForField(r, app) ==
  \/ focus = app /\ Goto(r, "keys") /\ aim' = [aim EXCEPT ![r] = app] /\ UNCHANGED <<text, result>>
  \/ ToBroker(r) /\ UNCHANGED aim

(* Mutant: a refusal is followed by the broker like any other failure of   *)
(* AT-SPI.                                                                 *)
Type_DenyFallsThrough(r) ==
  /\ \E names \in SUBSET Apps :
       /\ Dispatch(r, [kind |-> "type", names |-> names])
       /\ \/ Found(names) = {} /\ ToBroker(r) /\ UNCHANGED aim
          \/ \E app \in Found(names) : LookForField(r, app)
  /\ UNCHANGED <<call, desktop, started, touched, raised>>

(* The look for the application and, if it is allowed, for its field; an   *)
(* application that ends or loses the focus between the two has none.      *)
Type(r) ==
  /\ \E names \in SUBSET Apps :
       /\ Dispatch(r, [kind |-> "type", names |-> names])
       /\ \/ Found(names) = {} /\ ToBroker(r) /\ UNCHANGED aim
          \/ \E app \in Found(names) :
               \/ ~IsAllowed(app) /\ Return(r, "denied") /\ UNCHANGED <<text, aim>>
               \/ IsAllowed(app) /\ LookForField(r, app)
  /\ UNCHANGED <<call, desktop, started, touched, raised>>

(* Mutant: the text is typed again by the broker, its first typing         *)
(* reported as a failure.                                                  *)
TypeKeys_Twice(r) ==
  /\ stage[r] = "keys"
  /\ touched' = [touched EXCEPT ![r] = Append(@, focus)]
  /\ ToBroker(r)
  /\ UNCHANGED <<job, call, aim, desktop, started, raised>>

(* generateKeyboardEvent(): what has the focus by then gets the text,      *)
(* whether or not it is the application of the field that was found; or    *)
(* the call raises, before or after it was typed.                          *)
TypeKeys(r) ==
  /\ stage[r] = "keys"
  /\ \/ /\ touched' = [touched EXCEPT ![r] = Append(@, focus)]
        /\ \/ Return(r, "ok") /\ UNCHANGED <<text, raised>>
           \/ raised' = raised \cup {r} /\ ToBroker(r)
     \/ ToBroker(r) /\ UNCHANGED <<touched, raised>>
  /\ UNCHANGED <<job, call, aim, desktop, started>>

(* The broker types into what has the focus by then.                       *)
BrokerTypes(r) ==
  /\ text[r] = "sent"
  /\ text' = [text EXCEPT ![r] = "typed"]
  /\ touched' = [touched EXCEPT ![r] = Append(@, focus)]
  /\ UNCHANGED <<job, stage, call, aim, result, desktop, started, raised>>

(* The broker's line: success, or a failure or the end of the connection,  *)
(* with or without the text typed.                                         *)
BrokerAnswers(r) ==
  /\ stage[r] = "broker"
  /\ \/ text[r] = "typed" /\ Return(r, "ok")
     \/ Return(r, "failed")
  /\ UNCHANGED <<job, call, text, aim, desktop, started, touched, raised>>

(* The click is done on the button that was found, wherever the focus is;  *)
(* the call may raise after it.                                            *)
Click(r) ==
  /\ \E names \in SUBSET Apps :
       /\ Dispatch(r, [kind |-> "click", names |-> names])
       /\ \/ Return(r, "failed") /\ UNCHANGED touched
          \/ \E app \in Found(names) :
               /\ IsAllowed(app)
               /\ touched' = [touched EXCEPT ![r] = Append(@, app)]
               /\ Return(r, "ok") \/ Return(r, "failed")
  /\ UNCHANGED <<call, text, aim, desktop, started, raised>>

-----------------------------------------------------------------------------

(* open_file_in_editor(): no await.                                        *)
OpenFile(r) ==
  /\ Dispatch(r, [kind |-> "open"])
  /\ \/ Return(r, "ok") /\ started' = [started EXCEPT ![r] = @ + 1]
     \/ Return(r, "failed") /\ UNCHANGED started
  /\ UNCHANGED <<call, text, aim, desktop, touched, raised>>

(* run_terminal_command(): the sandbox cannot be started, or it runs.      *)
Run(r) ==
  /\ Dispatch(r, [kind |-> "run"])
  /\ \/ Return(r, "failed") /\ UNCHANGED started
     \/ Goto(r, "shell") /\ started' = [started EXCEPT ![r] = @ + 1] /\ UNCHANGED result
  /\ UNCHANGED <<call, text, aim, desktop, touched, raised>>

(* It ends with a return code, or is killed after 30 s.                    *)
RunEnds(r) ==
  /\ stage[r] = "shell"
  /\ Return(r, "ok") \/ Return(r, "failed")
  /\ UNCHANGED <<job, call, text, aim, desktop, started, touched, raised>>

(* Windows come and go, and the user moves the focus.                      *)
DesktopChanges ==
  /\ running' \in SUBSET Apps
  /\ focus' \in running' \cup {NoApp}
  /\ UNCHANGED <<job, stage, call, text, aim, result, started, touched, raised>>

(* What needs nobody else: the next statement, and the timers.             *)
GoesOn(r) == TypeKeys(r) \/ Answered(r) \/ NotAnswered(r) \/ WindowAwaited(r) \/ RunEnds(r)

Next ==
  \/ \E r \in Requests :
       \/ Launch(r) \/ Type(r) \/ TypeKeys(r) \/ Click(r) \/ OpenFile(r) \/ Run(r)
       \/ HandleConnection(r) \/ BusCall(r)
       \/ Answered(r) \/ NotAnswered(r) \/ WindowAwaited(r) \/ RunEnds(r)
       \/ BrokerTypes(r) \/ BrokerAnswers(r)
  \/ DesktopChanges

Spec == Init /\ [][Next]_vars

(* The agent goes on and its timers expire.  AT-SPI's calls are taken to   *)
(* return or raise; nothing is assumed of the proxy, the bus, the broker   *)
(* and the user.                                                           *)
FairSpec == Spec /\ \A r \in Requests : WF_vars(GoesOn(r))

-----------------------------------------------------------------------------

(* The tasks, the two conversations and the desktop have their types.      *)
TypeOK ==
  /\ job \in [Requests -> Jobs \cup {NoJob}]
  /\ stage \in [Requests -> {"idle", "proxy", "window", "keys", "broker", "shell", "done"}]
  /\ call \in [Requests -> {"none", "sent", "calling", "ok", "error"}]
  /\ text \in [Requests -> {"none", "sent", "typed"}]
  /\ aim \in [Requests -> Apps \cup {NoApp}]
  /\ result \in [Requests -> {"none", "ok", "failed", "denied"}]
  /\ running \subseteq Apps
  /\ focus \in Apps \cup {NoApp}
  /\ started \in [Requests -> Nat]
  /\ touched \in [Requests -> Seq(Apps \cup {NoApp})]
  /\ raised \subseteq Requests

(* An application is started at most once for a launch, although the       *)
(* fall-back does not wait for the end of what the proxy was asked: what   *)
(* the proxy lets through is never the name of a command as well.          *)
StartedOnce == \A r \in Requests : started[r] <= 1

(* A text or a click reaches at most one application, once, whichever of   *)
(* the ways was taken, unless AT-SPI raised after it had typed: then the   *)
(* broker types it again (execution/executor.py:303).                      *)
TouchedOnce ==
  \A r \in Requests : Len(touched[r]) <= IF r \in raised THEN 2 ELSE 1

(* "ok" is said only when something was started, typed or clicked, and a   *)
(* launch that failed has left nothing behind, unless the proxy was asked  *)
(* for one of its own services and answers late.                           *)
ResultTrue ==
  \A r \in Requests :
    /\ result[r] = "ok" => started[r] > 0 \/ touched[r] # << >>
    /\ result[r] = "failed" /\ job[r].kind = "launch" =>
         started[r] = 0 \/ ValidateRequest(job[r].name)

(* After a refusal no way is tried: nothing is typed for the request, then *)
(* or later.  And a denied application gets a text in two ways only: from  *)
(* the broker, which types into whatever has the focus, or in place of an  *)
(* allowed one whose field had the focus when it was looked for.           *)
RefusalIsFinal ==
  \A r \in Requests :
    /\ result[r] = "denied" => touched[r] = << >> /\ text[r] = "none"
    /\ (\E k \in 1..Len(touched[r]) : touched[r][k] \in DenyListed) =>
         text[r] = "typed" \/ IsAllowed(aim[r])

(* Every dispatched action returns, with no more than the input broker to  *)
(* hold it up: the proxy and the bus may hang for ever.                    *)
EveryDispatchReturns ==
  \A r \in Requests : stage[r] # "idle" ~> stage[r] \in {"done", "broker"}
=============================================================================
