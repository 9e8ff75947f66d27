# A verification project for AI OS

TLA+ models, TLC runs and TLAPS proofs for the agent in this repository: a Python
service that turns a user's text into planned actions, asks for confirmation where
an action is risky, executes it, and keeps logs, snapshots and memories. Paths below
are relative to `src/`.

## 1. Inventory

### 1.1 Components, their state and their operations

| Component | State it keeps | Operations | What makes it correct |
|---|---|---|---|
| Supervisor `security/supervisor.py` | session counter, deque of call times, deque of (time, tool), halt latch and reason | `allow`, `resume`, `stats`, each under one lock | no window holds more granted calls than its limit; it halts exactly when a limit is exceeded; resume starts afresh |
| Audit log `security/audit_log.py` | SQLite table of chained rows; per instance a cached last hash | constructor, `log`, `verify_chain`, `recent` | a log only ever appended to verifies; a changed row does not |
| Confirmation gate `security/confirm_gate.py` | action log; one proposal at a time per task | `classify_risk`, `ConfirmationUI.ask/notify`, `process` | a blocked action never runs, a confirmed one runs only after an answer to its own request, every proposal ends in one logged outcome |
| UI server `ui/ui_server.py`, `ui/index.html` | connected browsers, one handler per connection | `ws_handler`, `send_to_agent`, `broadcast`, `_handle_notification` | replies keep the order of the commands, every wait ends |
| Agent loop `core/agent_main.py` | one task per client; shared memory, supervisor, gate, snapshots | start, `handle_text`, `_dispatch`, signal handling, client sockets | snapshot before a risky action, supervisor consulted, one answer per client |
| Input tagger and tokens `security/input_tagger.py`, `security/token_manager.py` | session key, connected token readers, one watcher per device | `watch_device`, `accept_clients`, `stamp`, `verify` | every key press of every device reaches every live reader |
| Snapshots and recovery `recovery/` | number of the last snapshot; backup copies of configurations | `take`, `rollback`, `backup_current`, `restore_*`, `diagnose` | rollback goes to the latest snapshot; a restore can be undone |
| Executor and D-Bus proxy `execution/` | none that lasts; one child process or proxied call at a time | `launch_app`, `type_in_app`, `run_terminal_command`, `validate_request`, `handle_connection` | an action is performed once; only allowed calls pass |
| Real-world barrier `execution/real_world.py` | none that lasts | `is_real_world`, `confirm` | payments, orders and calls are asked about |
| Memory and context firewall `core/memory.py`, `core/context_firewall.py`, `memory/` | SQLite tables | `get_relevant`, `record_success`, `filter_for_planning` | only what is safe to learn is stored, only data reaches the planner |
| Planners and intent parser `core/planner*.py`, `core/intent_parser.py` | none | `plan`, `_parse_actions`, `_stub_plan`, `parse` | a plan holds only known action types, with their default risk |
| Rule tables `security/channel_guard.py`, `policy_engine.py`, `secondary_validator.py`, `learning_guard.py` | none | pure decisions | a decision does not depend on the order of the rules |
| Hardware tools `tools/hardware/` | none | `diagnose`, `build_repair_plan` of the fingerprint and the Bluetooth tool | the plan, run in order, mends what was found |
| Voice `voice/` | none | recording and transcription | input and output only |
| Deployment `install/`, `systemd/`, `apparmor/`, `config/`, `cyberlab*.sh` | the machine's files | shell scripts | not code of the running program; the restart rule of `systemd/ai-agent.service` belongs to the agent loop |

### 1.2 How they interact

The browser sends a JSON message over a WebSocket to the UI server, which opens the
agent's Unix socket and waits up to 60 s for one line. The agent starts one asyncio
task per client. The task asks the supervisor, reads memories through the context
firewall, asks a planner (a network call) for a list of actions, and takes each one
through the channel guard, the real-world barrier, a snapshot and the confirmation
gate. The gate calls back into the agent's `_dispatch`, which calls the executor. For
a confirmation the gate opens a second Unix socket, served by the UI server, and waits
60 s for a line; when that socket does not exist it prompts on the terminal from a
thread of the default executor. All tasks share one event loop: they interleave at
every `await`.

### 1.3 What is hard

* interleaving of client tasks at awaits: two confirmations open at once, snapshots
  that finish out of order, memory read before and written after a plan runs;
* timeouts that abandon work which goes on: the terminal prompt's thread, the
  snapshot command, the D-Bus call whose answer comes after the fall-back launch, the
  agent's own answer after the UI gave up; snapper, which goes on when its caller has
  stopped waiting;
* partial failure: a commit of the audit log that fails after its insert, a copy of the
  configuration that stops at a file, an item in the middle of a model's answer that
  cannot be read, a database that raises after the action it should record has run;
* a cancellation that arrives where the code, or the library under it, catches it;
* words looked for in printed text: a line break that is printed as two characters, a
  word inside a longer one, a quotation whose end another pattern has taken;
* cached values that go stale: the audit log's last hash, the risk level the planner
  guessed and the gate replaced, the last snapshot's number;
* limits: the session budget, the minute window, the pool of prompt threads;
* restarts: the agent under systemd, the audit log reading back its last row.

## 2. Modules and how they correspond to the code

| Module | Code | Role |
|---|---|---|
| `ActionBudget` | `security/supervisor.py` | abstract: the policy over the whole history of granted calls |
| `Supervisor` | `security/supervisor.py` | the counter, the two pruned deques and the halt latch; implements `ActionBudget` |
| `SupervisorProofs` | | its theorems |
| `AuditLog`, `AuditLogProofs` | `security/audit_log.py` | the log statement by statement; its theorems |
| `ConfirmGate`, `ConfirmGateProofs` | `security/confirm_gate.py`, the gate's socket of `ui/ui_server.py` | the gate from await to await, its terminal prompts and their threads; its theorems |
| `GateContract` | `security/confirm_gate.py` | abstract: one decision and at most one execution of a proposal, after the consent its level asks for; `ConfirmGate` implements it |
| `UIServer`, `UIServerProofs` | `ui/ui_server.py` | a handler per browser, the agent's socket in each of its states; its theorems |
| `InputTagger`, `InputTaggerProofs` | `security/input_tagger.py` | the watchers and the list of readers they share; its theorems |
| `AgentLoop`, `AgentLoopProofs` | `core/agent_main.py` with what it awaits in `execution/real_world.py`, `recovery/snapshot.py`, `execution/executor.py` | clients' tasks, signals, cancellation; its theorems |
| `Executor`, `ExecutorProofs` | `execution/executor.py`, `execution/dbus_proxy.py` | a dispatched action, the proxy and the broker it asks; its theorems |
| `Learning` | `core/memory.py`, `core/context_firewall.py` | what a command stores, the query with its caps, and what of it reaches a prompt |
| `RiskPolicy` | the tables in `core/planner.py`, `confirm_gate.py`, `real_world.py`, `secondary_validator.py`, `policy_engine.py`, `channel_guard.py` | the pure decisions, over every subject the tables tell apart |
| `Planners` | `core/planner.py`, `planner_ollama.py`, `planner_universal.py` | what a plan is made of, by each of the three planners |
| `Places` | the loops with a condition in the modules that use it | what is left of a list: the items at some of its places, in their order |
| `Rules` | `RiskPolicy`, `Learning`, `Planners` | one subject is judged in a behaviour |
| `Snapshots` | `recovery/snapshot.py` | overlapping `take()` calls, `rollback()`, processes that are left running |
| `ConfigRestore` | `recovery/recovery_core/restore_config.py` | backup, restore and its undoing, file by file |
| `SideParts`, `SidePartsProofs` | | `Rules`, `Snapshots` and `ConfigRestore` side by side; theorems about the three |
| `MC*` | | constants, symmetry and plans for TLC |

**Supervisor.** One action per path through `allow()`: `RefuseHalted`, `ExceedSession`,
`ExceedRate`, `ExceedLoop`, `Grant`, each whole because the lock covers the call. The
early returns matter: the session refusal touches neither deque, the rate refusal slides
only the minute deque. `FrontExpired` is the `popleft` loop with its strict comparison.
`granted` is a history variable, the calls granted since the last `resume()`; the three
limits are stated over it, never over the deques. `ActionBudget` decides from that history
alone, and `ImplementsBudget` is the refinement.

**AuditLog.** `Begin` (the clock, and the hash over the cached one), `ReadColumn` (the cached
hash again, for the `prev_hash` column), `Insert`, `Commit` and `Advance` are the statements of
`log()`, with `InsertFails` and `CommitFails` for SQLite's locks. A row has both links, `hashed`
and `prev`; they differ when another thread's line 61 comes between the two readings.
`Construct` reads the tip back, `Crash` ends a process, `StepBack` sets the wall clock
back, `Tamper` changes a row from outside as the unit test does. An id stands for a hash;
recomputing a row's hash gives what is stored when `hashed = prev` and the row is `intact`.
Rows are sorted by `ts` for verification (`Before`, `Predecessor`), while they are chained in
the order of calls: the models keep the two orders apart, because the code does. `disturbed` is
a history: two calls or objects overlapped, a commit failed, or the clock was set back.

**ConfirmGate.** A proposal is a task in `process()`; each action is what runs from one
await to the next, so the timers race with everything. `queue`, `busy`, `reader` and
`answer` are the default executor's queue, its threads inside `input()`, the thread that
holds standard input, and the line each prompt read. `AskTimesOut` ends the task and leaves
the thread where it is. `ui` is the UI server's socket file: absent, served, or left
behind. With a socket no question ever reaches a browser: `broadcast()` assigns to
`_connected_clients` and so makes it a local name, and its first test raises. `Shutdown`
is the cancellation by `asyncio.run()`. The notification's sleep catches it, and `MayGoOn` says
which other tasks can: those in a `wait_for()` whose inner future is done, on Python 3.11 and
older. The gate knows of no shutdown, so proposals go on to be made while the loop is closing;
`Exit` awaits the tasks and joins the executor's threads, of which one may sit in `input()`.

`GateContract` knows no threads, sockets or timers: a proposal is submitted, consented to,
granted or refused, executed or dropped. `Fate` maps a stage to these (`FateOfTask`), the
yes is what the proposal's own prompt read in time, and `ImplementsContract` is the
refinement, with `Close` for the end of the process.

**UIServer.** A connection's handler is a stage: `Take` is what `ws_handler` does with the
next message of each kind, `Connect` to `Reply` are `send_to_agent` with the socket absent,
dead or served, `TimesOut` its 60 s, `End` the `finally` block. The agent is external
(`Answer`, `SocketChanges`): it answers late, never, or is restarted between the look for
its socket and its answer. `sent` numbers the messages, `shown` is what a browser has seen
of them, `forwarded` the clicks the gate has been sent. A message that is JSON but no object, or
whose text is no string ("odd"), raises in the handler and ends it. A click is taken up by the
handler of its connection like any other message, so that it waits behind that browser's commands.

**InputTagger.** `Event`, `Write`, `Drain`, `Reap` are a watcher's stretches between awaits;
the loop's place in the list is an index into the list as it is now, as Python's iteration
has it. `Reap` removes one by one and ends the task at the first `ValueError`; what is left is
`AtPlaces` of the places that are kept. `Reap` looks only for readers that another task has
removed, since no loop gives one up twice (`NoneGivenUpTwice`).

**AgentLoop.** A task is a stage. The loop of `handle_text` runs without leaving the event
loop until it awaits: `Next` lets nothing else happen while a task is in stage `"loop"`.
The gate is its outside: every level, approval, rejection, cancellation or an escaping
`EOFError`. A question goes to the UI's socket or to a thread that waits in `input()`
(`terminal`); when its timer ends it, the thread stays (`stray`) until a line is typed
(`LineRead`). `Finish` is the end of `_dispatch()`, the action's line and memory's write, which
may raise and then ends the task without an answer. `waits` is the Python version: from 3.12.1 on
`Server.wait_closed()` waits for open connections. Where it does not, `Shutdown` cancels, once, the
tasks that are left, and any of those that `MayGoOn` names goes on: one in the gate's five
seconds, whose action is then reported as "Failed" (`lapsed` remembers it), or one in a
`wait_for()` whose result is there. `Exit` needs all tasks over and no stray thread, because
`asyncio.run()` joins the executor's threads. The source calls `supervisor.check`,
`supervisor.record_action` and `chan_guard.is_allowed`, which do not exist, and imports a name
`core/planner.py` lacks, so that the program as committed does not start; the model is of the
loop with these mended in any way, their verdicts being chosen.

**Executor.** A request is a task in one of the engine's operations. `call` is the proxy's
side of a launch and `text` the input broker's side of a typing: both go on when the task
has given up (`NotAnswered` leaves `call` as it is). `Popen` is the fall-back. Typing is two steps of
the desktop: `Type` looks for the application and, with `LookForField`, for a text field of it
that has the focus (`aim`); `TypeKeys` sends the keys, to whatever has the focus by then, and may
raise before or after (`raised`). There is no await between the two, but windows are another
process's. The broker types later still, also into whatever has the focus then. An application's name may contain
entries of both lists; the denied one wins. `_browse()` launches a name that is a whole
command line, which no command has, so that it always fails. `started` and `touched` are
histories of what the request did to the desktop.

**RiskPolicy.** `Proposals` are what the planner can return, their params being the set of those
marks in them that some rule looks for. `ToolActions` are the structured actions of the tool
layer: the argument is one of the forms the three tables look for, behind a blank, a line break
or another letter, and before its end, a sign or another letter. The tables differ in just
that: the policy engine looks for substrings, the channel guard for words, the validator for
words in `str(args)`, where a line break is printed as a backslash and the letter n, and no word
begins behind a letter.

**Learning.** A text is a sequence of pieces: words, a command the patterns know, one they do
not know (mkfs, shutdown) or a blocked phrase, in back quotes or not, with or without a path right
behind. `ExtractPreference` is the two substitutions one after the other: the one for paths
takes everything up to the next blank, a closing back quote too (`QuotesLeft`), and the one for
quotations pairs off the quotes that are left (`Removed`, by the parity of the quotes before a
piece). Then the text is cut to 200 characters, which may leave a command's word at the end.
`FirewallSet` is false because no code calls `set_firewall()`. `GetRelevant` is the query with its
cap of 50, the test for a word of the query, and the cap of 20; `PromptRows` the firewall and the
planner's cap of 10 or 8 behind it.

**Planners.** An answer is a service's failure, an unreadable text or a sequence of items.
The three planners differ in what they do about an item that cannot be read, and in where
they turn to next; each way is an operator (`Parse`, `FromAnswer`, `StubPlan`).

**Snapshots.** `CallTake`, `Make`, `Resume`, `GiveUp` are `take()` around its process, with
`last` set by whoever resumes last. The system is the set of commands whose action it
shows; a snapshot is a copy of that. A rollback leaves the running system as it is and chooses
what the next boot starts (`boot`). A process given up on may still make its snapshot or perform
its rollback later (`strays`), also after a later call has performed its own (`late`).

**ConfigRestore.** `BackUpFile` and `Restore` go file by file and may stop at each;
`restore_from_snapshot()` does not look at what the backup returned, so that a second try
overwrites a good backup with a half-restored configuration: the history `kept` is the
configuration at the start of the latest restore and whether its backup was whole. Files
are edited by others in between (`Edit`).

## 3. Runs

| Run | Bounds | What it shows |
|---|---|---|
| `supervisor` | 3 tools, limits 3 a window / 5 a session / 2 per tool, windows 2 and 3, clock to 6 | the three limits over the true history; the deques lose nothing that still counts; refinement of `ActionBudget` |
| `audit_log` | two threads on one instance, a third on another, 3 entries, clock to 3, crashes, failing commits, clock steps, tampering | an unaltered log verifies until calls overlap, a commit fails or the clock is set back; nothing acknowledged is lost; links never dangle |
| `gate` | 3 proposals, 2 threads, end of input | safety and liveness of the gate, before and after a shutdown, and that it keeps `GateContract` |
| `gate_ui_doc` (violation) | 2 proposals | "rejected by user" without any user having been asked |
| `ui` | 2 connections, 2 messages | replies come in turn; every wait and the server end |
| `ui_clicks_doc` (violation) | 2 connections, 2 messages | a click that confirms what a command asks is read when the command is over |
| `tagger` | 2 devices, 2 readers, 3 events each | delivery in order and once; no live reader dropped |
| `tagger_doc` (violation) | 2 events each | a lost race to remove a reader ends a device's task |
| `agent` | 2 clients, two plans of two actions, both kinds of Python, questions at the terminal and over the socket | truthful answers, snapshots and barrier before running, what the shutdown ends, termination |
| `agent_stop_doc` (violation) | 1 client | an action starts after "Shutdown complete." |
| `executor` | one request of every kind, four applications: allowed, denied, both, neither | nothing is started twice, nor typed twice unless AT-SPI raised after typing; results are true, every dispatch returns |
| `side_parts` | up to 3 marks, scores at each threshold; every tool, form, what is before and behind it, and risk; texts of 3 pieces; histories of 5 rows with caps of 4, 3 and 2; answers of 3 items; 2 commands and 2 rollbacks; 2 files, 3 versions, 5 calls | monotone risk, ratings and deny lists that back each other up, prompts in which quoted commands stay out and preferences return, whole plans or the stub; the last snapshot, rollbacks and restores |

Why the bounds are enough. *Supervisor*: the two windows differ, the clock outlasts both
twice over, and every limit is reached with and without the others. *Audit log*: three
entries make a branch and a row after it, and the third thread writes through an object of its
own; crashes and restarts are unbounded. *Gate*: three
prompts and two threads let every thread be stuck in an abandoned prompt with one more
prompt in the queue; the socket comes and goes without bound. *Tagger*: two tasks suffice
for every race on the shared list, two readers for a removal that shifts another's place
under a suspended loop. *Agent*: two tasks meet at every await; the plans have an action of
each kind, with a snapshot, for the input broker, behind the barrier and malformed, and each kind has
one before or behind it. *Decisions*: no rule needs more than two marks at once, three quoted pieces give two closing quotes that paths have eaten and a quotation between them, and
a score between two thresholds behaves like one next to them; five rows are one more than
the largest cap, and the three caps differ; three items put an unreadable one before,
between and after readable ones. *Executor*: requests
share nothing but the desktop, which changes freely, so one is enough. *UI server*: two
browsers share the agent and its restarts, two messages let a late answer or a
click meet the next command; the proofs cover more. *Snapshots*: two calls overlap in
every order, two rollbacks give one that was given up and one that is waited for.
*Restore*: two files, so that a copy stops between them, and three versions, so that an
edit differs from both the kept and the restored content. The caps on clocks, entries,
events, messages and calls are in guards and named (`MaxTime`, `MaxEntries`, `MaxEvents`,
`MaxMarks`, `MaxMessages`, `MaxRows`, `MaxPieces`, `MaxItems`, `MaxRollbacks`, `MaxVersion`, `MaxCalls`). The modules' `TypeOK`s
are theorems and are not listed in the runs.

`CHECK_DEADLOCK FALSE` stands where the system really stops: a gate whose process has
exited or whose proposals are all decided, an agent after its exit, devices that were
unplugged, a judged subject, a server that is down, commands that have all acted.

### Fairness

`ConfirmGate!FairSpec`: weak fairness of each task's `Decide` (an expired timer or a
completed read is a ready callback, and the loop runs those), of `StartWorker` (a free
thread takes the next item) and of `Exit`. None of `TypeLine`, `InputEnds` or `Finish`: the
user may stay silent and an action may take any time, so that `OnlyInputOrActionHoldsUp` names
the two as what can hold up the end of the process.
`AgentLoop!FairSpec`: weak fairness of each task's next step, since the awaits have
timers (30 s for the command, 60 s for questions, 10 s for a snapshot, 5 s for a
notification, 30 s for a command's execution), and of the shutdown and the exit. Two awaits have
none, and nothing is assumed of them: the input broker's `readline()`
(`execution/executor.py:234`) and the answer's `writer.drain()` (`core/agent_main.py:258`). Nor is it
assumed that a line is ever typed for a thread left in `input()`. Both liveness properties name
these as their excuses.
`UIServer!FairSpec`: weak fairness of each connection's `Handler` (a message that is there,
an expired timer and a closed connection are ready callbacks) and of `Down`; nothing is
assumed of browsers and of the agent.
`Executor!FairSpec`: weak fairness of each task's timers (5 s for the proxy, 1.5 s for the
window, 30 s for a command) and of `TypeKeys`: AT-SPI's calls are taken to return or raise.
Nothing is assumed of the proxy, the bus and the broker.

### Findings

* `security/confirm_gate.py` with `ui/ui_server.py:212`: no browser is ever shown a request
  while the UI server runs; the proposal is logged as rejected by the user.
* `security/input_tagger.py:135`: the second task to remove a dead reader ends.
* `core/agent_main.py:119`: a cancellation caught by the gate's sleep, or by `wait_for()` of
  Python 3.11 and older, lets a plan go on after the shutdown was logged.
* `ui/ui_server.py:155`: the page's click on a confirmation is read when the command that asks
  for it is over, against `README.md:194` and `ui/ui_server.py:168-170`.

Seen while modelling and not stated as a run:

* memory: no code gives it its firewall (`core/memory.py:71`), so that what
  `is_safe_for_learning()` refuses is learned; "cognitive entries first" (`core/memory.py:43`)
  is an order by time in the query;
* planners: they are not "identical" (`core/planner_universal.py:15`, `core/planner_ollama.py:4`):
  the stubs differ on "start", a list with other text around it is read by two of the three, and
  only the universal one turns to the stub when a call fails or an answer cannot be read;
* audit log: `verify_chain()` also fails on a log nobody altered, after two threads' or objects'
  calls overlapped, after a commit that failed, and after the clock was set back;
* UI server: `voice_audio` is dropped (`ui/ui_server.py:176`) while the page says "Voice sent…"
  (`ui/index.html:306`), the page ignores the reply to a resume, and one message that is JSON but
  no object, or has a text that is no string, ends its browser's connection
  (`ui/ui_server.py:120,139`);
* agent loop: memory's write that raises after a success (`core/agent_main.py:124`) leaves the
  client without an answer and drops the rest of the plan; a cancelled notification is reported as
  "Failed: … unknown error" (`core/agent_main.py:178-185`);
* memory's substitutions (`core/memory.py:99-100`) are in the wrong order: a path takes the
  closing back quote behind it, after which the wrong quotes are paired, and a command between two
  such quotations stays readable and is let back into a prompt; the patterns of the firewall do not
  know `mkfs` or `shutdown`. Quotations first would mend it;
* deny lists: what is denied only once, by the policy engine's substrings alone: "rm -rf" behind
  a line break or with a letter before it ("farm -rf /"), "dd if=/dev/zeros", "xwget … | shuf";
* hardware: `fingerprint.py:88` says its actions match the executor's dispatch table, which knows
  neither `system_snapshot` nor `run_terminal_interactive`; its test for "finger" is met by "no
  fingers enrolled"; a check that times out is taken for a finding;
* recovery: `rollback()` and the functions of `restore_config.py` are called by nothing;
  `restore_from_snapshot()` ignores the result of its backup, a second try after a failed one
  overwrites the good backup; the undoing leaves files the restore has created, and brings back
  deleted ones an older backup has; `recovery/snapshot.py` and the restore use different
  configurations of snapper ("root" and "ai-os"); a rollback that was given up after 30 s, and
  answered False, may still be performed after a later one that answered True, and override it;
* the rest: the missing names that keep the agent from starting
  (`core/agent_main.py:19,80,103,127`); the supervisor halts at the fourth equal call in the
  window (`supervisor.py:72`), its documents say the third; `browse_url` can open nothing
  (`core/agent_main.py:173` starts a command named "firefox --new-tab …"); AT-SPI's keys and the
  broker's go to whatever has the focus by then, while `executor.py:61-62` says of the deny list
  that the AI never touches these; when AT-SPI raises after it has typed, the broker types the
  text again (`executor.py:303`); the action log's NOTIFY level says "unless cancelled"
  (`confirm_gate.py:33`) and nothing cancels; a yes typed for one open prompt may be read by
  another; the fifth block pattern (`confirm_gate.py:56`) looks for a key no proposal has; the
  validator asks for a rollback only for four tools, not for every risk of 5 or more
  (`secondary_validator.py:78`, against `docs/security-model.md:56`); the filter of external
  content leaves the blocked words inside its own marker (`core/context_firewall.py:93-110`);
  `"Alacritty"` among the allowed classes never matches a lower-cased name
  (`execution/executor.py`); the executor looks for the D-Bus proxy at another path than the
  proxy listens on.

Some properties excuse what the code really does, and say so: a live reader of the tagger may be
passed over for an event when the list shrinks under the loop (`InOrderOnce` is about order and
repetition only); a `take()` that overlaps a later one may leave the older number
(`LastNotOvertaken`); a restore whose backup failed cannot be taken back (`RestoreUndoable`); a
line typed for one prompt may be read by another, as the terminal has no names
(`RunsOnlyIfApproved` counts the prompt that read it).

## 4. What is proved

The proofs hold for every value of the constants under the assumptions the modules name
(`SupervisorAssumption`, `AuditAssumption`, `GateAssumption`, `ExecutorAssumption`,
`UIAssumption`, `AgentAssumption`, `TaggerAssumption`, `RiskAssumption`, `LearningAssumption`,
`PlannersAssumption`, `SnapshotsAssumption`, `RestoreAssumption`). They are
the constants' types, of `LearningAssumption` also the order of the three caps, and of
`ExecutorAssumption` also that no installed command is called `freedesktop.Application`, `gnome.Shell` or a command line.

* **Supervisor.** `IInv` is the conjunction of `TypeOK`, `HistoryInOrder`, `DequesComplete`
  and the three bounds. The bounds alone are not inductive: a grant is decided from the
  deques, so the proof needs that each deque is the history without a prefix that has left
  its window (`MinuteIsSuffix`, `ToolsAreSuffix`), which in turn needs the history to be
  in clock order. `Refinement` follows: a deque then counts exactly what `ActionBudget`
  counts over the history (`PolicyCountsMinute`, `PolicyCountsLoop`).
* **AuditLog.** `Durable` needs `InFlight`: between insert and commit a row is in the
  table or in its connection's transaction, also when another thread of the instance
  committed it. `UndisturbedVerifies` needs `Chained`: while nothing has disturbed the log, the
  rows are in the order of their times, both links of each lead to the one before, one call at a
  time of one object at a time continues them, and the cached hash is the last row's or is about
  to be. What `disturbed` records (calls or objects that overlap, a failed commit, a clock set
  back) is what the run reaches and the invariant excludes; with two instances that write in turn,
  each from its own cached hash (`security/audit_log.py:53`), a log nobody altered does not verify.
  `LinksBack` needs nothing of the kind: its invariant `CachesLinked` is that every hash that is
  cached, also a stale one, and both links of a row in flight or in an open transaction are the
  genesis or the hash of a row of the table, so that the two readings of the cached hash may differ.
* **ConfirmGate.** `Approved` needs `StageTells`, what each stage implies for the other
  fields; `Served` and `Logged` are inductive beside it. `KeepsContract` is the refinement: each
  step of a proposal is one step of its fate or none, and the shutdown, which may end several
  proposals at once and let any of the others go on (`ShutdownOf`), is `Close`. `PromptWasAsked`
  has the hypothesis that there never is a socket, which is where the run `gate_ui_doc` finds its
  counterexample.
* **InputTagger.** `InOrderOnce` is not inductive: what a loop writes next is new to its reader
  only if the loop has not served it in this round, and the list shrinks and grows under the
  suspended loop. `ServedBehind` says where the served are: a reader that is still there and has
  got the loop's event is behind the loop's place, in the list as it is now. A removal keeps it,
  for what remains moves only forward (`AtPlacesKeep`), and so does an accept, which appends; with
  nobody in the list twice (`LiveKept`) the reader at the loop's place is then one it has not
  served. `LiveKept` needs `DeadAreGone`, that only writers whose reader is gone are given up, and
  `NewcomersOut`, that a writer that was removed does not return. `PassedBehind` is the same
  argument for the readers that are given up (`NoneGivenUpTwice`), and `LoopListed` for one device
  alone (`AloneGoesOn`): its hypothesis, that any two devices are equal, is what `tagger_doc` denies.
* **UIServer.** `Orderly` is the invariant of one connection: what is queued was sent by it and
  is newer than all it has been shown (`Queued`), a command is at work exactly while the handler
  waits (`AtWork`), it is then the last the browser was shown as "thinking", unless it is a resume
  (`Pending`), and what was shown is in turn (`Told`). `RepliesInTurn` follows. The point that makes
  it inductive is that a handler takes no message while it waits, whatever the agent, its socket
  and the browser do.
* **AgentLoop.** `Sound` is the invariant of one client: how far its plan is (`Progress`), that
  what was dispatched is over, running, or was cut off as it ran by a server that does not wait
  (`Dispatched`), what its lines and the memory say, with the cancelled notifications and the
  recording that raised (`Reported`), the consent and the snapshot by stage (`Prepared`), and that
  only a server that does not wait leaves a task at work after the shutdown (`Late`). From it come
  `AnswersTrue`, `NoneUnprepared` and `WaitingServer`. A step is of one client, but for the
  shutdown, which takes each client where it is, to its end or past a cancellation that was caught.
  The theorems hold for any number of clients and any set of plans.
* **Snapshots and restore.** `LastIsLatest` and `RolledBack` rest on `SnapshotsSafe`: a
  snapshot is made once and its number is the one its command gets, if it gets one (`Numbered`);
  a snapshot shows only commands that have acted, and not the one whose `take()` returned it,
  and what the next boot starts is the target of a rollback that was performed or one of the
  strays that were performed since (`Shows`); and once a later `take()` has returned its number, the kept one has moved on
  for good (`MovedOn`).
  `RestoreTakenBack` rests on `BackupHolds`: while files are copied those that are done have
  the content of the start in the backup, and after a whole copy all have.
* **Rule tables.** `NeverLowered` comes from one lemma: the classifier's level is the highest any
  evidence calls for, so that it is monotone in each test (`RankAtLeast`). `ReachesUser` and
  `NeverAlone` go through the tables by type and by text; the hypotheses of the latter are the word
  boundaries the validator and the channel guard need, and TLC finds a counterexample without any
  one of them.
* **Memory and planners.** One subject is judged in a behaviour (`JudgedInvariant`), so
  that each property is one of its operators. What a filter leaves of a list is at the places it
  keeps: `NthInOrder` counts them off, by the size of what is up to each, in order, each once and
  no later than where it is. From it `NeverHalf` has that a plan is all of the known items in their
  order, and `NotInVain` that an allowed row comes no later in each of the three lists than in the one
  before, while the rows of interest before it, fewer than `PromptLimit`, are what it is counted
  behind (`AllowedStays`). `NothingQuoted` is about texts of any length: every quotation has two quotes, of which a path
  takes the closing one. If no path has taken one, an even number is before each piece outside of a
  quotation and an odd number before each inside (`NoneEaten`, by the cardinality of `Pairs`), and
  every quotation is removed. If one has, the number of all is odd (`OneEaten`), so that the last
  quote stays and the firewall blocks the row by it, unless the text was cut before it.
* **Executor.** A step is of one request (`Frame`), so each invariant is one of a single
  request. `LaunchedOnce` rests on `LaunchInv`: a request the proxy has let through names a
  service, hence no command the fall-back could start, and one it has not looked at yet has
  started nothing or names a command, which the proxy will refuse. `TypingInv` bounds what a
  request has reached while the broker still holds its text, by whether AT-SPI raised
  (`ReachesOne`), and says that nothing is in flight for a request that was refused, and that an
  application of the deny list gets a text by the broker or in place of an allowed one whose
  field had the focus when it was looked for (`RefusedForGood`).
  `ResultInv` gives what each stage stands for (`ToldTruly`).

Only model-checked: the liveness properties (`EveryProposalDecided`,
`OnlyInputOrActionHoldsUp`, `EveryCommandEnds`, `EveryDispatchReturns`, `EveryWaitEnds` and the two
`ShutdownEnds`), since the prover has no rules for fairness and ENABLED. Every other property of a
passing run is a theorem. The models avoid `SelectSeq` and folds, of which the prover knows nothing
but by induction over their arguments, in favour of `AtPlaces` and a recursive function.

## 5. What is not modelled

Cryptography (HMAC stamps, SHA-256 beyond "equal exactly if unaltered") and with it
`security/token_manager.py`; the language models themselves; the browser page; voice;
deployment scripts and profiles. `recovery/recovery_core/mini_planner.py` is a table with a test
for every entry, `core/intent_parser.py` keyword matching that nothing calls, `core/config.py` the
reading of a file. The modules under `memory/` import names that do not exist and cannot be
loaded. `tools/hardware/` is called by nothing; its plans name actions
that `_dispatch` lacks (`run_terminal_interactive`, `core/agent_main.py:151-163`), and whether a step
mends what was found is decided by apt, systemd, rfkill and the device.
`security/learning_guard.py` and the wrappers in `execution/app_tools.py`,
`terminal_tools.py` and `virtual_user.py` are called by nothing and keep no state. Of components that are
"partly" modelled the missing part is: the tagger's key and stamps, the agent's voice input and
the verdicts of two methods that do not exist, the preview of the barrier, the schema and
`filter_external_content()` of memory, which nothing calls, and the sandbox's options of the executor. `PROJECT.json`
lists each with its reason.

## 6. Plan

Done: supervisor and its policy, audit log, confirmation gate and its contract, UI server,
agent loop, input tagger, rule tables, planners, executor and D-Bus proxy,
learning, snapshots and restore; proofs of every safety and action property and of both
refinements.

Next, in this order:

1. The agent loop composed with `GateContract` and with overlapping snapshots of its plan's
   actions, instead of its outside view of both.
2. An abstract specification of the audit log, chains that grow at any of their rows, which
   `LinksToEarlierRow` and `AckedDurable` would follow from.
3. The creation of the token manager's secret by several processes.
