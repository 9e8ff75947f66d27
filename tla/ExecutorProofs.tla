--------------------------- MODULE ExecutorProofs ---------------------------
(***************************************************************************)
(* For any number of requests and any lists: an application is started     *)
(* once for a launch, although the agent gives up on a proxy that goes on; *)
(* a text or a click reaches one application, unless AT-SPI raised after   *)
(* it had typed; nothing is typed after a refusal; and what a dispatched   *)
(* action returns is true.                                                 *)
(***************************************************************************)
EXTENDS Executor, SequenceTheorems, TLAPS

Stages == {"idle", "proxy", "window", "keys", "broker", "shell", "done"}
Targets == Apps \cup {NoApp}

LEMMA AppendGrows ==
  ASSUME NEW T, NEW s \in Seq(T), NEW app \in T
  PROVE  /\ Append(s, app) \in Seq(T)
         /\ Len(s) \in Nat
         /\ Len(Append(s, app)) = Len(s) + 1
         /\ \A k \in 1..Len(Append(s, app)) :
              k # Len(s) + 1 => k \in 1..Len(s) /\ Append(s, app)[k] = s[k]
         /\ Append(s, app)[Len(s) + 1] = app
<1>1. Len(s) \in Nat
  BY LenProperties
<1>2. Append(s, app) \in Seq(T)
  BY AppendProperties
<1>3. Len(Append(s, app)) = Len(s) + 1
  BY AppendProperties
<1>4. \A i \in 1..Len(s) : Append(s, app)[i] = s[i]
  BY AppendProperties
<1>5. Append(s, app)[Len(s) + 1] = app
  BY AppendProperties
<1>6. ASSUME NEW k \in 1..(Len(s) + 1), k # Len(s) + 1
  PROVE  k \in 1..Len(s)
  BY <1>1, <1>6
<1>7. \A k \in 1..(Len(s) + 1) : k # Len(s) + 1 => k \in 1..Len(s) /\ Append(s, app)[k] = s[k]
  BY <1>6, <1>4
<1>8. \A k \in 1..Len(Append(s, app)) : k # Len(s) + 1 => k \in 1..Len(s) /\ Append(s, app)[k] = s[k]
  BY <1>7, <1>3, Zenon
<1> QED
  BY <1>1, <1>2, <1>3, <1>8, <1>5, Zenon

(* A launch is a job, and so is every other request.                       *)
LEMMA JobType ==
  /\ \A name \in Names : [kind |-> "launch", name |-> name] \in Jobs
  /\ \A names \in SUBSET Apps : [kind |-> "type", names |-> names] \in Jobs
  /\ \A names \in SUBSET Apps : [kind |-> "click", names |-> names] \in Jobs
  /\ [kind |-> "open"] \in Jobs
  /\ [kind |-> "run"] \in Jobs
<1>1. \A name \in Names : [kind |-> "launch", name |-> name] \in Jobs
  BY DEF Jobs
<1>2. \A names \in SUBSET Apps : [kind |-> "type", names |-> names] \in Jobs
  BY DEF Jobs
<1>3. \A names \in SUBSET Apps : [kind |-> "click", names |-> names] \in Jobs
  BY DEF Jobs
<1>4. [kind |-> "open"] \in Jobs /\ [kind |-> "run"] \in Jobs
  BY DEF Jobs
<1> QED
  BY <1>1, <1>2, <1>3, <1>4

(* The types of the next state, part by part.                              *)
LEMMA TypesNext ==
  ASSUME job' \in [Requests -> Jobs \cup {NoJob}],
         stage' \in [Requests -> Stages],
         call' \in [Requests -> {"none", "sent", "calling", "ok", "error"}],
         text' \in [Requests -> {"none", "sent", "typed"}],
         aim' \in [Requests -> Targets],
         result' \in [Requests -> {"none", "ok", "failed", "denied"}],
         running' \subseteq Apps, focus' \in Targets,
         started' \in [Requests -> Nat],
         touched' \in [Requests -> Seq(Targets)],
         raised' \subseteq Requests
  PROVE  TypeOK'
BY DEF TypeOK, Stages, Targets

LEMMA TypesNow ==
  ASSUME TypeOK
  PROVE  /\ job \in [Requests -> Jobs \cup {NoJob}]
         /\ stage \in [Requests -> Stages]
         /\ call \in [Requests -> {"none", "sent", "calling", "ok", "error"}]
         /\ text \in [Requests -> {"none", "sent", "typed"}]
         /\ aim \in [Requests -> Targets]
         /\ result \in [Requests -> {"none", "ok", "failed", "denied"}]
         /\ running \subseteq Apps /\ focus \in Targets
         /\ started \in [Requests -> Nat]
         /\ touched \in [Requests -> Seq(Targets)]
         /\ raised \subseteq Requests
BY DEF TypeOK, Stages, Targets

(* The history of a request's starts only counts.                          *)
LEMMA StartedType ==
  ASSUME NEW r \in Requests, started \in [Requests -> Nat],
         started' = started \/ started' = [started EXCEPT ![r] = @ + 1]
  PROVE  started' \in [Requests -> Nat]
<1>1. started[r] + 1 \in Nat
  OBVIOUS
<1> QED
  BY <1>1

LEMMA TypeInductive ==
  ASSUME TypeOK, [Next]_vars
  PROVE  TypeOK'
<1>1. ASSUME NEW r \in Requests, Launch(r)
      PROVE  TypeOK'
  <2>1. PICK name \in Names :
          /\ Dispatch(r, [kind |-> "launch", name |-> name])
          /\ \/ Popen(r, name) /\ UNCHANGED call
             \/ /\ Goto(r, "proxy")
                /\ call' = [call EXCEPT ![r] = "sent"]
                /\ UNCHANGED <<result, started>>
    BY <1>1 DEF Launch
  <2>2. job' \in [Requests -> Jobs \cup {NoJob}]
    BY <2>1, JobType, TypesNow DEF Dispatch
  <2>3. /\ stage' \in [Requests -> Stages]
        /\ call' \in [Requests -> {"none", "sent", "calling", "ok", "error"}]
        /\ result' \in [Requests -> {"none", "ok", "failed", "denied"}]
    BY <2>1, TypesNow DEF Popen, Goto, Return, Stages
  <2>4. UNCHANGED <<text, aim, running, focus, touched, raised>>
    BY <1>1 DEF Launch, desktop
  <2>5. started' \in [Requests -> Nat]
    BY <2>1, TypesNow, StartedType DEF Popen
  <2> QED
    BY <2>2, <2>3, <2>4, <2>5, TypesNow, TypesNext
<1>2. ASSUME NEW r \in Requests, Type(r)
      PROVE  TypeOK'
  <2>1. PICK names \in SUBSET Apps :
          /\ Dispatch(r, [kind |-> "type", names |-> names])
          /\ \/ Found(names) = {} /\ ToBroker(r) /\ UNCHANGED aim
             \/ \E app \in Found(names) :
                  \/ ~IsAllowed(app) /\ Return(r, "denied") /\ UNCHANGED <<text, aim>>
                  \/ IsAllowed(app) /\ LookForField(r, app)
    BY <1>2 DEF Type
  <2>2. job' \in [Requests -> Jobs \cup {NoJob}]
    BY <2>1, JobType, TypesNow DEF Dispatch
  <2>3. /\ stage' \in [Requests -> Stages]
        /\ text' \in [Requests -> {"none", "sent", "typed"}]
        /\ result' \in [Requests -> {"none", "ok", "failed", "denied"}]
    BY <2>1, TypesNow DEF LookForField, ToBroker, Goto, Return, Stages
  <2>4. aim' \in [Requests -> Targets]
    <3>1. \A app \in Found(names) : app \in Targets
      BY TypesNow DEF Found, Targets
    <3> QED
      BY <2>1, <3>1, TypesNow DEF LookForField
  <2>5. UNCHANGED <<call, running, focus, started, touched, raised>>
    BY <1>2 DEF Type, desktop
  <2> QED
    BY <2>2, <2>3, <2>4, <2>5, TypesNow, TypesNext
<1>10. ASSUME NEW r \in Requests, TypeKeys(r)
       PROVE  TypeOK'
  <2>1. /\ stage' \in [Requests -> Stages]
        /\ text' \in [Requests -> {"none", "sent", "typed"}]
        /\ result' \in [Requests -> {"none", "ok", "failed", "denied"}]
        /\ raised' \subseteq Requests
    BY <1>10, TypesNow DEF TypeKeys, ToBroker, Goto, Return, Stages
  <2>2. Append(touched[r], focus) \in Seq(Targets)
    BY TypesNow, AppendGrows
  <2>3. touched' \in [Requests -> Seq(Targets)]
    BY <1>10, <2>2, TypesNow DEF TypeKeys
  <2>4. UNCHANGED <<job, call, aim, running, focus, started>>
    BY <1>10 DEF TypeKeys, desktop
  <2> QED
    BY <2>1, <2>3, <2>4, TypesNow, TypesNext
<1>3. ASSUME NEW r \in Requests, Click(r)
      PROVE  TypeOK'
  <2>1. PICK names \in SUBSET Apps :
          /\ Dispatch(r, [kind |-> "click", names |-> names])
          /\ \/ Return(r, "failed") /\ UNCHANGED touched
             \/ \E app \in Found(names) :
                  /\ touched' = [touched EXCEPT ![r] = Append(@, app)]
                  /\ Return(r, "ok") \/ Return(r, "failed")
    BY <1>3 DEF Click
  <2>2. job' \in [Requests -> Jobs \cup {NoJob}]
    BY <2>1, JobType, TypesNow DEF Dispatch
  <2>3. /\ stage' \in [Requests -> Stages]
        /\ result' \in [Requests -> {"none", "ok", "failed", "denied"}]
    BY <2>1, TypesNow DEF Goto, Return, Stages
  <2>4. touched' \in [Requests -> Seq(Targets)]
    <3>1. \A app \in Targets : Append(touched[r], app) \in Seq(Targets)
      BY TypesNow, AppendGrows
    <3>2. \A app \in Found(names) : app \in Targets
      BY TypesNow DEF Found, Targets
    <3>3. \/ touched' = touched
          \/ \E app \in Targets : touched' = [touched EXCEPT ![r] = Append(@, app)]
      BY <2>1, <3>2
    <3> QED
      BY <3>1, <3>3, TypesNow
  <2>5. UNCHANGED <<call, text, aim, running, focus, started, raised>>
    BY <1>3 DEF Click, desktop
  <2> QED
    BY <2>2, <2>3, <2>4, <2>5, TypesNow, TypesNext
<1>4. ASSUME NEW r \in Requests, OpenFile(r) \/ Run(r)
      PROVE  TypeOK'
  <2>1. job' \in [Requests -> Jobs \cup {NoJob}]
    BY <1>4, JobType, TypesNow DEF OpenFile, Run, Dispatch
  <2>2. /\ stage' \in [Requests -> Stages]
        /\ result' \in [Requests -> {"none", "ok", "failed", "denied"}]
    BY <1>4, TypesNow DEF OpenFile, Run, Goto, Return, Stages
  <2>3. UNCHANGED <<call, text, aim, running, focus, touched, raised>>
    BY <1>4 DEF OpenFile, Run, desktop
  <2>4. started' \in [Requests -> Nat]
    BY <1>4, TypesNow, StartedType DEF OpenFile, Run
  <2> QED
    BY <2>1, <2>2, <2>3, <2>4, TypesNow, TypesNext
<1>5. ASSUME NEW r \in Requests, HandleConnection(r) \/ BusCall(r)
      PROVE  TypeOK'
  <2>1. call' \in [Requests -> {"none", "sent", "calling", "ok", "error"}]
    BY <1>5, TypesNow DEF HandleConnection, BusCall
  <2>2. UNCHANGED <<job, stage, text, aim, result, running, focus, touched, raised>>
    BY <1>5 DEF HandleConnection, BusCall, desktop
  <2>3. started' \in [Requests -> Nat]
    BY <1>5, TypesNow, StartedType DEF HandleConnection, BusCall
  <2> QED
    BY <2>1, <2>2, <2>3, TypesNow, TypesNext
<1>6. ASSUME NEW r \in Requests,
             Answered(r) \/ NotAnswered(r) \/ WindowAwaited(r) \/ RunEnds(r) \/ BrokerAnswers(r)
      PROVE  TypeOK'
  <2>1. /\ stage' \in [Requests -> Stages]
        /\ result' \in [Requests -> {"none", "ok", "failed", "denied"}]
    BY <1>6, TypesNow DEF Answered, NotAnswered, WindowAwaited, RunEnds, BrokerAnswers,
       Popen, Goto, Return, Stages
  <2>2. UNCHANGED <<job, call, text, aim, running, focus, touched, raised>>
    BY <1>6 DEF Answered, NotAnswered, WindowAwaited, RunEnds, BrokerAnswers, desktop
  <2>3. started' \in [Requests -> Nat]
    BY <1>6, TypesNow, StartedType DEF Answered, NotAnswered, WindowAwaited, RunEnds, BrokerAnswers,
       Popen
  <2> QED
    BY <2>1, <2>2, <2>3, TypesNow, TypesNext
<1>7. ASSUME NEW r \in Requests, BrokerTypes(r)
      PROVE  TypeOK'
  <2>1. Append(touched[r], focus) \in Seq(Targets)
    BY TypesNow, AppendGrows
  <2>2. /\ text' \in [Requests -> {"none", "sent", "typed"}]
        /\ touched' \in [Requests -> Seq(Targets)]
    BY <1>7, <2>1, TypesNow DEF BrokerTypes
  <2>3. UNCHANGED <<job, stage, call, aim, result, running, focus, started, raised>>
    BY <1>7 DEF BrokerTypes, desktop
  <2> QED
    BY <2>2, <2>3, TypesNow, TypesNext
<1>8. CASE DesktopChanges
  BY <1>8, TypesNow, TypesNext DEF DesktopChanges, Targets
<1>9. CASE UNCHANGED vars
  BY <1>9, TypesNow, TypesNext DEF vars, desktop
<1> QED
  BY <1>1, <1>2, <1>3, <1>4, <1>5, <1>6, <1>7, <1>8, <1>9, <1>10 DEF Next

(* The tasks of the agent, the proxy, the broker and the desktop keep      *)
(* their types.                                                            *)
THEOREM TypeCorrect == Spec => []TypeOK
<1>1. << >> \in Seq(Apps \cup {NoApp})
  BY EmptySeq
<1>2. Init => TypeOK
  BY <1>1 DEF Init, TypeOK
<1> QED
  BY <1>2, TypeInductive, PTL DEF Spec

-----------------------------------------------------------------------------
(* A step is of one request or of the desktop; the others stay as they are. *)

Moves(r) ==
  \/ Launch(r) \/ Type(r) \/ TypeKeys(r) \/ Click(r) \/ OpenFile(r) \/ Run(r)
  \/ HandleConnection(r) \/ BusCall(r)
  \/ Answered(r) \/ NotAnswered(r) \/ WindowAwaited(r) \/ RunEnds(r)
  \/ BrokerTypes(r) \/ BrokerAnswers(r)

Unmoved(r) ==
  /\ job'[r] = job[r] /\ stage'[r] = stage[r]
  /\ call'[r] = call[r] /\ text'[r] = text[r] /\ aim'[r] = aim[r] /\ result'[r] = result[r]
  /\ started'[r] = started[r] /\ touched'[r] = touched[r]
  /\ r \in raised' <=> r \in raised

LEMMA Frame ==
  ASSUME TypeOK, [Next]_vars, NEW r \in Requests
  PROVE  Moves(r) \/ Unmoved(r)
<1>1. ASSUME NEW q \in Requests, q # r, Launch(q) \/ OpenFile(q) \/ Run(q)
      PROVE  Unmoved(r)
  BY <1>1, TypesNow DEF Launch, OpenFile, Run, Dispatch, Popen, Goto, Return, Unmoved, desktop
<1>2. ASSUME NEW q \in Requests, q # r, Type(q) \/ TypeKeys(q)
      PROVE  Unmoved(r)
  BY <1>2, TypesNow DEF Type, TypeKeys, LookForField, ToBroker, Dispatch, Goto, Return, Unmoved, desktop
<1>3. ASSUME NEW q \in Requests, q # r, Click(q)
      PROVE  Unmoved(r)
  BY <1>3, TypesNow DEF Click, Dispatch, Goto, Return, Unmoved, desktop
<1>4. ASSUME NEW q \in Requests, q # r,
             HandleConnection(q) \/ BusCall(q) \/ BrokerTypes(q) \/ BrokerAnswers(q)
      PROVE  Unmoved(r)
  BY <1>4, TypesNow DEF HandleConnection, BusCall, BrokerTypes, BrokerAnswers, Goto, Return,
     Unmoved, desktop
<1>5. ASSUME NEW q \in Requests, q # r,
             Answered(q) \/ NotAnswered(q) \/ WindowAwaited(q) \/ RunEnds(q)
      PROVE  Unmoved(r)
  BY <1>5, TypesNow DEF Answered, NotAnswered, WindowAwaited, RunEnds, Popen, Goto, Return,
     Unmoved, desktop
<1>6. CASE DesktopChanges \/ UNCHANGED vars
  BY <1>6 DEF DesktopChanges, vars, Unmoved
<1> QED
  BY <1>1, <1>2, <1>3, <1>4, <1>5, <1>6 DEF Next, Moves

-----------------------------------------------------------------------------
(* The launches *)

(* A name the proxy lets through is no application's, so the fall-back     *)
(* cannot start again what the proxy may still be starting.                *)
LaunchInv(r) ==
  /\ stage[r] = "idle" => started[r] = 0 /\ call[r] = "none"
  /\ stage[r] = "proxy" => call[r] # "none" /\ (call[r] # "ok" => started[r] = 0)
  /\ call[r] = "sent" => started[r] = 0 \/ job[r].name \in Apps
  /\ call[r] \in {"calling", "ok"} => ValidateRequest(job[r].name)
  /\ call[r] = "calling" => started[r] = 0
  /\ started[r] <= 1

LEMMA ServiceIsNoApp ==
  ASSUME NEW name, ValidateRequest(name)
  PROVE  name \notin Apps
BY ExecutorAssumption DEF ValidateRequest, ALLOWED_CALLS

LEMMA LaunchInductive ==
  ASSUME TypeOK, [Next]_vars, NEW r \in Requests, LaunchInv(r)
  PROVE  LaunchInv(r)'
<1>0. /\ stage[r] \in Stages /\ started[r] \in Nat
      /\ call[r] \in {"none", "sent", "calling", "ok", "error"}
  BY TypesNow
<1>1. CASE Unmoved(r)
  BY <1>1 DEF Unmoved, LaunchInv
<1>2. CASE Launch(r)
  <2>1. PICK name \in Names :
          /\ stage[r] = "idle"
          /\ job' = [job EXCEPT ![r] = [kind |-> "launch", name |-> name]]
          /\ \/ Popen(r, name) /\ UNCHANGED call
             \/ /\ Goto(r, "proxy")
                /\ call' = [call EXCEPT ![r] = "sent"]
                /\ UNCHANGED <<result, started>>
    BY <1>2 DEF Launch, Dispatch
  <2>2. \/ /\ stage'[r] \in {"window", "done"} /\ call'[r] = call[r]
           /\ started'[r] \in {started[r], started[r] + 1}
        \/ /\ stage'[r] = "proxy" /\ call'[r] = "sent" /\ started'[r] = started[r]
    BY <2>1, TypesNow DEF Popen, Goto, Return
  <2> QED
    BY <1>0, <2>1, <2>2 DEF LaunchInv
<1>3. CASE Type(r) \/ TypeKeys(r) \/ Click(r)
  <2>1. /\ stage[r] \in {"idle", "keys"} /\ stage'[r] \in {"keys", "broker", "done"}
        /\ call'[r] = call[r] /\ started'[r] = started[r]
        /\ stage[r] = "keys" => job'[r] = job[r]
    BY <1>3, TypesNow DEF Type, TypeKeys, Click, LookForField, ToBroker, Dispatch, Goto, Return
  <2> QED
    BY <2>1 DEF LaunchInv
<1>4. CASE OpenFile(r) \/ Run(r)
  <2>1. /\ stage[r] = "idle" /\ stage'[r] \in {"shell", "done"}
        /\ call'[r] = call[r] /\ started'[r] \in {started[r], started[r] + 1}
    BY <1>4, TypesNow DEF OpenFile, Run, Dispatch, Goto, Return
  <2> QED
    BY <1>0, <2>1 DEF LaunchInv
<1>5. CASE HandleConnection(r)
  <2>1. /\ call[r] = "sent" /\ job'[r] = job[r] /\ stage'[r] = stage[r]
        /\ started'[r] = started[r]
        /\ call'[r] \in {"calling", "error"}
        /\ call'[r] = "calling" => ValidateRequest(job[r].name)
    BY <1>5, TypesNow DEF HandleConnection
  <2> QED
    BY <2>1, ServiceIsNoApp DEF LaunchInv
<1>6. CASE BusCall(r)
  <2>1. /\ call[r] = "calling" /\ job'[r] = job[r] /\ stage'[r] = stage[r]
        /\ \/ call'[r] = "ok" /\ started'[r] = started[r] + 1
           \/ call'[r] = "error" /\ started'[r] = started[r]
    BY <1>6, TypesNow DEF BusCall
  <2> QED
    BY <1>0, <2>1 DEF LaunchInv
<1>7. CASE NotAnswered(r)
  <2>1. /\ stage[r] = "proxy" /\ job'[r] = job[r] /\ call'[r] = call[r]
        /\ \/ /\ job[r].name \in Apps
              /\ started'[r] = started[r] + 1 /\ stage'[r] = "window"
           \/ started'[r] = started[r] /\ stage'[r] = "done"
    BY <1>7, TypesNow DEF NotAnswered, Popen, Goto, Return
  <2> QED
    BY <1>0, <2>1, ServiceIsNoApp DEF LaunchInv
<1>8. CASE Answered(r) \/ WindowAwaited(r) \/ RunEnds(r) \/ BrokerAnswers(r)
  <2>1. /\ stage'[r] = "done" /\ job'[r] = job[r] /\ call'[r] = call[r]
        /\ started'[r] = started[r]
    BY <1>8, TypesNow DEF Answered, WindowAwaited, RunEnds, BrokerAnswers, Goto, Return
  <2> QED
    BY <2>1 DEF LaunchInv
<1>9. CASE BrokerTypes(r)
  <2>1. /\ stage'[r] = stage[r] /\ job'[r] = job[r] /\ call'[r] = call[r]
        /\ started'[r] = started[r]
    BY <1>9 DEF BrokerTypes
  <2> QED
    BY <2>1 DEF LaunchInv
<1> QED
  BY <1>1, <1>2, <1>3, <1>4, <1>5, <1>6, <1>7, <1>8, <1>9, Frame DEF Moves

LEMMA LaunchSafe == Spec => [](\A r \in Requests : LaunchInv(r))
<1>1. Init => \A r \in Requests : LaunchInv(r)
  BY DEF Init, LaunchInv
<1>2. TypeOK /\ (\A r \in Requests : LaunchInv(r)) /\ [Next]_vars
        => (\A r \in Requests : LaunchInv(r))'
  BY LaunchInductive
<1> QED
  BY <1>1, <1>2, TypeCorrect, PTL DEF Spec

(* A launch starts an application at most once, however late the proxy     *)
(* acts on a request that the agent gave up.                               *)
THEOREM LaunchedOnce == Spec => []StartedOnce
<1>1. (\A r \in Requests : LaunchInv(r)) => StartedOnce
  BY DEF LaunchInv, StartedOnce
<1> QED
  BY <1>1, LaunchSafe, PTL

-----------------------------------------------------------------------------
(* The texts and the clicks *)

(* While the broker holds a text, the request has reached no application,  *)
(* or one whose call raised; what is refused is never typed; and a denied  *)
(* application is reached by the broker or in place of an allowed one.     *)
TypingInv(r) ==
  /\ stage[r] \in {"idle", "keys"} =>
       /\ text[r] = "none" /\ Len(touched[r]) = 0
       /\ r \notin raised /\ result[r] = "none"
  /\ stage[r] = "keys" => IsAllowed(aim[r])
  /\ text[r] = "sent" => Len(touched[r]) <= IF r \in raised THEN 1 ELSE 0
  /\ Len(touched[r]) <= IF r \in raised THEN 2 ELSE 1
  /\ (\E k \in 1..Len(touched[r]) : touched[r][k] \in DenyListed) =>
       text[r] = "typed" \/ IsAllowed(aim[r])
  /\ result[r] = "denied" => text[r] = "none" /\ Len(touched[r]) = 0

LEMMA TypingInductive ==
  ASSUME TypeOK, [Next]_vars, NEW r \in Requests, TypingInv(r)
  PROVE  TypingInv(r)'
<1>0. /\ stage[r] \in Stages /\ touched[r] \in Seq(Targets) /\ Len(touched[r]) \in Nat
      /\ text[r] \in {"none", "sent", "typed"}
  BY TypesNow, LenProperties
<1>a. ASSUME NEW app \in Targets
      PROVE  /\ Len(Append(touched[r], app)) = Len(touched[r]) + 1
             /\ \A k \in 1..Len(Append(touched[r], app)) :
                  k # Len(touched[r]) + 1 =>
                    k \in 1..Len(touched[r]) /\ Append(touched[r], app)[k] = touched[r][k]
             /\ Append(touched[r], app)[Len(touched[r]) + 1] = app
  BY <1>0, AppendGrows
<1>1. CASE Unmoved(r)
  BY <1>1 DEF Unmoved, TypingInv, IsAllowed
<1>2. CASE Type(r)
  <2>1. PICK names \in SUBSET Apps :
          /\ stage[r] = "idle"
          /\ \/ Found(names) = {} /\ ToBroker(r) /\ UNCHANGED aim
             \/ \E app \in Found(names) :
                  \/ Return(r, "denied") /\ UNCHANGED <<text, aim>>
                  \/ IsAllowed(app) /\ LookForField(r, app)
    BY <1>2 DEF Type, Dispatch
  <2>2. /\ text[r] = "none" /\ Len(touched[r]) = 0 /\ r \notin raised /\ result[r] = "none"
        /\ touched' = touched /\ raised' = raised
    BY <1>2, <2>1 DEF Type, TypingInv
  <2>3. \A value \in {"failed", "denied"} :
          Return(r, value) => stage'[r] = "done" /\ result'[r] = value
    BY TypesNow DEF Goto, Return
  <2>4. ToBroker(r) =>
          /\ stage'[r] \in {"broker", "done"} /\ result'[r] # "denied"
          /\ text'[r] = "none" \/ text'[r] = "sent"
    BY <2>2, TypesNow DEF ToBroker, Goto, Return
  <2>5. \/ /\ stage'[r] \in {"broker", "done"} /\ result'[r] # "denied"
           /\ text'[r] = "none" \/ text'[r] = "sent"
        \/ stage'[r] = "done" /\ text'[r] = "none"
        \/ stage'[r] = "keys" /\ text'[r] = "none" /\ result'[r] = "none" /\ IsAllowed(aim'[r])
    <3>1. CASE ToBroker(r)
      BY <2>4, <3>1
    <3>2. CASE Return(r, "denied") /\ UNCHANGED text
      BY <2>2, <2>3, <3>2
    <3>3. ASSUME NEW app, IsAllowed(app), Goto(r, "keys"),
                 aim' = [aim EXCEPT ![r] = app], UNCHANGED <<text, result>>
          PROVE  stage'[r] = "keys" /\ text'[r] = "none" /\ result'[r] = "none" /\ IsAllowed(aim'[r])
      BY <2>2, <3>3, TypesNow DEF Goto
    <3> QED
      BY <2>1, <3>1, <3>2, <3>3 DEF LookForField
  <2> QED
    BY <2>2, <2>5 DEF TypingInv, IsAllowed
<1>7. CASE Click(r)
  <2>1. PICK names \in SUBSET Apps :
          /\ stage[r] = "idle"
          /\ \/ Return(r, "failed") /\ UNCHANGED touched
             \/ \E app \in Found(names) :
                  /\ IsAllowed(app)
                  /\ touched' = [touched EXCEPT ![r] = Append(@, app)]
                  /\ Return(r, "ok") \/ Return(r, "failed")
    BY <1>7 DEF Click, Dispatch
  <2>2. \A app \in Found(names) : IsAllowed(app) => app \in Targets \ DenyListed
    BY TypesNow DEF Found, IsAllowed, Targets
  <2>3. /\ stage'[r] = "done" /\ result'[r] \in {"ok", "failed"}
        /\ text'[r] = "none" /\ r \notin raised' /\ Len(touched[r]) = 0
        /\ \/ touched'[r] = touched[r]
           \/ \E app \in Targets \ DenyListed : touched'[r] = Append(touched[r], app)
    BY <1>7, <2>1, <2>2, TypesNow DEF Return, Goto, Click, TypingInv
  <2>4. CASE touched'[r] = touched[r]
    BY <2>3, <2>4 DEF TypingInv
  <2>5. CASE \E app \in Targets \ DenyListed : touched'[r] = Append(touched[r], app)
    <3>1. PICK app \in Targets \ DenyListed : touched'[r] = Append(touched[r], app)
      BY <2>5
    <3>2. /\ Len(touched'[r]) = 1
          /\ \A k \in 1..Len(touched'[r]) : touched'[r][k] = app
      BY <1>a, <2>3, <3>1
    <3> QED
      BY <2>3, <3>1, <3>2 DEF TypingInv
  <2> QED
    BY <2>3, <2>4, <2>5
<1>8. CASE TypeKeys(r)
  <2>1. /\ stage[r] = "keys" /\ aim'[r] = aim[r] /\ IsAllowed(aim[r])
        /\ text[r] = "none" /\ Len(touched[r]) = 0 /\ r \notin raised /\ result[r] = "none"
    BY <1>8 DEF TypeKeys, TypingInv
  <2>2. /\ stage'[r] \in {"broker", "done"} /\ result'[r] # "denied"
        /\ text'[r] = "none" \/ text'[r] = "sent"
        /\ \/ touched'[r] = touched[r] /\ r \notin raised'
           \/ touched'[r] = Append(touched[r], focus) /\ (text'[r] = "sent" => r \in raised')
    BY <1>8, <2>1, TypesNow DEF TypeKeys, ToBroker, Goto, Return
  <2>3. Len(Append(touched[r], focus)) = 1
    BY <1>a, <2>1, TypesNow
  <2> QED
    BY <2>1, <2>2, <2>3 DEF TypingInv, IsAllowed
<1>3. CASE BrokerTypes(r)
  <2>1. /\ text[r] = "sent" /\ text'[r] = "typed" /\ stage'[r] = stage[r]
        /\ result'[r] = result[r] /\ raised' = raised /\ aim'[r] = aim[r]
        /\ touched'[r] = Append(touched[r], focus)
    BY <1>3, TypesNow DEF BrokerTypes
  <2>2. Len(touched'[r]) = Len(touched[r]) + 1
    BY <1>a, <2>1, TypesNow
  <2> QED
    BY <1>0, <2>1, <2>2 DEF TypingInv, IsAllowed
<1>4. CASE Launch(r) \/ OpenFile(r) \/ Run(r)
  <2>1. /\ stage[r] = "idle" /\ stage'[r] \notin {"idle", "keys"}
        /\ text' = text /\ aim' = aim /\ touched' = touched /\ raised' = raised
        /\ result'[r] \in {result[r], "ok", "failed"}
    BY <1>4, TypesNow DEF Launch, OpenFile, Run, Dispatch, Popen, Goto, Return
  <2> QED
    BY <2>1 DEF TypingInv, IsAllowed
<1>5. CASE HandleConnection(r) \/ BusCall(r)
  <2>1. UNCHANGED <<stage, text, aim, touched, raised, result>>
    BY <1>5 DEF HandleConnection, BusCall
  <2> QED
    BY <2>1 DEF TypingInv, IsAllowed
<1>6. CASE Answered(r) \/ NotAnswered(r) \/ WindowAwaited(r) \/ RunEnds(r) \/ BrokerAnswers(r)
  <2>1. /\ stage'[r] \notin {"idle", "keys"} /\ text' = text /\ aim' = aim /\ touched' = touched /\ raised' = raised
        /\ result'[r] \in {result[r], "ok", "failed"}
    BY <1>6, TypesNow DEF Answered, NotAnswered, WindowAwaited, RunEnds, BrokerAnswers, Popen,
       Goto, Return
  <2> QED
    BY <2>1 DEF TypingInv, IsAllowed
<1> QED
  BY <1>1, <1>2, <1>3, <1>4, <1>5, <1>6, <1>7, <1>8, Frame DEF Moves

LEMMA TypingSafe == Spec => [](\A r \in Requests : TypingInv(r))
<1>1. Init => \A r \in Requests : TypingInv(r)
  BY EmptySeq DEF Init, TypingInv
<1>2. TypeOK /\ (\A r \in Requests : TypingInv(r)) /\ [Next]_vars
        => (\A r \in Requests : TypingInv(r))'
  BY TypingInductive
<1> QED
  BY <1>1, <1>2, TypeCorrect, PTL DEF Spec

(* A text or a click reaches at most one application, once, unless AT-SPI  *)
(* raised after it had typed.                                              *)
THEOREM ReachesOne == Spec => []TouchedOnce
<1>1. (\A r \in Requests : TypingInv(r)) => TouchedOnce
  BY DEF TypingInv, TouchedOnce
<1> QED
  BY <1>1, TypingSafe, PTL

(* What is refused is never typed, and a denied application gets a text    *)
(* only from the broker or in place of an allowed one that had the focus   *)
(* when its field was looked for.                                          *)
THEOREM RefusedForGood == Spec => []RefusalIsFinal
<1>1. TypeOK /\ (\A r \in Requests : TypingInv(r)) => RefusalIsFinal
  <2>1. TypeOK => \A r \in Requests : Len(touched[r]) = 0 => touched[r] = << >>
    BY TypesNow, EmptySeq
  <2> QED
    BY <2>1 DEF TypingInv, RefusalIsFinal
<1> QED
  BY <1>1, TypingSafe, TypeCorrect, PTL

-----------------------------------------------------------------------------
(* The results *)

Acted(r) == started[r] > 0 \/ touched[r] # << >>

(* What every stage of a task, and each of the two conversations, says of  *)
(* what was done for the request.                                          *)
ResultInv(r) ==
  /\ stage[r] = "idle" => started[r] = 0
  /\ stage[r] # "done" => result[r] = "none"
  /\ stage[r] \in {"window", "shell"} => started[r] > 0
  /\ stage[r] = "shell" => job[r].kind = "run"
  /\ stage[r] \in {"keys", "broker"} => job[r].kind = "type"
  /\ call[r] = "ok" => started[r] > 0
  /\ text[r] = "typed" => touched[r] # << >>
  /\ result[r] = "ok" => Acted(r)
  /\ result[r] = "failed" /\ job[r].kind = "launch" =>
       started[r] = 0 \/ ValidateRequest(job[r].name)

LEMMA ResultInductive ==
  ASSUME TypeOK, [Next]_vars, NEW r \in Requests, LaunchInv(r), ResultInv(r)
  PROVE  ResultInv(r)'
<1>0. /\ stage[r] \in Stages /\ started[r] \in Nat /\ touched[r] \in Seq(Targets)
      /\ result[r] \in {"none", "ok", "failed", "denied"}
  BY TypesNow
<1>a. \A app \in Targets : Append(touched[r], app) # << >>
  BY <1>0, AppendProperties
<1>1. CASE Unmoved(r)
  BY <1>1 DEF Unmoved, ResultInv, Acted
<1>2. CASE Launch(r)
  <2>1. /\ stage[r] = "idle" /\ call'[r] \in {call[r], "sent"} /\ text' = text /\ touched' = touched
        /\ \/ stage'[r] = "window" /\ started'[r] = started[r] + 1 /\ result'[r] = result[r]
           \/ stage'[r] = "done" /\ started'[r] = started[r] /\ result'[r] = "failed"
           \/ stage'[r] = "proxy" /\ started'[r] = started[r] /\ result'[r] = result[r]
    BY <1>2, TypesNow DEF Launch, Dispatch, Popen, Goto, Return
  <2> QED
    BY <1>0, <2>1 DEF ResultInv, Acted, LaunchInv
<1>3. CASE Type(r)
  <2>1. /\ stage[r] = "idle" /\ job'[r].kind = "type"
        /\ call' = call /\ started' = started /\ touched' = touched
    BY <1>3, TypesNow DEF Type, Dispatch
  <2>2. PICK names \in SUBSET Apps :
          \/ ToBroker(r)
          \/ \E app \in Found(names) :
               \/ Return(r, "denied") /\ UNCHANGED text
               \/ LookForField(r, app)
    BY <1>3 DEF Type
  <2>3. /\ text'[r] = text[r] \/ text'[r] = "sent"
        /\ \/ stage'[r] \in {"keys", "broker"} /\ result'[r] = result[r]
           \/ stage'[r] = "done" /\ result'[r] \in {"failed", "denied"}
    BY <2>2, TypesNow DEF LookForField, ToBroker, Goto, Return
  <2> QED
    BY <1>0, <2>1, <2>3 DEF ResultInv, Acted
<1>12. CASE TypeKeys(r)
  <2>1. /\ stage[r] = "keys" /\ job' = job /\ call' = call /\ started' = started
        /\ text'[r] = text[r] \/ text'[r] = "sent"
        /\ \/ touched'[r] = touched[r]
           \/ touched'[r] = Append(touched[r], focus)
        /\ \/ stage'[r] = "broker" /\ result'[r] = result[r]
           \/ stage'[r] = "done" /\ result'[r] = "failed"
           \/ /\ stage'[r] = "done" /\ result'[r] = "ok"
              /\ touched'[r] = Append(touched[r], focus)
    BY <1>12, TypesNow DEF TypeKeys, ToBroker, Goto, Return
  <2>2. Append(touched[r], focus) # << >>
    BY <1>a, TypesNow
  <2> QED
    BY <1>0, <2>1, <2>2 DEF ResultInv, Acted
<1>4. CASE Click(r)
  <2>1. /\ stage[r] = "idle" /\ stage'[r] = "done" /\ job'[r].kind = "click"
        /\ call' = call /\ started' = started /\ text' = text
        /\ \/ touched'[r] = touched[r] /\ result'[r] = "failed"
           \/ \E app \in Apps :
                touched'[r] = Append(touched[r], app) /\ result'[r] \in {"ok", "failed"}
    BY <1>4, TypesNow DEF Click, Dispatch, Found, Goto, Return
  <2>2. /\ result'[r] = "ok" => touched'[r] # << >>
        /\ touched[r] # << >> => touched'[r] # << >>
    BY <1>a, <2>1 DEF Targets
  <2> QED
    BY <2>1, <2>2 DEF ResultInv, Acted
<1>5. CASE OpenFile(r) \/ Run(r)
  <2>1. /\ stage[r] = "idle" /\ job'[r].kind \in {"open", "run"}
        /\ call' = call /\ text' = text /\ touched' = touched
        /\ \/ /\ stage'[r] = "done" /\ result'[r] = "ok" /\ started'[r] = started[r] + 1
           \/ /\ stage'[r] = "done" /\ result'[r] = "failed" /\ started'[r] = started[r]
           \/ /\ stage'[r] = "shell" /\ job'[r].kind = "run"
              /\ result' = result /\ started'[r] = started[r] + 1
    BY <1>5, TypesNow DEF OpenFile, Run, Dispatch, Goto, Return
  <2> QED
    BY <1>0, <2>1 DEF ResultInv, Acted
<1>6. CASE HandleConnection(r)
  <2>1. /\ UNCHANGED <<job, stage, text, result, started, touched>>
        /\ call'[r] # "ok"
    BY <1>6, TypesNow DEF HandleConnection
  <2> QED
    BY <2>1 DEF ResultInv, Acted
<1>7. CASE BusCall(r)
  <2>1. /\ UNCHANGED <<job, stage, text, result, touched>>
        /\ ValidateRequest(job[r].name)
        /\ \/ call'[r] = "ok" /\ started'[r] = started[r] + 1
           \/ call'[r] = "error" /\ started'[r] = started[r]
        /\ stage[r] # "idle"
    BY <1>7, TypesNow DEF BusCall, LaunchInv
  <2> QED
    BY <1>0, <2>1 DEF ResultInv, Acted
<1>8. CASE NotAnswered(r)
  <2>1. /\ stage[r] = "proxy" /\ UNCHANGED <<job, call, text, touched>>
        /\ \/ stage'[r] = "window" /\ started'[r] = started[r] + 1 /\ result'[r] = result[r]
           \/ stage'[r] = "done" /\ started'[r] = started[r] /\ result'[r] = "failed"
    BY <1>8, TypesNow DEF NotAnswered, Popen, Goto, Return
  <2> QED
    BY <1>0, <2>1 DEF ResultInv, Acted, LaunchInv
<1>9. CASE Answered(r) \/ WindowAwaited(r) \/ RunEnds(r)
  <2>1. /\ UNCHANGED <<job, call, text, started, touched>>
        /\ stage'[r] = "done"
        /\ \/ result'[r] = "ok" /\ (stage[r] \in {"window", "shell"} \/ call[r] = "ok")
           \/ result'[r] = "failed" /\ stage[r] = "shell"
    <3>1. CASE Answered(r)
      BY <3>1, TypesNow DEF Answered, Goto, Return
    <3>2. CASE WindowAwaited(r)
      BY <3>2, TypesNow DEF WindowAwaited, Goto, Return
    <3>3. CASE RunEnds(r)
      BY <3>3, TypesNow DEF RunEnds, Goto, Return
    <3> QED
      BY <1>9, <3>1, <3>2, <3>3
  <2> QED
    BY <2>1 DEF ResultInv, Acted
<1>10. CASE BrokerAnswers(r)
  <2>1. /\ UNCHANGED <<job, call, text, started, touched>>
        /\ stage[r] = "broker" /\ stage'[r] = "done"
        /\ \/ result'[r] = "ok" /\ text[r] = "typed"
           \/ result'[r] = "failed"
    BY <1>10, TypesNow DEF BrokerAnswers, Goto, Return
  <2> QED
    BY <2>1 DEF ResultInv, Acted
<1>11. CASE BrokerTypes(r)
  <2>1. /\ UNCHANGED <<job, stage, call, result, started>>
        /\ touched'[r] = Append(touched[r], focus)
    BY <1>11, TypesNow DEF BrokerTypes
  <2>2. touched'[r] # << >>
    BY <1>a, <2>1, TypesNow
  <2> QED
    BY <2>1, <2>2 DEF ResultInv, Acted
<1> QED
  BY <1>1, <1>2, <1>3, <1>4, <1>5, <1>6, <1>7, <1>8, <1>9, <1>10, <1>11, <1>12, Frame DEF Moves

(* "ok" is said only of what was done, and a launch that failed has left   *)
(* nothing, but for a service of the proxy's own that answers late.        *)
THEOREM ToldTruly == Spec => []ResultTrue
<1>1. Init => \A r \in Requests : ResultInv(r)
  BY DEF Init, ResultInv
<1>2. TypeOK /\ (\A r \in Requests : LaunchInv(r) /\ ResultInv(r)) /\ [Next]_vars
        => (\A r \in Requests : ResultInv(r))'
  BY ResultInductive
<1>3. (\A r \in Requests : LaunchInv(r)) /\ (\A r \in Requests : ResultInv(r))
        => \A r \in Requests : LaunchInv(r) /\ ResultInv(r)
  OBVIOUS
<1>4. (\A r \in Requests : ResultInv(r)) => ResultTrue
  BY DEF ResultInv, ResultTrue, Acted
<1> QED
  BY <1>1, <1>2, <1>3, <1>4, TypeCorrect, LaunchSafe, PTL DEF Spec
=============================================================================
