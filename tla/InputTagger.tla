---------------------------- MODULE InputTagger ----------------------------
(***************************************************************************)
(* security/input_tagger.py: one task per input device stamps its events   *)
(* and writes them to every connected reader.  The tasks share the list    *)
(* clients, and leave the event loop to one another wherever drain() has   *)
(* to wait for a reader.                                                   *)
(***************************************************************************)
EXTENDS Places, SequencesExt

CONSTANTS
  Devices,
  Readers,    \* the connections made to the daemon's socket
  NoReader,
  MaxEvents   \* bound: key presses of a device

ASSUME TaggerAssumption == MaxEvents \in Nat /\ NoReader \notin Readers

VARIABLES
  clients,    \* the shared list of writers
  conn,       \* whether a reader has connected, and has gone
  pc,         \* per device, where its task waits
  taken,      \* per device, the events its task has stamped
  next,       \* per device, the place of clients its loop comes to next
  current,    \* per device, the writer its drain() waits for
  dead,       \* per device, the writers whose drain() raised in this loop
  inbox       \* history: what was written to each reader

vars == <<clients, conn, pc, taken, next, current, dead, inbox>>

-----------------------------------------------------------------------------

Init ==
  /\ clients = << >>
  /\ conn = [r \in Readers |-> "none"]
  /\ pc = [d \in Devices |-> "idle"]
  /\ taken = [d \in Devices |-> 0]
  /\ next = [d \in Devices |-> 1]
  /\ current = [d \in Devices |-> NoReader]
  /\ dead = [d \in Devices |-> << >>]
  /\ inbox = [r \in Readers |-> << >>]

(* Mutant: a new reader is served first.                                   *)
Accept_AtFront(r) ==
  /\ conn[r] = "none"
  /\ conn' = [conn EXCEPT ![r] = "open"]
  /\ clients' = <<r>> \o clients
  /\ UNCHANGED <<pc, taken, next, current, dead, inbox>>

(* accept_clients(): the callback of the server appends the writer.        *)
Accept(r) ==
  /\ conn[r] = "none"
  /\ conn' = [conn EXCEPT ![r] = "open"]
  /\ clients' = Append(clients, r)
  /\ UNCHANGED <<pc, taken, next, current, dead, inbox>>

(* The reader's end of the connection is gone.                             *)
Hangup(r) ==
  /\ conn[r] = "open"
  /\ conn' = [conn EXCEPT ![r] = "gone"]
  /\ UNCHANGED <<clients, pc, taken, next, current, dead, inbox>>

(* async_read_loop() yields the device's next key event, and it is         *)
(* stamped; events of other types are skipped without a trace.             *)
Event(d) ==
  /\ pc[d] = "idle"
  /\ taken[d] < MaxEvents
  /\ taken' = [taken EXCEPT ![d] = @ + 1]
  /\ next' = [next EXCEPT ![d] = 1]
  /\ dead' = [dead EXCEPT ![d] = << >>]
  /\ pc' = [pc EXCEPT ![d] = "loop"]
  /\ UNCHANGED <<clients, conn, current, inbox>>

(* async_read_loop() raises: the device is gone.                           *)
Unplug(d) ==
  /\ pc[d] = "idle"
  /\ pc' = [pc EXCEPT ![d] = "unplugged"]
  /\ UNCHANGED <<clients, conn, taken, next, current, dead, inbox>>

(* The loop takes the writer at its place in the list as it is now.  What  *)
(* is written to a reader that is gone reaches nobody.                     *)
Write(d) ==
  /\ pc[d] = "loop"
  /\ next[d] <= Len(clients)
  /\ LET w == clients[next[d]]
     IN  /\ current' = [current EXCEPT ![d] = w]
         /\ inbox' = [inbox EXCEPT ![w] = IF conn[w] = "open"
                                          THEN Append(@, [of |-> d, n |-> taken[d]]) ELSE @]
  /\ next' = [next EXCEPT ![d] = @ + 1]
  /\ pc' = [pc EXCEPT ![d] = "drain"]
  /\ UNCHANGED <<clients, conn, taken, dead>>

(* Mutant: a slow reader is given up too.                                  *)
Drain_Impatient(d) ==
  /\ pc[d] = "drain"
  /\ \E raises \in BOOLEAN :
       dead' = [dead EXCEPT ![d] = IF raises THEN Append(@, current[d]) ELSE @]
  /\ pc' = [pc EXCEPT ![d] = "loop"]
  /\ UNCHANGED <<clients, conn, taken, next, current, inbox>>

(* drain() returns, at once or when the reader has caught up; if the       *)
(* reader is gone it raises, unless the transport has not noticed yet.     *)
Drain(d) ==
  /\ pc[d] = "drain"
  /\ \E raises \in {FALSE, conn[current[d]] = "gone"} :
       dead' = [dead EXCEPT ![d] = IF raises THEN Append(@, current[d]) ELSE @]
  /\ pc' = [pc EXCEPT ![d] = "loop"]
  /\ UNCHANGED <<clients, conn, taken, next, current, inbox>>

(* The loop is over and the dead writers are removed, one by one; at the   *)
(* first that another task has removed, remove() raises ValueError, which  *)
(* ends the task.                                                          *)
Reap(d) ==
  /\ pc[d] = "loop"
  /\ next[d] > Len(clients)
  /\ LET missing == {k \in 1..Len(dead[d]) : dead[d][k] \notin ToSet(clients)}
         removed == {dead[d][k] : k \in {k \in 1..Len(dead[d]) : \A m \in missing : k < m}}
         kept == {k \in 1..Len(clients) : clients[k] \notin removed}
     IN  /\ clients' = AtPlaces(clients, kept)
         /\ pc' = [pc EXCEPT ![d] = IF missing = {} THEN "idle" ELSE "stopped"]
  /\ UNCHANGED <<conn, taken, next, current, dead, inbox>>

Watch(d) == Event(d) \/ Unplug(d) \/ Write(d) \/ Drain(d) \/ Reap(d)

Next ==
  \/ \E r \in Readers : Accept(r) \/ Hangup(r)
  \/ \E d \in Devices : Watch(d)

Spec == Init /\ [][Next]_vars

-----------------------------------------------------------------------------

(* The list, the loops over it and the connections have their types.       *)
TypeOK ==
  /\ clients \in Seq(Readers)
  /\ conn \in [Readers -> {"none", "open", "gone"}]
  /\ pc \in [Devices -> {"idle", "loop", "drain", "stopped", "unplugged"}]
  /\ taken \in [Devices -> 0..MaxEvents]
  /\ next \in [Devices -> Nat \ {0}]
  /\ current \in [Devices -> Readers \cup {NoReader}]
  /\ dead \in [Devices -> Seq(Readers)]
  /\ inbox \in [Readers -> Seq([of : Devices, n : 1..MaxEvents])]

(* A reader gets the events of a device in order and none of them twice,   *)
(* although other tasks add to and remove from the list while a loop over  *)
(* it waits in drain().                                                    *)
InOrderOnce ==
  \A r \in Readers : \A i, j \in 1..Len(inbox[r]) :
    i < j /\ inbox[r][i].of = inbox[r][j].of => inbox[r][i].n < inbox[r][j].n

(* A reader that is still there is in the list, once: no task's clean-up   *)
(* ever removes it.                                                        *)
LiveKept ==
  /\ \A r \in Readers : conn[r] = "open" => r \in ToSet(clients)
  /\ \A i, j \in 1..Len(clients) : clients[i] = clients[j] => i = j

(* Of docs/security-model.md: the daemon "HMAC-stamps every real           *)
(* keypress/click", so no device's task ends while the device is there.    *)
NoWatcherStops == \A d \in Devices : pc[d] # "stopped"
=============================================================================
