------------------------------ MODULE AuditLog ------------------------------
(***************************************************************************)
(* security/audit_log.py: an event log in SQLite, each row chained to the  *)
(* row before it by hash.                                                  *)
(*                                                                         *)
(* An AuditLog object is an instance: a process of its own, or one more    *)
(* object of a process.  Its connection is opened with                     *)
(* check_same_thread=False, so several threads may call log() on it.       *)
(* log() takes no lock; its steps are the statements between which another *)
(* thread, another instance or a crash can come.                           *)
(*                                                                         *)
(* An entry's id stands for its hash too: SHA-256 over a fresh uuid never  *)
(* collides.  The hash is computed over one reading of the cached last     *)
(* hash and the row's prev_hash column is filled from another, so the      *)
(* recomputed hash equals the stored one exactly when the two readings     *)
(* agree and the row is unaltered since.                                   *)
(***************************************************************************)
EXTENDS Integers, Sequences

CONSTANTS
  Threads,
  Instances,
  Owner,        \* the instance each thread calls log() on
  MaxEntries,   \* bound: calls of log()
  MaxTime       \* bound: readings of the clock

ASSUME AuditAssumption ==
  /\ Owner \in [Threads -> Instances]
  /\ MaxEntries \in Nat \ {0}
  /\ MaxTime \in Nat

Genesis == 0
Ids == 1..MaxEntries
Hashes == 0..MaxEntries
Row ==
  [id : Ids,
   ts : 0..MaxTime,
   hashed : Hashes,     \* the last hash its own hash was computed over
   prev : Hashes,       \* its prev_hash column
   intact : BOOLEAN]    \* it has not been altered since it was inserted

VARIABLES
  clock,      \* time.time(), in readings: no two readings are equal unless set back
  nextId,     \* the next uuid4()
  table,      \* the committed rows, in the order of insertion
  open,       \* per instance, the rows of its open transaction
  lastHash,   \* per instance, _last_hash
  up,         \* per instance, whether the object exists
  pc,         \* per thread, the next statement of log()
  entry,      \* per thread, the row being logged
  acked,      \* history: the entries whose log() returned
  disturbed   \* history: two calls or two objects overlapped, a commit failed
              \* or the clock was set back

vars == <<clock, nextId, table, open, lastHash, up, pc, entry, acked, disturbed>>

NoEntry == [id |-> 1, ts |-> 0, hashed |-> Genesis, prev |-> Genesis, intact |-> TRUE]

-----------------------------------------------------------------------------

(* The order of SELECT ... ORDER BY ts ASC: rows with equal ts come in the *)
(* order of insertion.                                                     *)
Before(rows, a, b) ==
  \/ rows[a].ts < rows[b].ts
  \/ rows[a].ts = rows[b].ts /\ a < b

(* Mutant: the tip is read with ORDER BY ts ASC.                           *)
Tip_OldestFirst(rows, h) ==
  \/ rows = << >> /\ h = Genesis
  \/ \E r \in 1..Len(rows) :
       /\ h = rows[r].id
       /\ \A q \in 1..Len(rows) : q = r \/ Before(rows, r, q)

(* _get_last_hash() reads h: ORDER BY ts DESC LIMIT 1; of several newest   *)
(* rows, the one inserted first.                                           *)
Tip(rows, h) ==
  \/ rows = << >> /\ h = Genesis
  \/ \E r \in 1..Len(rows) :
       /\ h = rows[r].id
       /\ \A q \in 1..Len(rows) :
            rows[q].ts < rows[r].ts \/ (rows[q].ts = rows[r].ts /\ r <= q)

(* The hash verify_chain() carries in prev when its loop reaches row r.    *)
Predecessor(rows, r) ==
  LET earlier == {q \in 1..Len(rows) : Before(rows, q, r)}
  IN  IF earlier = {} THEN Genesis
      ELSE rows[CHOOSE p \in earlier : \A q \in earlier : q = p \/ Before(rows, q, p)].id

(* verify_chain(): its loop returns at the first row that fails either     *)
(* test, so it succeeds when every row passes both.                        *)
VerifyChain(rows) ==
  \A r \in 1..Len(rows) :
    /\ rows[r].prev = Predecessor(rows, r)
    /\ rows[r].hashed = rows[r].prev
    /\ rows[r].intact

-----------------------------------------------------------------------------

Init ==
  /\ clock = 0
  /\ nextId = 1
  /\ table = << >>
  /\ open = [i \in Instances |-> << >>]
  /\ lastHash = [i \in Instances |-> Genesis]
  /\ up = [i \in Instances |-> FALSE]
  /\ pc = [t \in Threads |-> "idle"]
  /\ entry = [t \in Threads |-> NoEntry]
  /\ acked = {}
  /\ disturbed = FALSE

(* The constructor: the last hash is read once, and cached from then on.   *)
Construct(i) ==
  /\ ~up[i]
  /\ up' = [up EXCEPT ![i] = TRUE]
  /\ \E h \in Hashes : Tip(table, h) /\ lastHash' = [lastHash EXCEPT ![i] = h]
  /\ disturbed' = (disturbed \/ \E j \in Instances : up[j])
  /\ UNCHANGED <<clock, nextId, table, open, pc, entry, acked>>

(* Mutant: the cached hash already moves when the row is hashed, before it *)
(* is inserted or committed.                                               *)
Begin_MovesHash(t) ==
  /\ up[Owner[t]]
  /\ pc[t] = "idle"
  /\ nextId <= MaxEntries
  /\ clock < MaxTime
  /\ entry' = [entry EXCEPT ![t] =
                 [id |-> nextId, ts |-> clock, hashed |-> lastHash[Owner[t]],
                  prev |-> Genesis, intact |-> TRUE]]
  /\ lastHash' = [lastHash EXCEPT ![Owner[t]] = nextId]
  /\ pc' = [pc EXCEPT ![t] = "column"]
  /\ nextId' = nextId + 1
  /\ clock' = clock + 1
  /\ disturbed' = (disturbed \/ \E u \in Threads : pc[u] # "idle")
  /\ UNCHANGED <<table, open, up, acked>>

(* Lines 49-54: the time is read and the entry is hashed over the cached   *)
(* hash.                                                                   *)
Begin(t) ==
  /\ up[Owner[t]]
  /\ pc[t] = "idle"
  /\ nextId <= MaxEntries
  /\ clock < MaxTime
  /\ entry' = [entry EXCEPT ![t] =
                 [id |-> nextId, ts |-> clock, hashed |-> lastHash[Owner[t]],
                  prev |-> Genesis, intact |-> TRUE]]
  /\ pc' = [pc EXCEPT ![t] = "column"]
  /\ nextId' = nextId + 1
  /\ clock' = clock + 1
  /\ disturbed' = (disturbed \/ \E u \in Threads : pc[u] # "idle")
  /\ UNCHANGED <<table, open, lastHash, up, acked>>

(* Lines 56-58: the arguments of the INSERT are built, for which the       *)
(* cached hash is read again.                                              *)
ReadColumn(t) ==
  /\ pc[t] = "column"
  /\ entry' = [entry EXCEPT ![t].prev = lastHash[Owner[t]]]
  /\ pc' = [pc EXCEPT ![t] = "insert"]
  /\ UNCHANGED <<clock, nextId, table, open, lastHash, up, acked, disturbed>>

(* SQLite lets one connection write at a time.                             *)
WriteLockFree(i) == \A j \in Instances \ {i} : open[j] = << >>

(* Line 56: the INSERT opens a transaction, or joins the one left open.    *)
Insert(t) ==
  LET i == Owner[t]
  IN  /\ pc[t] = "insert"
      /\ WriteLockFree(i)
      /\ open' = [open EXCEPT ![i] = Append(@, entry[t])]
      /\ pc' = [pc EXCEPT ![t] = "commit"]
      /\ UNCHANGED <<clock, nextId, table, lastHash, up, entry, acked, disturbed>>

(* Line 56 raises "database is locked" after SQLite's busy timeout.        *)
InsertFails(t) ==
  /\ pc[t] = "insert"
  /\ ~WriteLockFree(Owner[t])
  /\ pc' = [pc EXCEPT ![t] = "idle"]
  /\ UNCHANGED <<clock, nextId, table, open, lastHash, up, entry, acked, disturbed>>

(* Mutant: the rows of the transaction never reach the table.              *)
Commit_Lost(t) ==
  LET i == Owner[t]
  IN  /\ pc[t] = "commit"
      /\ open' = [open EXCEPT ![i] = << >>]
      /\ pc' = [pc EXCEPT ![t] = "advance"]
      /\ UNCHANGED <<clock, nextId, table, lastHash, up, entry, acked, disturbed>>

(* Line 60: everything the connection has inserted becomes durable.        *)
Commit(t) ==
  LET i == Owner[t]
  IN  /\ pc[t] = "commit"
      /\ table' = table \o open[i]
      /\ open' = [open EXCEPT ![i] = << >>]
      /\ pc' = [pc EXCEPT ![t] = "advance"]
      /\ UNCHANGED <<clock, nextId, lastHash, up, entry, acked, disturbed>>

(* Line 60 raises "database is locked", another connection reading: the    *)
(* transaction stays open, and line 61 is not reached.                     *)
CommitFails(t) ==
  /\ pc[t] = "commit"
  /\ open[Owner[t]] # << >>
  /\ pc' = [pc EXCEPT ![t] = "idle"]
  /\ disturbed' = TRUE
  /\ UNCHANGED <<clock, nextId, table, open, lastHash, up, entry, acked>>

(* Lines 61-62: the cached hash moves on and log() returns.                *)
Advance(t) ==
  /\ pc[t] = "advance"
  /\ lastHash' = [lastHash EXCEPT ![Owner[t]] = entry[t].id]
  /\ acked' = acked \cup {entry[t].id}
  /\ pc' = [pc EXCEPT ![t] = "idle"]
  /\ UNCHANGED <<clock, nextId, table, open, up, entry, disturbed>>

(* The process of an instance ends; its open transaction is rolled back.   *)
Crash(i) ==
  /\ up[i]
  /\ up' = [up EXCEPT ![i] = FALSE]
  /\ open' = [open EXCEPT ![i] = << >>]
  /\ pc' = [t \in Threads |-> IF Owner[t] = i THEN "idle" ELSE pc[t]]
  /\ UNCHANGED <<clock, nextId, table, lastHash, entry, acked, disturbed>>

(* time.time() is the wall clock, and it is set back.                      *)
StepBack ==
  /\ \E earlier \in 0..(clock - 1) : clock' = earlier
  /\ disturbed' = TRUE
  /\ UNCHANGED <<nextId, table, open, lastHash, up, pc, entry, acked>>

(* Someone changes a committed row outside the log, as the tests do with   *)
(* an UPDATE; the row's own hash is not recomputed.                        *)
Tamper ==
  \E r \in 1..Len(table) :
    /\ table[r].intact
    /\ table' = [table EXCEPT ![r].intact = FALSE]
    /\ UNCHANGED <<clock, nextId, open, lastHash, up, pc, entry, acked, disturbed>>

Log(t) ==
  \/ Begin(t) \/ ReadColumn(t) \/ Insert(t) \/ InsertFails(t)
  \/ Commit(t) \/ CommitFails(t) \/ Advance(t)

Next ==
  \/ \E t \in Threads : Log(t)
  \/ \E i \in Instances : Construct(i) \/ Crash(i)
  \/ StepBack
  \/ Tamper

Spec == Init /\ [][Next]_vars

-----------------------------------------------------------------------------

(* The rows, caches and program counters of the log have their types.      *)
TypeOK ==
  /\ clock \in 0..MaxTime
  /\ nextId \in 1..(MaxEntries + 1)
  /\ table \in Seq(Row)
  /\ open \in [Instances -> Seq(Row)]
  /\ lastHash \in [Instances -> Hashes]
  /\ up \in [Instances -> BOOLEAN]
  /\ pc \in [Threads -> {"idle", "column", "insert", "commit", "advance"}]
  /\ entry \in [Threads -> Row]
  /\ acked \subseteq Ids
  /\ disturbed \in BOOLEAN

Unaltered == \A r \in 1..Len(table) : table[r].intact

(* verify_chain() accepts a log that was only ever appended to, by one     *)
(* call at a time of one object at a time, whatever threads and objects    *)
(* took turns and wherever the process died and was restarted: its "data   *)
(* may be tampered" is then never a false alarm.  It is one after two      *)
(* calls or objects overlapped, a commit failed or the clock was set back. *)
VerifiesUnaltered == ~disturbed /\ Unaltered => VerifyChain(table)

Holds(rows, id) == \E r \in 1..Len(rows) : rows[r].id = id

(* An entry whose log() returned is in the table and stays there: log()    *)
(* never reports success before the row is durable, not even when another  *)
(* thread or instance writes, a commit fails or the process dies.          *)
AckedDurable == \A id \in acked : Holds(table, id)

(* Why AckedDurable holds: between INSERT and commit() the row is in the   *)
(* transaction, unless another thread of the instance committed it.        *)
InFlight ==
  \A t \in Threads :
    /\ pc[t] = "commit" => Holds(table, entry[t].id) \/ Holds(open[Owner[t]], entry[t].id)
    /\ pc[t] = "advance" => Holds(table, entry[t].id)

(* Whatever threads, instances, failed commits and clock steps do, both    *)
(* links of a row, the one in its column and the one it was hashed over,   *)
(* lead to a row committed before it: they may differ, and the links of    *)
(* the table may branch, but they never dangle or loop.                    *)
LinksToEarlierRow ==
  \A r \in 1..Len(table) : \A h \in {table[r].hashed, table[r].prev} :
    h = Genesis \/ \E q \in 1..(r - 1) : table[q].id = h

-----------------------------------------------------------------------------

LastId(rows) == IF rows = << >> THEN Genesis ELSE rows[Len(rows)].id

(* The rows are in the order of their times, and each is linked to the one *)
(* before it.                                                              *)
RowsChained(rows, now) ==
  \A r \in 1..Len(rows) :
    /\ rows[r].ts < now
    /\ rows[r].prev = IF r = 1 THEN Genesis ELSE rows[r - 1].id
    /\ rows[r].hashed = rows[r].prev
    /\ \A q \in 1..Len(rows) : q < r => rows[q].ts < rows[r].ts

(* The entry e was hashed as a continuation of the rows.                   *)
Continues(e, rows, now) ==
  /\ e.hashed = LastId(rows)
  /\ e.ts < now
  /\ \A r \in 1..Len(rows) : rows[r].ts < e.ts

ThreadChained(t) ==
  /\ pc[t] # "idle" => up[Owner[t]]
  /\ pc[t] \in {"column", "insert", "commit"} => Continues(entry[t], table, clock)
  /\ pc[t] \in {"insert", "commit"} => entry[t].prev = LastId(table)
  /\ pc[t] = "commit" => open[Owner[t]] = <<entry[t]>>
  /\ pc[t] = "advance" => entry[t].id = LastId(table)

InstanceChained(i) ==
  /\ open[i] # << >> => \E t \in Threads : Owner[t] = i /\ pc[t] = "commit"
  /\ up[i] =>
       \/ lastHash[i] = LastId(table)
       \/ \E t \in Threads : Owner[t] = i /\ pc[t] = "advance"

OneAtATime ==
  /\ \A t, u \in Threads : pc[t] # "idle" /\ pc[u] # "idle" => t = u
  /\ \A i, j \in Instances : up[i] /\ up[j] => i = j

(* Why an undisturbed log verifies: its rows are a chain in the order of   *)
(* their times, which the one call that is under way and the cached hash   *)
(* of the one object continue.                                             *)
Chained ==
  ~disturbed =>
    /\ RowsChained(table, clock)
    /\ OneAtATime
    /\ \A t \in Threads : ThreadChained(t)
    /\ \A i \in Instances : InstanceChained(i)
=============================================================================
