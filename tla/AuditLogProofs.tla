--------------------------- MODULE AuditLogProofs ---------------------------
(***************************************************************************)
(* The audit log loses no entry it has acknowledged, for any number of     *)
(* threads and instances, and its links never dangle; and as long as calls *)
(* and objects did not overlap, no commit failed and the clock was not set *)
(* back, it verifies.                                                      *)
(***************************************************************************)
EXTENDS AuditLog, SequenceTheorems, TLAPS

USE AuditAssumption

-----------------------------------------------------------------------------

LEMMA RowsAppended ==
  ASSUME NEW s \in Seq(Row), NEW e \in Row
  PROVE  /\ Append(s, e) \in Seq(Row)
         /\ Len(Append(s, e)) = Len(s) + 1
         /\ \A r \in 1..Len(s) : Append(s, e)[r] = s[r]
         /\ Append(s, e)[Len(s) + 1] = e
  BY AppendProperties

LEMMA RowsJoined ==
  ASSUME NEW s \in Seq(Row), NEW u \in Seq(Row)
  PROVE  /\ s \o u \in Seq(Row)
         /\ Len(s \o u) = Len(s) + Len(u)
         /\ \A r \in 1..Len(s) : (s \o u)[r] = s[r]
         /\ \A r \in 1..Len(u) : (s \o u)[Len(s) + r] = u[r]
<1>1. Len(s) \in Nat /\ Len(u) \in Nat
  BY LenProperties
<1>2. /\ s \o u \in Seq(Row)
      /\ Len(s \o u) = Len(s) + Len(u)
      /\ \A i \in 1 .. Len(s) + Len(u) :
           (s \o u)[i] = IF i <= Len(s) THEN s[i] ELSE u[i - Len(s)]
  BY ConcatProperties
<1> QED
  BY <1>1, <1>2

LEMMA RowAltered ==
  ASSUME NEW s \in Seq(Row), NEW r \in 1..Len(s)
  PROVE  LET u == [s EXCEPT ![r].intact = FALSE]
         IN  /\ u \in Seq(Row)
             /\ Len(u) = Len(s)
             /\ \A q \in 1..Len(s) :
                  /\ u[q].id = s[q].id
                  /\ u[q].ts = s[q].ts
                  /\ u[q].hashed = s[q].hashed
                  /\ u[q].prev = s[q].prev
<1> DEFINE e == [s[r] EXCEPT !.intact = FALSE]
           u == [s EXCEPT ![r] = e]
<1>1. /\ s[r] \in Row /\ e \in Row /\ e.id = s[r].id /\ e.ts = s[r].ts
      /\ e.hashed = s[r].hashed /\ e.prev = s[r].prev
  <2>1. s[r] \in Row
    BY ElementOfSeq
  <2> QED
    BY <2>1 DEF Row
<1> HIDE DEF e
<1>2. /\ u \in Seq(Row)
      /\ Len(u) = Len(s)
      /\ \A j \in 1..Len(s) : u[j] = IF j = r THEN e ELSE s[j]
  BY <1>1, ExceptSeq
<1>3. \A q \in 1..Len(s) :
        /\ u[q].id = s[q].id
        /\ u[q].ts = s[q].ts
        /\ u[q].hashed = s[q].hashed
        /\ u[q].prev = s[q].prev
  BY <1>1, <1>2
<1> QED
  BY <1>2, <1>3 DEF e

-----------------------------------------------------------------------------

LEMMA TypeInductive ==
  ASSUME TypeOK, [Next]_vars
  PROVE  TypeOK'
<1>1. /\ table \in Seq(Row)
      /\ \A i \in Instances : open[i] \in Seq(Row)
      /\ \A t \in Threads : entry[t] \in Row /\ Owner[t] \in Instances
      /\ << >> \in Seq(Row)
  BY EmptySeq DEF TypeOK
<1>2. ASSUME NEW t \in Threads, Begin(t)
      PROVE  TypeOK'
  <2>1. [id |-> nextId, ts |-> clock, hashed |-> lastHash[Owner[t]],
         prev |-> Genesis, intact |-> TRUE] \in Row
    BY <1>1, <1>2 DEF Begin, TypeOK, Row, Ids, Hashes, Genesis
  <2> QED
    BY <1>2, <2>1 DEF Begin, TypeOK
<1>13. ASSUME NEW t \in Threads, ReadColumn(t)
       PROVE  TypeOK'
  <2>1. [entry[t] EXCEPT !.prev = lastHash[Owner[t]]] \in Row
    BY <1>1 DEF TypeOK, Row
  <2> QED
    BY <1>13, <2>1 DEF ReadColumn, TypeOK
<1>3. ASSUME NEW t \in Threads, Insert(t)
      PROVE  TypeOK'
  <2>1. Append(open[Owner[t]], entry[t]) \in Seq(Row)
    BY <1>1, RowsAppended
  <2> QED
    BY <1>1, <1>3, <2>1 DEF Insert, TypeOK
<1>4. ASSUME NEW t \in Threads, InsertFails(t)
      PROVE  TypeOK'
  BY <1>4 DEF InsertFails, TypeOK
<1>5. ASSUME NEW t \in Threads, Commit(t)
      PROVE  TypeOK'
  <2>1. table \o open[Owner[t]] \in Seq(Row)
    BY <1>1, RowsJoined
  <2> QED
    BY <1>1, <1>5, <2>1 DEF Commit, TypeOK
<1>6. ASSUME NEW t \in Threads, CommitFails(t)
      PROVE  TypeOK'
  BY <1>6 DEF CommitFails, TypeOK
<1>7. ASSUME NEW t \in Threads, Advance(t)
      PROVE  TypeOK'
  <2>1. entry[t].id \in Ids /\ entry[t].id \in Hashes
    BY <1>1 DEF Row, Ids, Hashes
  <2> QED
    BY <1>1, <1>7, <2>1 DEF Advance, TypeOK
<1>8. ASSUME NEW i \in Instances, Construct(i)
      PROVE  TypeOK'
  BY <1>8 DEF Construct, TypeOK
<1>9. ASSUME NEW i \in Instances, Crash(i)
      PROVE  TypeOK'
  BY <1>1, <1>9 DEF Crash, TypeOK
<1>10. CASE StepBack
  BY <1>10 DEF StepBack, TypeOK
<1>11. CASE Tamper
  BY <1>1, <1>11, RowAltered DEF Tamper, TypeOK
<1>12. CASE UNCHANGED vars
  BY <1>12 DEF vars, TypeOK
<1> QED
  BY <1>2, <1>3, <1>4, <1>5, <1>6, <1>7, <1>8, <1>9, <1>10, <1>11, <1>12, <1>13 DEF Next, Log

(* The fields of the log keep their types, whatever threads, instances,    *)
(* crashes, failed commits and clock steps do.                             *)
THEOREM TypeCorrect == Spec => []TypeOK
<1>1. Init => TypeOK
  <2>1. NoEntry \in Row
    BY DEF NoEntry, Row, Ids, Hashes, Genesis
  <2>2. << >> \in Seq(Row)
    BY EmptySeq
  <2>3. Genesis \in Hashes /\ {} \subseteq Ids /\ 0 \in 0..MaxTime /\ 1 \in 1..(MaxEntries + 1)
    BY DEF Genesis, Hashes
  <2> QED
    BY <2>1, <2>2, <2>3 DEF Init, TypeOK
<1> QED
  BY <1>1, TypeInductive, PTL DEF Spec

-----------------------------------------------------------------------------

LEMMA HeldAfterAppend ==
  ASSUME NEW s \in Seq(Row), NEW e \in Row
  PROVE  /\ \A id : Holds(s, id) => Holds(Append(s, e), id)
         /\ Holds(Append(s, e), e.id)
<1>1. Len(s) \in Nat
  BY LenProperties
<1> QED
  BY <1>1, RowsAppended DEF Holds

LEMMA HeldAfterJoin ==
  ASSUME NEW s \in Seq(Row), NEW u \in Seq(Row)
  PROVE  \A id : Holds(s, id) \/ Holds(u, id) => Holds(s \o u, id)
<1>1. Len(s) \in Nat /\ Len(u) \in Nat
  BY LenProperties
<1>2. ASSUME NEW id, Holds(s, id)
      PROVE  Holds(s \o u, id)
  BY <1>1, <1>2, RowsJoined DEF Holds
<1>3. ASSUME NEW id, Holds(u, id)
      PROVE  Holds(s \o u, id)
  <2>1. PICK r \in 1..Len(u) : u[r].id = id
    BY <1>3 DEF Holds
  <2>2. Len(s) + r \in 1..Len(s \o u) /\ (s \o u)[Len(s) + r].id = id
    BY <1>1, <2>1, RowsJoined
  <2> QED
    BY <2>2 DEF Holds
<1> QED
  BY <1>2, <1>3

LEMMA HeldAfterTamper ==
  ASSUME table \in Seq(Row), Tamper
  PROVE  \A id : Holds(table, id) => Holds(table', id)
<1>1. PICK r \in 1..Len(table) : table' = [table EXCEPT ![r].intact = FALSE]
  BY DEF Tamper
<1> QED
  BY <1>1, RowAltered DEF Holds

LEMMA DurableInductive ==
  ASSUME TypeOK, AckedDurable, InFlight, [Next]_vars
  PROVE  AckedDurable' /\ InFlight'
<1>1. /\ table \in Seq(Row)
      /\ \A i \in Instances : open[i] \in Seq(Row)
      /\ \A t \in Threads : entry[t] \in Row /\ Owner[t] \in Instances
  BY DEF TypeOK
<1>2. ASSUME NEW t \in Threads, Begin(t)
      PROVE  AckedDurable' /\ InFlight'
  BY <1>2 DEF Begin, TypeOK, AckedDurable, InFlight, Holds
<1>12. ASSUME NEW t \in Threads, ReadColumn(t)
       PROVE  AckedDurable' /\ InFlight'
  BY <1>12 DEF ReadColumn, TypeOK, AckedDurable, InFlight, Holds
<1>3. ASSUME NEW t \in Threads, Insert(t)
      PROVE  AckedDurable' /\ InFlight'
  <2>1. /\ table' = table /\ acked' = acked /\ entry' = entry
        /\ pc' = [pc EXCEPT ![t] = "commit"]
        /\ open' = [open EXCEPT ![Owner[t]] = Append(open[Owner[t]], entry[t])]
    BY <1>3 DEF Insert
  <2>2. /\ Holds(Append(open[Owner[t]], entry[t]), entry[t].id)
        /\ \A id : Holds(open[Owner[t]], id) => Holds(Append(open[Owner[t]], entry[t]), id)
    BY <1>1, HeldAfterAppend
  <2>3. AckedDurable'
    BY <2>1 DEF AckedDurable, Holds
  <2>4. ASSUME NEW u \in Threads, pc'[u] = "commit"
        PROVE  Holds(table', entry'[u].id) \/ Holds(open'[Owner[u]], entry'[u].id)
    <3>1. CASE u = t
      BY <1>1, <2>1, <2>2, <3>1 DEF TypeOK
    <3>2. CASE u # t
      <4>1. Holds(table, entry[u].id) \/ Holds(open[Owner[u]], entry[u].id)
        BY <2>1, <2>4, <3>2 DEF TypeOK, InFlight
      <4> QED
        BY <1>1, <2>1, <2>2, <4>1 DEF TypeOK
    <3> QED
      BY <3>1, <3>2
  <2>5. ASSUME NEW u \in Threads, pc'[u] = "advance"
        PROVE  Holds(table', entry'[u].id)
    BY <2>1, <2>5 DEF TypeOK, InFlight
  <2> QED
    BY <2>3, <2>4, <2>5 DEF InFlight, Holds
<1>4. ASSUME NEW t \in Threads, InsertFails(t) \/ CommitFails(t)
      PROVE  AckedDurable' /\ InFlight'
  <2>1. /\ table' = table /\ acked' = acked /\ entry' = entry /\ open' = open
        /\ pc' = [pc EXCEPT ![t] = "idle"]
    BY <1>4 DEF InsertFails, CommitFails
  <2>2. \A u \in Threads : pc'[u] = pc[u] \/ pc'[u] = "idle"
    BY <2>1 DEF TypeOK
  <2> QED
    BY <2>1, <2>2 DEF AckedDurable, InFlight, Holds
<1>5. ASSUME NEW t \in Threads, Commit(t)
      PROVE  AckedDurable' /\ InFlight'
  <2>1. /\ table' = table \o open[Owner[t]]
        /\ acked' = acked /\ entry' = entry
        /\ pc[t] = "commit"
        /\ pc' = [pc EXCEPT ![t] = "advance"]
        /\ open' = [open EXCEPT ![Owner[t]] = << >>]
    BY <1>5 DEF Commit
  <2>2. \A id : Holds(table, id) \/ Holds(open[Owner[t]], id) => Holds(table', id)
    BY <1>1, <2>1, HeldAfterJoin
  <2>3. AckedDurable'
    BY <2>1, <2>2 DEF AckedDurable, Holds
  <2>4. ASSUME NEW u \in Threads, pc'[u] = "commit"
        PROVE  Holds(table', entry'[u].id) \/ Holds(open'[Owner[u]], entry'[u].id)
    <3>1. Holds(table, entry[u].id) \/ Holds(open[Owner[u]], entry[u].id)
      BY <2>1, <2>4 DEF TypeOK, InFlight
    <3>2. Owner[u] # Owner[t] => open'[Owner[u]] = open[Owner[u]]
      BY <1>1, <2>1 DEF TypeOK
    <3> QED
      BY <2>1, <2>2, <3>1, <3>2
  <2>5. ASSUME NEW u \in Threads, pc'[u] = "advance"
        PROVE  Holds(table', entry'[u].id)
    <3>1. Holds(table, entry[u].id) \/ Holds(open[Owner[t]], entry[u].id)
      BY <2>1, <2>5 DEF TypeOK, InFlight
    <3> QED
      BY <2>1, <2>2, <3>1
  <2> QED
    BY <2>3, <2>4, <2>5 DEF InFlight, Holds
<1>6. ASSUME NEW t \in Threads, Advance(t)
      PROVE  AckedDurable' /\ InFlight'
  <2>1. /\ table' = table /\ acked' = acked \cup {entry[t].id} /\ entry' = entry /\ open' = open
        /\ pc[t] = "advance"
        /\ pc' = [pc EXCEPT ![t] = "idle"]
    BY <1>6 DEF Advance
  <2>2. \A u \in Threads : pc'[u] = pc[u] \/ pc'[u] = "idle"
    BY <2>1 DEF TypeOK
  <2>3. Holds(table, entry[t].id)
    BY <2>1 DEF InFlight
  <2>4. AckedDurable'
    BY <2>1, <2>3 DEF AckedDurable, Holds
  <2> QED
    BY <2>1, <2>2, <2>4 DEF InFlight, Holds
<1>7. ASSUME NEW i \in Instances, Construct(i)
      PROVE  AckedDurable' /\ InFlight'
  BY <1>7 DEF Construct, TypeOK, AckedDurable, InFlight, Holds
<1>8. ASSUME NEW i \in Instances, Crash(i)
      PROVE  AckedDurable' /\ InFlight'
  <2>1. /\ table' = table /\ acked' = acked /\ entry' = entry
        /\ open' = [open EXCEPT ![i] = << >>]
        /\ pc' = [t \in Threads |-> IF Owner[t] = i THEN "idle" ELSE pc[t]]
    BY <1>8 DEF Crash
  <2>2. \A t \in Threads :
          \/ pc'[t] = "idle"
          \/ pc'[t] = pc[t] /\ open'[Owner[t]] = open[Owner[t]]
    BY <1>1, <2>1 DEF TypeOK
  <2>3. AckedDurable'
    BY <2>1 DEF AckedDurable, Holds
  <2>4. ASSUME NEW t \in Threads
        PROVE  /\ pc'[t] = "commit" =>
                    Holds(table', entry'[t].id) \/ Holds(open'[Owner[t]], entry'[t].id)
               /\ pc'[t] = "advance" => Holds(table', entry'[t].id)
    BY <2>1, <2>2 DEF InFlight
  <2> QED
    BY <2>3, <2>4 DEF InFlight, Holds
<1>9. CASE StepBack
  BY <1>9 DEF StepBack, AckedDurable, InFlight, Holds
<1>10. CASE Tamper
  <2>1. \A id : Holds(table, id) => Holds(table', id)
    BY <1>1, <1>10, HeldAfterTamper
  <2>2. UNCHANGED <<acked, open, pc, entry>>
    BY <1>10 DEF Tamper
  <2>3. AckedDurable'
    BY <2>1, <2>2 DEF AckedDurable, Holds
  <2> QED
    BY <2>1, <2>2, <2>3 DEF InFlight, Holds
<1>11. CASE UNCHANGED vars
  BY <1>11 DEF vars, AckedDurable, InFlight, Holds
<1> QED
  BY <1>2, <1>3, <1>4, <1>5, <1>6, <1>7, <1>8, <1>9, <1>10, <1>11, <1>12 DEF Next, Log

(* An entry whose log() returned stays in the table, for any number of     *)
(* threads, instances and entries.                                         *)
THEOREM Durable == Spec => []AckedDurable
<1>1. Init => AckedDurable /\ InFlight
  BY DEF Init, AckedDurable, InFlight
<1>2. TypeOK /\ AckedDurable /\ InFlight /\ [Next]_vars => AckedDurable' /\ InFlight'
  BY DurableInductive
<1> QED
  BY <1>1, <1>2, TypeCorrect, PTL DEF Spec

-----------------------------------------------------------------------------

(* What a link may point to: nothing, or a row of the table.               *)
Linked(rows, h) == h = Genesis \/ Holds(rows, h)

BothLinked(rows, e) == Linked(rows, e.hashed) /\ Linked(rows, e.prev)

(* Everything that is or becomes a link points into the table: the caches, *)
(* also the stale ones, the rows in flight and those of open transactions. *)
CachesLinked ==
  /\ \A i \in Instances : Linked(table, lastHash[i])
  /\ \A i \in Instances : \A r \in 1..Len(open[i]) : BothLinked(table, open[i][r])
  /\ \A t \in Threads : BothLinked(table, entry[t])

(* Unless a step commits rows or hands out a hash, the links stay.         *)
LEMMA LinksKept ==
  ASSUME LinksToEarlierRow, CachesLinked, table' = table,
         \A i \in Instances : Linked(table, lastHash'[i]),
         \A i \in Instances : \A r \in 1..Len(open'[i]) : BothLinked(table, open'[i][r]),
         \A t \in Threads : BothLinked(table, entry'[t])
  PROVE  LinksToEarlierRow' /\ CachesLinked'
BY DEF LinksToEarlierRow, CachesLinked, BothLinked, Linked, Holds

LEMMA CommitLinks ==
  ASSUME table \in Seq(Row), NEW s \in Seq(Row), LinksToEarlierRow, table' = table \o s,
         \A r \in 1..Len(s) : BothLinked(table, s[r])
  PROVE  LinksToEarlierRow'
<1>1. /\ Len(table) \in Nat /\ Len(s) \in Nat /\ Len(table') = Len(table) + Len(s)
      /\ \A r \in 1..Len(table) : table'[r] = table[r]
      /\ \A r \in 1..Len(s) : table'[Len(table) + r] = s[r]
  BY LenProperties, RowsJoined
<1>2. ASSUME NEW r \in 1..Len(table'),
             NEW h \in {table'[r].hashed, table'[r].prev}, h # Genesis
      PROVE  \E q \in 1..(r - 1) : table'[q].id = h
  <2>1. CASE r \in 1..Len(table)
    <3>3. h \in {table[r].hashed, table[r].prev}
      BY <1>1, <1>2, <2>1
    <3>1. PICK q \in 1..(r - 1) : table[q].id = h
      BY <1>2, <2>1, <3>3 DEF LinksToEarlierRow
    <3>2. q \in 1..Len(table)
      BY <1>1, <2>1
    <3> QED
      BY <1>1, <2>1, <3>1, <3>2
  <2>2. CASE r \notin 1..Len(table)
    <3>1. r - Len(table) \in 1..Len(s) /\ r = Len(table) + (r - Len(table))
      BY <1>1, <2>2
    <3>2. table'[r] = s[r - Len(table)]
      BY <1>1, <3>1
    <3>3. PICK q \in 1..Len(table) : table[q].id = h
      BY <1>2, <3>1, <3>2 DEF BothLinked, Linked, Holds
    <3>4. q \in 1..(r - 1)
      BY <1>1, <2>2
    <3> QED
      BY <1>1, <3>3, <3>4
  <2> QED
    BY <2>1, <2>2
<1> QED
  BY <1>2 DEF LinksToEarlierRow

LEMMA LinksInductive ==
  ASSUME TypeOK, InFlight, LinksToEarlierRow, CachesLinked, [Next]_vars
  PROVE  LinksToEarlierRow' /\ CachesLinked'
<1>1. /\ table \in Seq(Row)
      /\ \A i \in Instances : open[i] \in Seq(Row)
      /\ \A t \in Threads : entry[t] \in Row /\ Owner[t] \in Instances
  BY DEF TypeOK
<1>2. /\ \A i \in Instances : Linked(table, lastHash[i])
      /\ \A i \in Instances : \A r \in 1..Len(open[i]) : BothLinked(table, open[i][r])
      /\ \A t \in Threads : BothLinked(table, entry[t])
  BY DEF CachesLinked
<1>3. ASSUME NEW t \in Threads, Begin(t)
      PROVE  LinksToEarlierRow' /\ CachesLinked'
  <2>1. UNCHANGED <<table, open, lastHash>>
    BY <1>3 DEF Begin
  <2>2. \A u \in Threads : BothLinked(table, entry'[u])
    BY <1>1, <1>2, <1>3 DEF Begin, TypeOK, BothLinked, Linked
  <2> QED
    BY <1>2, <2>1, <2>2, LinksKept
<1>11. ASSUME NEW t \in Threads, ReadColumn(t)
       PROVE  LinksToEarlierRow' /\ CachesLinked'
  <2>1. UNCHANGED <<table, open, lastHash>>
    BY <1>11 DEF ReadColumn
  <2>2. /\ entry' = [entry EXCEPT ![t] = [entry[t] EXCEPT !.prev = lastHash[Owner[t]]]]
        /\ entry[t] \in Row
    BY <1>1, <1>11 DEF ReadColumn
  <2>3. \A u \in Threads : BothLinked(table, entry'[u])
    BY <1>1, <1>2, <2>2 DEF TypeOK, Row, BothLinked
  <2> QED
    BY <1>2, <2>1, <2>3, LinksKept
<1>4. ASSUME NEW t \in Threads, Insert(t)
      PROVE  LinksToEarlierRow' /\ CachesLinked'
  <2>1. /\ UNCHANGED <<table, lastHash, entry>>
        /\ open' = [open EXCEPT ![Owner[t]] = Append(open[Owner[t]], entry[t])]
    BY <1>4 DEF Insert
  <2> DEFINE s == open[Owner[t]]
  <2>2. /\ Len(s) \in Nat /\ Len(Append(s, entry[t])) = Len(s) + 1
        /\ \A r \in 1..Len(s) : Append(s, entry[t])[r] = s[r]
        /\ Append(s, entry[t])[Len(s) + 1] = entry[t]
    BY <1>1, LenProperties, RowsAppended
  <2>3. \A r \in 1..(Len(s) + 1) : BothLinked(table, Append(s, entry[t])[r])
    <3>1. \A r \in 1..(Len(s) + 1) : r \in 1..Len(s) \/ r = Len(s) + 1
      BY <2>2
    <3> QED
      BY <1>1, <1>2, <2>2, <3>1
  <2>4. \A i \in Instances : \A r \in 1..Len(open'[i]) : BothLinked(table, open'[i][r])
    BY <1>1, <1>2, <2>1, <2>2, <2>3 DEF TypeOK
  <2> QED
    BY <1>2, <2>1, <2>4, LinksKept
<1>5. ASSUME NEW t \in Threads, Commit(t)
      PROVE  LinksToEarlierRow' /\ CachesLinked'
  <2>1. /\ table' = table \o open[Owner[t]] /\ UNCHANGED <<lastHash, entry>>
        /\ open' = [open EXCEPT ![Owner[t]] = << >>]
    BY <1>5 DEF Commit
  <2>2. LinksToEarlierRow'
    BY <1>1, <1>2, <2>1, CommitLinks
  <2>3. \A h : Linked(table, h) => Linked(table', h)
    BY <1>1, <2>1, HeldAfterJoin DEF Linked
  <2>4. 1..Len(open'[Owner[t]]) = {}
    BY <1>1, <2>1 DEF TypeOK
  <2>5. \A i \in Instances : \A r \in 1..Len(open'[i]) : BothLinked(table, open'[i][r])
    BY <1>1, <1>2, <2>1, <2>4 DEF TypeOK
  <2> QED
    BY <1>2, <2>1, <2>2, <2>3, <2>5 DEF CachesLinked, BothLinked
<1>6. ASSUME NEW t \in Threads, Advance(t)
      PROVE  LinksToEarlierRow' /\ CachesLinked'
  <2>1. /\ UNCHANGED <<table, open, entry>>
        /\ lastHash' = [lastHash EXCEPT ![Owner[t]] = entry[t].id]
        /\ Holds(table, entry[t].id)
    BY <1>6 DEF Advance, InFlight
  <2>2. \A i \in Instances : Linked(table, lastHash'[i])
    BY <1>2, <2>1 DEF Linked, TypeOK
  <2> QED
    BY <1>2, <2>1, <2>2, LinksKept
<1>7. ASSUME NEW i \in Instances, Construct(i)
      PROVE  LinksToEarlierRow' /\ CachesLinked'
  <2>1. PICK h \in Hashes : Tip(table, h) /\ lastHash' = [lastHash EXCEPT ![i] = h]
    BY <1>7 DEF Construct
  <2>2. UNCHANGED <<table, open, entry>> /\ Linked(table, h)
    BY <1>7, <2>1 DEF Construct, Tip, Linked, Holds
  <2>3. \A j \in Instances : Linked(table, lastHash'[j])
    BY <1>2, <2>1, <2>2 DEF TypeOK
  <2> QED
    BY <1>2, <2>2, <2>3, LinksKept
<1>8. ASSUME NEW i \in Instances, Crash(i)
      PROVE  LinksToEarlierRow' /\ CachesLinked'
  <2>1. UNCHANGED <<table, lastHash, entry>> /\ open' = [open EXCEPT ![i] = << >>]
    BY <1>8 DEF Crash
  <2>2. 1..Len(open'[i]) = {}
    BY <1>1, <2>1 DEF TypeOK
  <2>3. \A j \in Instances : \A r \in 1..Len(open'[j]) : BothLinked(table, open'[j][r])
    BY <1>2, <2>1, <2>2 DEF TypeOK
  <2> QED
    BY <1>2, <2>1, <2>3, LinksKept
<1>9. CASE Tamper
  <2>1. PICK r \in 1..Len(table) : table' = [table EXCEPT ![r].intact = FALSE]
    BY <1>9 DEF Tamper
  <2>2. /\ Len(table') = Len(table)
        /\ \A q \in 1..Len(table) :
             /\ table'[q].id = table[q].id
             /\ table'[q].hashed = table[q].hashed
             /\ table'[q].prev = table[q].prev
    BY <1>1, <2>1, RowAltered
  <2>3. LinksToEarlierRow'
    <3>1. ASSUME NEW q \in 1..Len(table),
                 NEW h \in {table[q].hashed, table[q].prev}, h # Genesis
          PROVE  \E p \in 1..(q - 1) : table'[p].id = h
      <4>1. PICK p \in 1..(q - 1) : table[p].id = h
        BY <3>1 DEF LinksToEarlierRow
      <4>2. p \in 1..Len(table)
        BY <1>1, LenProperties
      <4> QED
        BY <2>2, <4>1, <4>2
    <3>2. ASSUME NEW q \in 1..Len(table'),
                 NEW h \in {table'[q].hashed, table'[q].prev}, h # Genesis
          PROVE  \E p \in 1..(q - 1) : table'[p].id = h
      <4>1. q \in 1..Len(table) /\ h \in {table[q].hashed, table[q].prev}
        BY <2>2, <3>2
      <4> QED
        BY <3>1, <3>2, <4>1
    <3> QED
      BY <3>2 DEF LinksToEarlierRow
  <2>4. \A h : Linked(table, h) => Linked(table', h)
    BY <1>1, <1>9, HeldAfterTamper DEF Linked
  <2>5. UNCHANGED <<open, lastHash, entry>>
    BY <1>9 DEF Tamper
  <2> QED
    BY <1>2, <2>3, <2>4, <2>5 DEF CachesLinked, BothLinked
<1>10. CASE \/ \E t \in Threads : InsertFails(t) \/ CommitFails(t)
           \/ StepBack \/ UNCHANGED vars
  <2>1. UNCHANGED <<table, open, lastHash, entry>>
    BY <1>10 DEF InsertFails, CommitFails, StepBack, vars
  <2> QED
    BY <1>2, <2>1, LinksKept
<1> QED
  BY <1>3, <1>4, <1>5, <1>6, <1>7, <1>8, <1>9, <1>10, <1>11 DEF Next, Log

(* The links of the table may branch, after stale caches, lost commits and *)
(* clocks set back, and with two threads on one instance a row's column    *)
(* may differ from what it was hashed over; but both point to a row        *)
(* committed before the row itself.                                        *)
THEOREM LinksBack == Spec => []LinksToEarlierRow
<1>1. Init => LinksToEarlierRow /\ CachesLinked
  <2> SUFFICES ASSUME Init
               PROVE  LinksToEarlierRow /\ CachesLinked
    OBVIOUS
  <2>1. 1..Len(table) = {} /\ \A i \in Instances : 1..Len(open[i]) = {}
    BY DEF Init
  <2>2. \A t \in Threads : entry[t].prev = Genesis /\ entry[t].hashed = Genesis
    BY DEF Init, NoEntry
  <2>3. \A i \in Instances : lastHash[i] = Genesis
    BY DEF Init
  <2> QED
    BY <2>1, <2>2, <2>3 DEF LinksToEarlierRow, CachesLinked, BothLinked, Linked
<1>2. Init => AckedDurable /\ InFlight
  BY DEF Init, AckedDurable, InFlight
<1>3. TypeOK /\ AckedDurable /\ InFlight /\ [Next]_vars => AckedDurable' /\ InFlight'
  BY DurableInductive
<1>4. TypeOK /\ InFlight /\ LinksToEarlierRow /\ CachesLinked /\ [Next]_vars
      => LinksToEarlierRow' /\ CachesLinked'
  BY LinksInductive
<1> QED
  BY <1>1, <1>2, <1>3, <1>4, TypeCorrect, PTL DEF Spec

-----------------------------------------------------------------------------

LEMMA CommitChains ==
  ASSUME NEW rows \in Seq(Row), NEW e \in Row, NEW now \in Nat,
         RowsChained(rows, now), Continues(e, rows, now), e.prev = LastId(rows)
  PROVE  /\ RowsChained(rows \o <<e>>, now)
         /\ LastId(rows \o <<e>>) = e.id
<1>1. /\ Len(rows) \in Nat
      /\ <<e>> \in Seq(Row) /\ Len(<<e>>) = 1 /\ <<e>>[1] = e
      /\ rows = << >> <=> Len(rows) = 0
  BY LenProperties, EmptySeq
<1> DEFINE u == rows \o <<e>>
           n == Len(rows)
<1>2. /\ u \in Seq(Row) /\ Len(u) = n + 1
      /\ \A r \in 1..n : u[r] = rows[r]
      /\ u[n + 1] = e
  <2>1. /\ u \in Seq(Row) /\ Len(u) = Len(rows) + Len(<<e>>)
        /\ \A r \in 1..Len(rows) : u[r] = rows[r]
        /\ \A r \in 1..Len(<<e>>) : u[Len(rows) + r] = <<e>>[r]
    BY <1>1, RowsJoined
  <2>2. 1 \in 1..Len(<<e>>)
    BY <1>1
  <2> QED
    BY <1>1, <2>1, <2>2
<1>3. LastId(u) = e.id
  <2>1. u # << >>
    BY <1>1, <1>2
  <2> QED
    BY <1>2, <2>1 DEF LastId
<1>4. e.prev = (IF n = 0 THEN Genesis ELSE rows[n].id) /\ e.hashed = e.prev
  BY <1>1 DEF Continues, LastId
<1> HIDE DEF u
<1>5. ASSUME NEW r \in 1..Len(u)
      PROVE  /\ u[r].ts < now
             /\ u[r].prev = IF r = 1 THEN Genesis ELSE u[r - 1].id
             /\ u[r].hashed = u[r].prev
             /\ \A q \in 1..Len(u) : q < r => u[q].ts < u[r].ts
  <2>1. CASE r \in 1..n
    <3>1. r = 1 \/ r - 1 \in 1..n
      BY <1>1, <2>1
    <3>2. \A q \in 1..Len(u) : q < r => q \in 1..n
      BY <1>1, <1>2, <2>1
    <3> QED
      BY <1>1, <1>2, <2>1, <3>1, <3>2 DEF RowsChained
  <2>2. CASE r = n + 1
    <3>1. \A q \in 1..Len(u) : q < r => q \in 1..n
      BY <1>1, <1>2, <2>2
    <3>2. n = 0 \/ (n \in 1..n /\ r - 1 = n /\ r # 1)
      BY <1>1, <2>2
    <3>3. u[r].ts < now /\ \A q \in 1..Len(u) : q < r => u[q].ts < u[r].ts
      BY <1>1, <1>2, <2>2, <3>1 DEF Continues
    <3>4. /\ u[r].prev = IF r = 1 THEN Genesis ELSE u[r - 1].id
          /\ u[r].hashed = u[r].prev
      BY <1>1, <1>2, <1>4, <2>2, <3>2
    <3> QED
      BY <3>3, <3>4
  <2> QED
    BY <1>1, <1>2, <2>1, <2>2
<1> QED
  BY <1>3, <1>5 DEF RowsChained, u

(* The rows of a chained table are read in the order of insertion, so the  *)
(* hash verify_chain() carries to a row is the row before it.              *)
LEMMA ChainedVerifies ==
  ASSUME NEW rows \in Seq(Row), NEW now, RowsChained(rows, now),
         \A r \in 1..Len(rows) : rows[r].intact
  PROVE  VerifyChain(rows)
<1>1. Len(rows) \in Nat /\ \A r \in 1..Len(rows) : rows[r].ts \in Nat
  <2>1. \A r \in 1..Len(rows) : rows[r] \in Row
    BY ElementOfSeq
  <2> QED
    BY <2>1, LenProperties DEF Row
<1>2. ASSUME NEW q \in 1..Len(rows), NEW r \in 1..Len(rows)
      PROVE  Before(rows, q, r) <=> q < r
  BY <1>1 DEF RowsChained, Before
<1>3. ASSUME NEW r \in 1..Len(rows)
      PROVE  rows[r].prev = Predecessor(rows, r)
  <2> DEFINE earlier == {q \in 1..Len(rows) : Before(rows, q, r)}
             last(p) == \A q \in earlier : q = p \/ Before(rows, q, p)
  <2>1. \A q : q \in earlier <=> q \in 1..Len(rows) /\ q < r
    BY <1>2
  <2>2. CASE r = 1
    <3>1. earlier = {}
      BY <2>1, <2>2
    <3> QED
      BY <2>2, <3>1 DEF Predecessor, RowsChained
  <2>3. CASE r # 1
    <3>1. r - 1 \in 1..Len(rows) /\ r - 1 < r
      BY <1>1, <2>3
    <3>2. r - 1 \in earlier
      BY <2>1, <3>1
    <3>3. ASSUME NEW q \in earlier
          PROVE  q = r - 1 \/ Before(rows, q, r - 1)
      <4>1. q \in 1..Len(rows) /\ q < r
        BY <2>1
      <4>2. q = r - 1 \/ q < r - 1
        BY <1>1, <4>1
      <4> QED
        BY <1>2, <3>1, <4>1, <4>2
    <3>4. ASSUME NEW p \in earlier, last(p)
          PROVE  p = r - 1
      <4>1. p \in 1..Len(rows) /\ p < r
        BY <2>1
      <4>2. r - 1 = p \/ Before(rows, r - 1, p)
        BY <3>2, <3>4
      <4>3. r - 1 = p \/ r - 1 < p
        BY <1>2, <3>1, <4>1, <4>2
      <4> QED
        BY <1>1, <4>1, <4>3
    <3> HIDE DEF earlier
    <3>5. (CHOOSE p \in earlier : last(p)) = r - 1
      BY <3>2, <3>3, <3>4, Zenon
    <3>6. Predecessor(rows, r) = rows[CHOOSE p \in earlier : last(p)].id
      BY <3>2, Zenon DEF Predecessor, earlier
    <3> QED
      BY <2>3, <3>5, <3>6 DEF RowsChained
  <2> QED
    BY <2>2, <2>3
<1> QED
  BY <1>3 DEF VerifyChain, RowsChained

(* A step that leaves the rows, the clock and the objects as they are      *)
(* keeps the chain, if it keeps what it says of the threads.               *)
LEMMA ChainedSame ==
  ASSUME UNCHANGED <<table, clock>>, RowsChained(table, clock)
  PROVE  RowsChained(table', clock') /\ LastId(table') = LastId(table)
BY DEF RowsChained, LastId

LEMMA ChainInductive ==
  ASSUME TypeOK, Chained, [Next]_vars
  PROVE  Chained'
<1>1. /\ table \in Seq(Row) /\ clock \in Nat
      /\ \A t \in Threads : entry[t] \in Row /\ Owner[t] \in Instances
      /\ \A r \in 1..Len(table) : table[r] \in Row /\ table[r].ts \in Nat
  <2>1. \A r \in 1..Len(table) : table[r] \in Row
    BY ElementOfSeq DEF TypeOK
  <2> QED
    BY <2>1 DEF TypeOK, Row
<1> SUFFICES ASSUME ~disturbed'
             PROVE  /\ RowsChained(table', clock')
                    /\ OneAtATime'
                    /\ \A t \in Threads : ThreadChained(t)'
                    /\ \A i \in Instances : InstanceChained(i)'
  BY DEF Chained, RowsChained
<1>2. ~disturbed
  BY DEF Next, Log, Begin, ReadColumn, Insert, InsertFails, Commit, CommitFails, Advance,
     Construct, Crash, StepBack, Tamper, vars, TypeOK
<1>3. /\ RowsChained(table, clock)
      /\ OneAtATime
      /\ \A t \in Threads : ThreadChained(t)
      /\ \A i \in Instances : InstanceChained(i)
  BY <1>2 DEF Chained
<1> DEFINE Goal == /\ RowsChained(table', clock')
                   /\ OneAtATime'
                   /\ \A t \in Threads : ThreadChained(t)'
                   /\ \A i \in Instances : InstanceChained(i)'
<1>4. ASSUME NEW t \in Threads, Begin(t)
      PROVE  Goal
  <2> DEFINE e == [id |-> nextId, ts |-> clock, hashed |-> lastHash[Owner[t]],
                   prev |-> Genesis, intact |-> TRUE]
  <2>1. /\ table' = table /\ open' = open /\ lastHash' = lastHash /\ up' = up
        /\ up[Owner[t]] /\ pc[t] = "idle" /\ \A u \in Threads : pc[u] = "idle"
        /\ entry'[t] = e /\ clock' = clock + 1
        /\ pc' = [pc EXCEPT ![t] = "column"]
    BY <1>4 DEF Begin, TypeOK
  <2>2. RowsChained(table', clock')
    BY <1>1, <1>3, <2>1 DEF RowsChained
  <2>3. lastHash[Owner[t]] = LastId(table)
    BY <1>1, <1>3, <2>1 DEF InstanceChained
  <2>4. Continues(e, table, clock + 1)
    BY <1>1, <1>3, <2>3 DEF Continues, RowsChained
  <2> HIDE DEF e
  <2>5. pc'[t] = "column" /\ \A u \in Threads : u # t => pc'[u] = "idle"
    BY <2>1 DEF TypeOK
  <2>6. OneAtATime'
    BY <1>3, <2>1, <2>5 DEF OneAtATime
  <2>7. \A u \in Threads : ThreadChained(u)'
    BY <2>1, <2>4, <2>5 DEF ThreadChained, Continues, LastId
  <2>8. \A i \in Instances : InstanceChained(i)'
    BY <1>3, <2>1 DEF InstanceChained, LastId
  <2> QED
    BY <2>2, <2>6, <2>7, <2>8
<1>5. ASSUME NEW t \in Threads, ReadColumn(t)
      PROVE  Goal
  <2>1. /\ table' = table /\ clock' = clock /\ lastHash' = lastHash /\ up' = up
        /\ open' = open /\ pc[t] = "column"
        /\ pc' = [pc EXCEPT ![t] = "insert"]
        /\ entry'[t] = [entry[t] EXCEPT !.prev = lastHash[Owner[t]]]
    BY <1>1, <1>5 DEF ReadColumn, TypeOK
  <2>2. /\ entry'[t].prev = lastHash[Owner[t]]
        /\ entry'[t].hashed = entry[t].hashed
        /\ entry'[t].ts = entry[t].ts
    BY <1>1, <2>1 DEF Row
  <2>3. /\ pc'[t] = "insert" /\ up[Owner[t]]
        /\ \A u \in Threads : u # t => pc[u] = "idle" /\ pc'[u] = "idle"
    BY <1>3, <2>1 DEF TypeOK, OneAtATime, ThreadChained
  <2>4. lastHash[Owner[t]] = LastId(table) /\ Continues(entry[t], table, clock)
    BY <1>1, <1>3, <2>1, <2>3 DEF InstanceChained, ThreadChained
  <2>5. Continues(entry'[t], table', clock') /\ entry'[t].prev = LastId(table')
    BY <2>1, <2>2, <2>4 DEF Continues, LastId
  <2>6. RowsChained(table', clock')
    BY <1>3, <2>1, ChainedSame
  <2>7. OneAtATime'
    BY <1>3, <2>1, <2>3 DEF OneAtATime
  <2>8. \A u \in Threads : ThreadChained(u)'
    BY <2>1, <2>3, <2>5 DEF ThreadChained
  <2>9. \A i \in Instances : InstanceChained(i)'
    <3>1. \A u \in Threads : pc[u] # "commit" /\ pc[u] # "advance"
      BY <2>1, <2>3
    <3> QED
      BY <1>3, <2>1, <3>1 DEF InstanceChained, LastId
  <2> QED
    BY <2>6, <2>7, <2>8, <2>9
<1>6. ASSUME NEW t \in Threads, Insert(t)
      PROVE  Goal
  <2>1. /\ table' = table /\ clock' = clock /\ lastHash' = lastHash /\ up' = up
        /\ entry' = entry /\ pc[t] = "insert"
        /\ pc' = [pc EXCEPT ![t] = "commit"]
        /\ open' = [open EXCEPT ![Owner[t]] = Append(open[Owner[t]], entry[t])]
    BY <1>1, <1>6 DEF Insert, TypeOK
  <2>2. /\ pc'[t] = "commit" /\ up[Owner[t]]
        /\ \A u \in Threads : u # t => pc[u] = "idle" /\ pc'[u] = "idle"
    BY <1>3, <2>1 DEF TypeOK, OneAtATime, ThreadChained
  <2>3. \A u \in Threads : pc[u] # "commit" /\ pc[u] # "advance"
    BY <2>1, <2>2
  <2>4. \A i \in Instances : open[i] = << >>
    BY <1>3, <2>3 DEF InstanceChained
  <2>5. open'[Owner[t]] = <<entry[t]>> /\ \A i \in Instances : i # Owner[t] => open'[i] = << >>
    <3>1. Append(open[Owner[t]], entry[t]) = <<entry[t]>>
      <4>1. open[Owner[t]] = << >>
        BY <1>1, <2>4
      <4> QED
        BY <4>1
    <3>2. open' = [open EXCEPT ![Owner[t]] = <<entry[t]>>]
      BY <2>1, <3>1, Zenon
    <3> QED
      BY <1>1, <2>4, <3>2 DEF TypeOK
  <2>6. RowsChained(table', clock')
    BY <1>3, <2>1, ChainedSame
  <2>7. OneAtATime'
    BY <1>3, <2>1, <2>2 DEF OneAtATime
  <2>8. \A u \in Threads : ThreadChained(u)'
    BY <1>3, <2>1, <2>2, <2>5 DEF ThreadChained, Continues, LastId
  <2>9. \A i \in Instances : InstanceChained(i)'
    BY <1>3, <2>1, <2>2, <2>3, <2>5 DEF InstanceChained, LastId
  <2> QED
    BY <2>6, <2>7, <2>8, <2>9
<1>7. ASSUME NEW t \in Threads, InsertFails(t)
      PROVE  Goal
  <2>1. /\ pc[t] = "insert"
        /\ \E i \in Instances \ {Owner[t]} : open[i] # << >>
    BY <1>7 DEF InsertFails, WriteLockFree
  <2>2. \A u \in Threads : pc[u] # "commit"
    BY <1>3, <2>1 DEF OneAtATime
  <2> QED
    BY <1>3, <2>1, <2>2 DEF InstanceChained
<1>8. ASSUME NEW t \in Threads, Commit(t)
      PROVE  Goal
  <2>1. /\ table' = table \o open[Owner[t]] /\ clock' = clock /\ lastHash' = lastHash
        /\ up' = up /\ entry' = entry /\ pc[t] = "commit"
        /\ pc' = [pc EXCEPT ![t] = "advance"]
        /\ open' = [open EXCEPT ![Owner[t]] = << >>]
    BY <1>1, <1>8 DEF Commit, TypeOK
  <2>2. /\ pc'[t] = "advance" /\ up[Owner[t]]
        /\ \A u \in Threads : u # t => pc[u] = "idle" /\ pc'[u] = "idle"
    BY <1>3, <2>1 DEF TypeOK, OneAtATime, ThreadChained
  <2>3. /\ open[Owner[t]] = <<entry[t]>>
        /\ Continues(entry[t], table, clock) /\ entry[t].prev = LastId(table)
    BY <1>3, <2>1 DEF ThreadChained
  <2>4. RowsChained(table \o <<entry[t]>>, clock) /\ LastId(table \o <<entry[t]>>) = entry[t].id
    BY <1>1, <1>3, <2>3, CommitChains
  <2>5. RowsChained(table', clock') /\ LastId(table') = entry[t].id
    BY <2>1, <2>3, <2>4
  <2>6. OneAtATime'
    BY <1>3, <2>1, <2>2 DEF OneAtATime
  <2>7. \A u \in Threads : ThreadChained(u)'
    BY <2>1, <2>2, <2>5 DEF ThreadChained, LastId
  <2>8. \A i \in Instances : open'[i] = << >>
    <3>1. \A i \in Instances : i # Owner[t] => open[i] = << >>
      BY <1>3, <2>1, <2>2 DEF InstanceChained
    <3> QED
      BY <1>1, <2>1, <3>1 DEF TypeOK
  <2>9. \A i \in Instances : up[i] => i = Owner[t]
    BY <1>1, <1>3, <2>2 DEF OneAtATime
  <2>10. \A i \in Instances : InstanceChained(i)'
    BY <2>1, <2>2, <2>8, <2>9 DEF InstanceChained
  <2> QED
    BY <2>5, <2>6, <2>7, <2>10
<1>9. ASSUME NEW t \in Threads, Advance(t)
      PROVE  Goal
  <2>1. /\ table' = table /\ clock' = clock /\ up' = up
        /\ lastHash' = [lastHash EXCEPT ![Owner[t]] = entry[t].id]
        /\ entry' = entry /\ pc[t] = "advance" /\ open' = open
        /\ pc' = [pc EXCEPT ![t] = "idle"]
    BY <1>1, <1>9 DEF Advance, TypeOK
  <2>2. /\ \A u \in Threads : pc'[u] = "idle"
        /\ \A u \in Threads : pc[u] # "commit"
        /\ up[Owner[t]]
    BY <1>3, <2>1 DEF TypeOK, OneAtATime, ThreadChained
  <2>3. lastHash'[Owner[t]] = LastId(table) /\ LastId(table') = LastId(table)
    BY <1>1, <1>3, <2>1 DEF ThreadChained, TypeOK, LastId
  <2>4. RowsChained(table', clock')
    BY <1>3, <2>1, ChainedSame
  <2>5. OneAtATime'
    BY <1>3, <2>1, <2>2 DEF OneAtATime
  <2>6. \A u \in Threads : ThreadChained(u)'
    BY <2>2 DEF ThreadChained
  <2>7. \A i \in Instances : up[i] => i = Owner[t]
    BY <1>1, <1>3, <2>2 DEF OneAtATime
  <2>8. \A i \in Instances : open[i] = << >>
    BY <1>3, <2>2 DEF InstanceChained
  <2>9. \A i \in Instances : InstanceChained(i)'
    BY <2>1, <2>3, <2>7, <2>8 DEF InstanceChained
  <2> QED
    BY <2>4, <2>5, <2>6, <2>9
<1>10. ASSUME NEW i \in Instances, Construct(i)
       PROVE  Goal
  <2>1. PICK h \in Hashes : Tip(table, h) /\ lastHash' = [lastHash EXCEPT ![i] = h]
    BY <1>10 DEF Construct
  <2>2. /\ table' = table /\ clock' = clock /\ lastHash'[i] = h
        /\ entry' = entry /\ pc' = pc /\ open' = open
        /\ up' = [up EXCEPT ![i] = TRUE]
        /\ \A j \in Instances : ~up[j]
    BY <1>1, <1>10, <2>1 DEF Construct, TypeOK
  <2>3. \A u \in Threads : pc[u] = "idle"
    BY <1>1, <1>3, <2>2 DEF ThreadChained
  <2>4. h = LastId(table)
    <3>1. CASE table = << >>
      <4>1. 1..Len(table) = {}
        BY <3>1
      <4> QED
        BY <2>1, <3>1, <4>1 DEF Tip, LastId
    <3>2. CASE table # << >>
      <4>1. Len(table) \in 1..Len(table)
        BY <1>1, <3>2, EmptySeq, LenProperties
      <4>2. PICK r \in 1..Len(table) :
              /\ h = table[r].id
              /\ \A q \in 1..Len(table) :
                   table[q].ts < table[r].ts \/ (table[q].ts = table[r].ts /\ r <= q)
        BY <2>1, <3>2 DEF Tip
      <4>3. r < Len(table) => table[r].ts < table[Len(table)].ts
        BY <1>3, <4>1 DEF RowsChained
      <4>4. r = Len(table)
        BY <1>1, <4>1, <4>2, <4>3
      <4> QED
        BY <3>2, <4>2, <4>4 DEF LastId
    <3> QED
      BY <3>1, <3>2
  <2>5. RowsChained(table', clock') /\ LastId(table') = h
    BY <1>3, <2>2, <2>4, ChainedSame
  <2>6. \A j \in Instances : up'[j] => j = i
    BY <2>2 DEF TypeOK
  <2>7. OneAtATime'
    BY <2>2, <2>3, <2>6 DEF OneAtATime
  <2>8. \A u \in Threads : ThreadChained(u)'
    BY <2>2, <2>3 DEF ThreadChained
  <2>9. \A j \in Instances : open[j] = << >>
    BY <1>3, <2>3 DEF InstanceChained
  <2>10. \A j \in Instances : InstanceChained(j)'
    BY <2>2, <2>5, <2>6, <2>9 DEF InstanceChained
  <2> QED
    BY <2>5, <2>7, <2>8, <2>10
<1>11. ASSUME NEW i \in Instances, Crash(i)
       PROVE  Goal
  <2>1. /\ table' = table /\ clock' = clock /\ entry' = entry /\ lastHash' = lastHash
        /\ up[i] /\ up' = [up EXCEPT ![i] = FALSE]
        /\ open' = [open EXCEPT ![i] = << >>]
        /\ pc' = [u \in Threads |-> IF Owner[u] = i THEN "idle" ELSE pc[u]]
    BY <1>11 DEF Crash
  <2>2. \A j \in Instances : up[j] => j = i
    BY <1>3, <2>1 DEF OneAtATime
  <2>3. /\ \A j \in Instances : ~up'[j]
        /\ \A u \in Threads : pc'[u] = "idle"
    BY <1>1, <1>3, <2>1, <2>2 DEF ThreadChained, TypeOK
  <2>4. \A j \in Instances : open'[j] = << >>
    <3>1. ASSUME NEW j \in Instances, j # i
          PROVE  open[j] = << >>
      <4>1. \A u \in Threads : pc[u] # "idle" => Owner[u] = i
        BY <1>1, <1>3, <2>2 DEF ThreadChained
      <4> QED
        BY <1>3, <3>1, <4>1 DEF InstanceChained
    <3> QED
      BY <2>1, <3>1 DEF TypeOK
  <2>5. RowsChained(table', clock')
    BY <1>3, <2>1, ChainedSame
  <2>6. OneAtATime'
    BY <2>3 DEF OneAtATime
  <2>7. \A u \in Threads : ThreadChained(u)'
    BY <2>3 DEF ThreadChained
  <2>8. \A j \in Instances : InstanceChained(j)'
    BY <2>3, <2>4 DEF InstanceChained
  <2> QED
    BY <2>5, <2>6, <2>7, <2>8
<1>12. ASSUME Tamper
       PROVE  Goal
  <2>1. PICK r \in 1..Len(table) : table' = [table EXCEPT ![r].intact = FALSE]
    BY <1>12 DEF Tamper
  <2>2. /\ table' \in Seq(Row)
        /\ Len(table') = Len(table)
        /\ \A q \in 1..Len(table) :
             /\ table'[q].id = table[q].id
             /\ table'[q].ts = table[q].ts
             /\ table'[q].hashed = table[q].hashed
             /\ table'[q].prev = table[q].prev
    BY <1>1, <2>1, RowAltered
  <2>3. UNCHANGED <<clock, open, lastHash, up, pc, entry>>
    BY <1>12 DEF Tamper
  <2>4. RowsChained(table', clock')
    <3>1. \A q \in 1..Len(table) : q # 1 => q - 1 \in 1..Len(table)
      BY <1>1, LenProperties
    <3> QED
      BY <1>3, <2>2, <2>3, <3>1 DEF RowsChained
  <2>5. LastId(table') = LastId(table)
    <3>1. table' = << >> <=> table = << >>
      BY <1>1, <2>2, EmptySeq, LenProperties
    <3>2. table # << >> => Len(table) \in 1..Len(table)
      BY <1>1, EmptySeq, LenProperties
    <3> QED
      BY <2>2, <3>1, <3>2 DEF LastId
  <2>6. \A e : Continues(e, table, clock) => Continues(e, table', clock')
    BY <2>2, <2>3, <2>5 DEF Continues
  <2>7. OneAtATime'
    BY <1>3, <2>3 DEF OneAtATime
  <2>8. \A u \in Threads : ThreadChained(u)'
    BY <1>3, <2>3, <2>5, <2>6 DEF ThreadChained
  <2>9. \A i \in Instances : InstanceChained(i)'
    BY <1>3, <2>3, <2>5 DEF InstanceChained
  <2> QED
    BY <2>4, <2>7, <2>8, <2>9
<1>13. ASSUME UNCHANGED vars
       PROVE  Goal
  BY <1>3, <1>13 DEF vars, RowsChained, OneAtATime, ThreadChained, InstanceChained, Continues, LastId
<1>14. ~StepBack /\ \A t \in Threads : ~CommitFails(t)
  BY DEF CommitFails, StepBack
<1> QED
  BY <1>4, <1>5, <1>6, <1>7, <1>8, <1>9, <1>10, <1>11, <1>12, <1>13, <1>14 DEF Next, Log

(* As long as one call of one object ran at a time, no commit failed and   *)
(* the clock only moved forward, the log verifies after every crash and    *)
(* restart unless a row was altered: for any number of threads and objects *)
(* that take turns.  Each condition is needed: without it, TLC finds a log *)
(* nobody altered that does not verify.                                    *)
THEOREM UndisturbedVerifies == Spec => []VerifiesUnaltered
<1>1. Init => Chained
  <2> SUFFICES ASSUME Init
               PROVE  Chained
    OBVIOUS
  <2>1. 1..Len(table) = {}
    BY DEF Init
  <2>2. RowsChained(table, clock)
    BY <2>1 DEF RowsChained
  <2> QED
    BY <2>2 DEF Init, Chained, OneAtATime, ThreadChained, InstanceChained
<1>2. TypeOK /\ Chained /\ [Next]_vars => Chained'
  BY ChainInductive
<1>3. TypeOK /\ Chained => VerifiesUnaltered
  BY ChainedVerifies DEF TypeOK, VerifiesUnaltered, Unaltered, Chained
<1> QED
  BY <1>1, <1>2, <1>3, TypeCorrect, PTL DEF Spec
=============================================================================
