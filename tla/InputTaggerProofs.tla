------------------------- MODULE InputTaggerProofs -------------------------
(***************************************************************************)
(* For any number of devices, readers and events: what the tasks do to the *)
(* list they share, while the others wait in the middle of a loop over it, *)
(* neither loses a reader nor repeats an event.                            *)
(***************************************************************************)
EXTENDS InputTagger, FiniteSetTheorems, SequenceTheorems, TLAPS

-----------------------------------------------------------------------------
(* The items at some places of a list. *)

UpTo(places, i) == {j \in places : j <= i}

LEMMA FinitePlaces ==
  ASSUME NEW len \in Nat, NEW places \in SUBSET (1..len)
  PROVE  IsFiniteSet(places) /\ Cardinality(places) \in Nat
<1>1. IsFiniteSet(1..len)
  BY FS_Interval
<1>2. IsFiniteSet(places)
  BY <1>1, FS_Subset
<1> QED
  BY <1>2, FS_CardinalityType

LEMMA UpToGrows ==
  ASSUME NEW len \in Nat, NEW places \in SUBSET (1..len), NEW i \in places
  PROVE  /\ Cardinality(UpTo(places, i)) \in 1..Cardinality(places)
         /\ Cardinality(UpTo(places, i)) <= i
         /\ \A j \in places : i < j => Cardinality(UpTo(places, i)) < Cardinality(UpTo(places, j))
<1>1. IsFiniteSet(places) /\ Cardinality(places) \in Nat
  BY FinitePlaces
<1>2. ASSUME NEW j \in places
      PROVE  /\ IsFiniteSet(UpTo(places, j)) /\ Cardinality(UpTo(places, j)) \in Nat
             /\ Cardinality(UpTo(places, j)) <= Cardinality(places)
  BY <1>1, FS_Subset, FS_CardinalityType DEF UpTo
<1>3. i \in UpTo(places, i)
  BY DEF UpTo
<1>4. Cardinality(UpTo(places, i)) # 0
  BY <1>2, <1>3, FS_EmptySet
<1>5. Cardinality(UpTo(places, i)) <= i
  <2>1. IsFiniteSet(1..i) /\ Cardinality(1..i) = i
    BY FS_Interval
  <2>2. \A m \in places : m <= i => m \in 1..i
    OBVIOUS
  <2>3. UpTo(places, i) \in SUBSET (1..i)
    BY <2>2, Zenon DEF UpTo
  <2> QED
    BY <2>1, <2>3, FS_Subset
<1>6. ASSUME NEW j \in places, i < j
      PROVE  Cardinality(UpTo(places, i)) < Cardinality(UpTo(places, j))
  <2>1. i \in Int /\ j \in Int /\ \A m \in places : m \in Int
    OBVIOUS
  <2>2. UpTo(places, i) \in SUBSET UpTo(places, j)
    <3>1. \A m \in Int : m <= i => m <= j
      BY <1>6, <2>1
    <3> QED
      BY <2>1, <3>1, Zenon DEF UpTo
  <2>3. j \in UpTo(places, j) /\ j \notin UpTo(places, i)
    BY <1>6, <2>1 DEF UpTo
  <2>4. Cardinality(UpTo(places, i)) <= Cardinality(UpTo(places, j))
    BY <1>2, <2>2, FS_Subset
  <2>5. Cardinality(UpTo(places, i)) # Cardinality(UpTo(places, j))
    BY <1>2, <2>2, <2>3, FS_Subset
  <2> QED
    BY <1>2, <2>4, <2>5
<1> QED
  BY <1>1, <1>2, <1>4, <1>5, <1>6

(* The places are counted off in their order, each once and no later than  *)
(* where it is.                                                            *)
LEMMA NthInOrder ==
  ASSUME NEW len \in Nat, NEW places \in SUBSET (1..len)
  PROVE  /\ Cardinality(places) \in Nat
         /\ \A k \in 1..Cardinality(places) :
              /\ Nth(places, k) \in places
              /\ k <= Nth(places, k)
              /\ \A m \in 1..Cardinality(places) : k < m => Nth(places, k) < Nth(places, m)
         /\ \A i \in places : \E k \in 1..Cardinality(places) : Nth(places, k) = i
<1> DEFINE n == Cardinality(places)
           Count == [i \in places |-> Cardinality(UpTo(places, i))]
<1>1. IsFiniteSet(places) /\ n \in Nat
  BY FinitePlaces
<1>2. /\ Count \in [places -> 1..n]
      /\ \A i, j \in places : i < j => Count[i] < Count[j]
      /\ \A i \in places : Count[i] <= i
  BY UpToGrows
<1>3. \A i, j \in places : Count[i] = Count[j] => i = j
  BY <1>1, <1>2
<1>4. ASSUME NEW k \in 1..n
      PROVE  \E i \in places : Count[i] = k
  <2> SUFFICES ASSUME \A i \in places : Count[i] # k
               PROVE  FALSE
    OBVIOUS
  <2> DEFINE others == (1..n) \ {k}
  <2>1. Count \in [places -> others]
    BY <1>2
  <2>2. IsFiniteSet(1..n) /\ Cardinality(1..n) = n
    BY <1>1, FS_Interval
  <2>3. IsFiniteSet(others) /\ Cardinality(others) = n - 1
    BY <2>2, FS_RemoveElement
  <2>4. Cardinality(others) < Cardinality(places)
    BY <1>1, <2>3
  <2> HIDE DEF n, Count, others
  <2>5. \E i, j \in places : i # j /\ Count[i] = Count[j]
    BY <1>1, <2>1, <2>3, <2>4, FS_PigeonHole
  <2> QED
    BY <1>3, <2>5
<1>5. \A k \in 1..n : Nth(places, k) = CHOOSE i \in places : Count[i] = k
  BY DEF Nth, UpTo
<1> HIDE DEF n, Count
<1>6. \A k \in 1..n : Nth(places, k) \in places /\ Count[Nth(places, k)] = k
  BY <1>4, <1>5
<1>7. \A i \in places : Count[i] \in 1..n /\ Nth(places, Count[i]) = i
  BY <1>2, <1>3, <1>6
<1>8. ASSUME NEW k \in 1..n, NEW m \in 1..n, k < m
      PROVE  Nth(places, k) < Nth(places, m)
  <2>1. PICK i \in places : i = Nth(places, k) /\ Count[i] = k
    BY <1>6
  <2>2. PICK j \in places : j = Nth(places, m) /\ Count[j] = m
    BY <1>6
  <2>3. i \in Int /\ j \in Int /\ k \in Int /\ m \in Int
    BY <1>1
  <2>4. i # j /\ ~(j < i)
    BY <1>2, <1>8, <2>1, <2>2, <2>3
  <2> QED
    BY <2>1, <2>2, <2>3, <2>4
<1>9. \A k \in 1..n : k <= Nth(places, k)
  BY <1>2, <1>6
<1> QED
  BY <1>1, <1>6, <1>7, <1>8, <1>9 DEF n

(* What is kept of a list moves only to the front, and nothing of it is    *)
(* doubled.                                                                *)
LEMMA AtPlacesKeep ==
  ASSUME NEW T, NEW s \in Seq(T), NEW places \in SUBSET (1..Len(s))
  PROVE  /\ AtPlaces(s, places) \in Seq(T)
         /\ \A i \in places : \E k \in 1..Len(AtPlaces(s, places)) : k <= i /\ AtPlaces(s, places)[k] = s[i]
         /\ \A k \in 1..Len(AtPlaces(s, places)) : \E i \in places : AtPlaces(s, places)[k] = s[i]
         /\ (\A i, j \in 1..Len(s) : s[i] = s[j] => i = j) =>
              \A k, m \in 1..Len(AtPlaces(s, places)) : AtPlaces(s, places)[k] = AtPlaces(s, places)[m] => k = m
<1> DEFINE n == Cardinality(places)
           t == AtPlaces(s, places)
<1>1. Len(s) \in Nat /\ \A i \in 1..Len(s) : s[i] \in T
  OBVIOUS
<1>2. /\ n \in Nat
      /\ \A k \in 1..n : /\ Nth(places, k) \in places
                         /\ k <= Nth(places, k)
                         /\ \A m \in 1..n : k < m => Nth(places, k) < Nth(places, m)
      /\ \A i \in places : \E k \in 1..n : Nth(places, k) = i
  BY <1>1, NthInOrder
<1>3. t = [k \in 1..n |-> s[Nth(places, k)]]
  BY DEF AtPlaces
<1> HIDE DEF n, t
<1>4. t \in [1..n -> T]
  BY <1>1, <1>2, <1>3
<1>5. t \in Seq(T) /\ Len(t) = n
  BY <1>2, <1>4
<1>6. \A k \in 1..n : t[k] = s[Nth(places, k)]
  BY <1>3
<1>7. \A i \in places : \E k \in 1..Len(t) : k <= i /\ t[k] = s[i]
  BY <1>2, <1>5, <1>6
<1>8. \A k \in 1..Len(t) : \E i \in places : t[k] = s[i]
  BY <1>2, <1>5, <1>6
<1>9. ASSUME \A i, j \in 1..Len(s) : s[i] = s[j] => i = j,
             NEW k \in 1..Len(t), NEW m \in 1..Len(t), t[k] = t[m]
      PROVE  k = m
  <2>1. PICK i \in 1..Len(s) : i = Nth(places, k)
    BY <1>2, <1>5
  <2>2. PICK j \in 1..Len(s) : j = Nth(places, m)
    BY <1>2, <1>5
  <2>3. i = j
    BY <1>5, <1>6, <1>9, <2>1, <2>2
  <2>4. k \in 1..n /\ m \in 1..n
    BY <1>5
  <2>5. (k < m => i < j) /\ (m < k => j < i)
    BY <1>2, <2>1, <2>2, <2>4, Zenon
  <2>6. k \in Int /\ m \in Int /\ i \in Int
    BY <1>1, <1>2, <2>4
  <2> QED
    BY <2>3, <2>5, <2>6
<1> QED
  BY <1>5, <1>7, <1>8, <1>9 DEF t

-----------------------------------------------------------------------------
(* The invariant. *)

Stamped == \A d \in Devices : pc[d] \in {"loop", "drain"} => taken[d] # 0

DrainsAReader == \A d \in Devices : pc[d] = "drain" => current[d] \in Readers

(* Only a writer whose reader is gone is given up.                         *)
DeadAreGone == \A d \in Devices : \A k \in 1..Len(dead[d]) : conn[dead[d][k]] = "gone"

(* No connection is made twice: a writer that was removed does not return. *)
NewcomersOut == \A k \in 1..Len(clients) : conn[clients[k]] # "none"

NewcomersUnserved == \A r \in Readers : conn[r] = "none" => Len(inbox[r]) = 0

NotAhead == \A r \in Readers : \A i \in 1..Len(inbox[r]) : inbox[r][i].n <= taken[inbox[r][i].of]

(* A loop has left behind it, in the list as it is now, the readers that   *)
(* have got its event and are still there.                                 *)
ServedBehind ==
  \A d \in Devices, r \in Readers : \A i \in 1..Len(inbox[r]) :
    pc[d] \in {"loop", "drain"} /\ conn[r] = "open" /\ inbox[r][i].of = d /\ inbox[r][i].n = taken[d]
    => \E k \in 1..Len(clients) : k < next[d] /\ clients[k] = r

ListInv == TypeOK /\ Stamped /\ DrainsAReader /\ DeadAreGone /\ NewcomersOut /\ LiveKept

InboxInv == NewcomersUnserved /\ NotAhead /\ ServedBehind /\ InOrderOnce

LEMMA InitInv == Init => ListInv /\ InboxInv
<1> SUFFICES ASSUME Init
             PROVE  ListInv /\ InboxInv
  OBVIOUS
<1> USE DEF Init
<1>1. TypeOK
  BY TaggerAssumption DEF TypeOK
<1>2. Stamped /\ DrainsAReader /\ DeadAreGone /\ NewcomersOut /\ LiveKept
  BY DEF Stamped, DrainsAReader, DeadAreGone, NewcomersOut, LiveKept
<1>3. NewcomersUnserved /\ NotAhead /\ ServedBehind /\ InOrderOnce
  BY DEF NewcomersUnserved, NotAhead, ServedBehind, InOrderOnce
<1> QED
  BY <1>1, <1>2, <1>3 DEF ListInv, InboxInv

LEMMA AppendItems ==
  ASSUME NEW T, NEW s \in Seq(T), NEW x \in T
  PROVE  /\ Append(s, x) \in Seq(T) /\ Len(s) \in Nat /\ Len(Append(s, x)) = Len(s) + 1
         /\ \A i \in 1..Len(s) : Append(s, x)[i] = s[i]
         /\ Append(s, x)[Len(s) + 1] = x
         /\ \A i \in 1..Len(Append(s, x)) : i \in 1..Len(s) \/ i = Len(s) + 1
OBVIOUS

LEMMA InToSet ==
  ASSUME NEW T, NEW s \in Seq(T), NEW x
  PROVE  x \in ToSet(s) <=> \E k \in 1..Len(s) : s[k] = x
BY DEF ToSet

LEMMA EntryTypes ==
  ASSUME TypeOK, NEW r \in Readers, NEW i \in 1..Len(inbox[r])
  PROVE  inbox[r][i].of \in Devices /\ inbox[r][i].n \in Nat /\ taken[inbox[r][i].of] \in Nat
<1>1. inbox[r] \in Seq([of : Devices, n : 1..MaxEvents])
  BY DEF TypeOK
<1>2. inbox[r][i] \in [of : Devices, n : 1..MaxEvents]
  <2> DEFINE T == [of : Devices, n : 1..MaxEvents]
  <2>1. inbox[r] \in Seq(T)
    BY <1>1
  <2> HIDE DEF T
  <2>2. inbox[r][i] \in T
    BY <2>1
  <2> QED
    BY <2>2 DEF T
<1>3. inbox[r][i].of \in Devices /\ inbox[r][i].n \in Nat
  BY <1>2
<1> QED
  BY <1>3, TaggerAssumption DEF TypeOK

(* What the list is concerned with stays the same.                         *)
LEMMA SameList ==
  ASSUME ListInv, TypeOK', UNCHANGED <<clients, conn, taken, current, dead>>,
         \A d \in Devices : pc'[d] \in {"loop", "drain"} => pc[d] = pc'[d]
  PROVE  ListInv'
BY DEF ListInv, Stamped, DrainsAReader, DeadAreGone, NewcomersOut, LiveKept

-----------------------------------------------------------------------------
(* Accept() and Hangup() *)

LEMMA AcceptList ==
  ASSUME ListInv, NEW r \in Readers, Accept(r)
  PROVE  ListInv'
<1> USE DEF ListInv
<1>1. TypeOK
  OBVIOUS
<1>2. /\ clients' \in Seq(Readers) /\ Len(clients) \in Nat /\ Len(clients') = Len(clients) + 1
      /\ \A i \in 1..Len(clients) : clients'[i] = clients[i] /\ clients[i] \in Readers
      /\ clients'[Len(clients) + 1] = r
      /\ \A i \in 1..Len(clients') : i \in 1..Len(clients) \/ i = Len(clients) + 1
  BY <1>1, AppendItems DEF TypeOK, Accept
<1>3. conn[r] = "none" /\ conn' = [conn EXCEPT ![r] = "open"]
      /\ UNCHANGED <<pc, taken, next, current, dead, inbox>>
  BY DEF Accept
<1>4. TypeOK'
  BY <1>1, <1>2, <1>3 DEF TypeOK
<1>5. Stamped' /\ DrainsAReader'
  BY <1>3 DEF Stamped, DrainsAReader
<1>6. DeadAreGone'
  BY <1>1, <1>3 DEF DeadAreGone, TypeOK
<1>7. NewcomersOut'
  BY <1>1, <1>2, <1>3 DEF NewcomersOut, TypeOK
<1>8. LiveKept'
  <2>1. \A i \in 1..Len(clients) : clients[i] # r
    BY <1>3 DEF NewcomersOut
  <2>2. \A i, j \in 1..Len(clients') : clients'[i] = clients'[j] => i = j
    BY <1>2, <2>1 DEF LiveKept
  <2>3. ASSUME NEW q \in Readers, conn'[q] = "open"
        PROVE  q \in ToSet(clients')
    <3>1. CASE q = r
      BY <1>2, <3>1, InToSet
    <3>2. CASE q # r
      <4>1. q \in ToSet(clients)
        BY <1>1, <1>3, <2>3, <3>2 DEF LiveKept, TypeOK
      <4>2. PICK k \in 1..Len(clients) : clients[k] = q
        BY <1>1, <4>1, InToSet DEF TypeOK
      <4> QED
        BY <1>2, <4>2, InToSet
    <3> QED
      BY <3>1, <3>2
  <2> QED
    BY <2>2, <2>3 DEF LiveKept
<1> QED
  BY <1>4, <1>5, <1>6, <1>7, <1>8

LEMMA AcceptInbox ==
  ASSUME ListInv, InboxInv, NEW r \in Readers, Accept(r)
  PROVE  InboxInv'
<1> USE DEF InboxInv
<1>1. TypeOK
  BY DEF ListInv
<1>2. /\ conn[r] = "none" /\ conn' = [conn EXCEPT ![r] = "open"]
      /\ UNCHANGED <<pc, taken, next, inbox>>
  BY DEF Accept
<1>3. NewcomersUnserved' /\ NotAhead' /\ InOrderOnce'
  BY <1>1, <1>2 DEF NewcomersUnserved, NotAhead, InOrderOnce, TypeOK
<1>4. /\ Len(clients) \in Nat /\ Len(clients') = Len(clients) + 1
      /\ \A i \in 1..Len(clients) : clients'[i] = clients[i]
  BY <1>1, AppendItems DEF TypeOK, Accept
<1>5. ASSUME NEW d \in Devices, NEW q \in Readers, NEW i \in 1..Len(inbox[q]),
             pc[d] \in {"loop", "drain"}, conn'[q] = "open", inbox[q][i].of = d, inbox[q][i].n = taken[d]
      PROVE  \E k \in 1..Len(clients') : k < next[d] /\ clients'[k] = q
  <2>1. q # r
    BY <1>2, <1>5 DEF NewcomersUnserved
  <2>2. conn[q] = "open"
    BY <1>1, <1>2, <1>5, <2>1 DEF TypeOK
  <2>3. PICK k \in 1..Len(clients) : k < next[d] /\ clients[k] = q
    BY <1>5, <2>2 DEF ServedBehind
  <2> QED
    BY <1>4, <2>3
<1>6. ServedBehind'
  BY <1>2, <1>5 DEF ServedBehind
<1> QED
  BY <1>3, <1>6

LEMMA HangupStep ==
  ASSUME ListInv, InboxInv, NEW r \in Readers, Hangup(r)
  PROVE  ListInv' /\ InboxInv'
<1> USE DEF ListInv, InboxInv
<1>1. TypeOK
  OBVIOUS
<1>2. /\ conn[r] = "open" /\ conn' = [conn EXCEPT ![r] = "gone"]
      /\ UNCHANGED <<clients, pc, taken, next, current, dead, inbox>>
  BY DEF Hangup
<1>3. /\ \A q \in Readers : conn'[q] = "open" => conn[q] = "open"
      /\ \A q \in Readers : conn'[q] = "none" <=> conn[q] = "none"
      /\ \A q \in Readers : conn[q] = "gone" => conn'[q] = "gone"
  BY <1>1, <1>2 DEF TypeOK
<1>4. TypeOK' /\ Stamped' /\ DrainsAReader'
  BY <1>1, <1>2 DEF TypeOK, Stamped, DrainsAReader
<1>5. DeadAreGone'
  BY <1>1, <1>2, <1>3 DEF DeadAreGone, TypeOK
<1>6. NewcomersOut'
  BY <1>1, <1>2, <1>3 DEF NewcomersOut, TypeOK
<1>7. LiveKept' /\ ServedBehind'
  BY <1>2, <1>3 DEF LiveKept, ServedBehind
<1>8. NewcomersUnserved' /\ NotAhead' /\ InOrderOnce'
  BY <1>2, <1>3 DEF NewcomersUnserved, NotAhead, InOrderOnce
<1> QED
  BY <1>4, <1>5, <1>6, <1>7, <1>8

-----------------------------------------------------------------------------
(* watch_device() *)

LEMMA EventStep ==
  ASSUME ListInv, InboxInv, NEW d \in Devices, Event(d)
  PROVE  ListInv' /\ InboxInv'
<1> USE DEF InboxInv
<1>1. TypeOK
  BY DEF ListInv
<1>2. /\ pc[d] = "idle" /\ taken[d] < MaxEvents
      /\ taken' = [taken EXCEPT ![d] = @ + 1] /\ next' = [next EXCEPT ![d] = 1]
      /\ dead' = [dead EXCEPT ![d] = << >>] /\ pc' = [pc EXCEPT ![d] = "loop"]
      /\ UNCHANGED <<clients, conn, current, inbox>>
  BY DEF Event
<1>3. taken[d] \in Nat /\ taken'[d] = taken[d] + 1 /\ taken[d] + 1 \in 0..MaxEvents
  BY <1>1, <1>2, TaggerAssumption DEF TypeOK
<1>4. \A e \in Devices : e # d => taken'[e] = taken[e] /\ pc'[e] = pc[e] /\ next'[e] = next[e] /\ dead'[e] = dead[e]
  BY <1>1, <1>2 DEF TypeOK
<1>5. TypeOK'
  <2>1. << >> \in Seq(Readers) /\ 1 \in Nat \ {0}
    OBVIOUS
  <2>2. dead' \in [Devices -> Seq(Readers)] /\ next' \in [Devices -> Nat \ {0}]
    BY <1>1, <1>2, <2>1 DEF TypeOK
  <2>3. taken' \in [Devices -> 0..MaxEvents]
    BY <1>1, <1>2, <1>3 DEF TypeOK
  <2> QED
    BY <1>1, <1>2, <2>2, <2>3 DEF TypeOK
<1>6. pc'[d] = "loop" /\ dead'[d] = << >>
  BY <1>1, <1>2 DEF TypeOK
<1>7. ListInv'
  BY <1>2, <1>3, <1>4, <1>5, <1>6 DEF ListInv, Stamped, DrainsAReader, DeadAreGone, NewcomersOut, LiveKept
<1>8. \A r \in Readers : \A i \in 1..Len(inbox[r]) :
        inbox[r][i].of \in Devices /\ inbox[r][i].n \in Nat /\ taken[inbox[r][i].of] \in Nat
  BY <1>1, EntryTypes
<1>9. NotAhead'
  BY <1>2, <1>3, <1>4, <1>8 DEF NotAhead
<1>10. \A r \in Readers : \A i \in 1..Len(inbox[r]) : inbox[r][i].of = d => inbox[r][i].n # taken'[d]
  BY <1>3, <1>8 DEF NotAhead
<1>11. ServedBehind'
  BY <1>2, <1>4, <1>10 DEF ServedBehind
<1>12. NewcomersUnserved' /\ InOrderOnce'
  BY <1>2 DEF NewcomersUnserved, InOrderOnce
<1> QED
  BY <1>7, <1>9, <1>11, <1>12

LEMMA UnplugStep ==
  ASSUME ListInv, InboxInv, NEW d \in Devices, Unplug(d)
  PROVE  ListInv' /\ InboxInv'
<1>1. TypeOK
  BY DEF ListInv
<1>2. pc' = [pc EXCEPT ![d] = "unplugged"] /\ UNCHANGED <<clients, conn, taken, next, current, dead, inbox>>
  BY DEF Unplug
<1>3. \A e \in Devices : pc'[e] \in {"loop", "drain"} => pc[e] = pc'[e]
  BY <1>1, <1>2 DEF TypeOK
<1>4. TypeOK'
  BY <1>1, <1>2 DEF TypeOK
<1>5. ListInv'
  BY <1>2, <1>3, <1>4, SameList
<1>6. InboxInv'
  BY <1>2, <1>3 DEF InboxInv, NewcomersUnserved, NotAhead, ServedBehind, InOrderOnce
<1> QED
  BY <1>5, <1>6

LEMMA DrainStep ==
  ASSUME ListInv, InboxInv, NEW d \in Devices, Drain(d)
  PROVE  ListInv' /\ InboxInv'
<1> USE DEF ListInv
<1>1. TypeOK
  OBVIOUS
<1>2. PICK raises \in {FALSE, conn[current[d]] = "gone"} :
        dead' = [dead EXCEPT ![d] = IF raises THEN Append(@, current[d]) ELSE @]
  BY DEF Drain
<1>3. /\ pc[d] = "drain" /\ pc' = [pc EXCEPT ![d] = "loop"]
      /\ UNCHANGED <<clients, conn, taken, next, current, inbox>>
  BY DEF Drain
<1>4. /\ \A e \in Devices : e # d => dead'[e] = dead[e] /\ pc'[e] = pc[e]
      /\ pc'[d] = "loop"
  BY <1>1, <1>2, <1>3 DEF TypeOK
<1>5. /\ dead' \in [Devices -> Seq(Readers)]
      /\ \A k \in 1..Len(dead'[d]) : conn[dead'[d][k]] = "gone"
  <2>1. current[d] \in Readers /\ dead[d] \in Seq(Readers)
    BY <1>1, <1>3 DEF DrainsAReader, TypeOK
  <2>2. CASE dead' = dead
    BY <1>1, <2>2 DEF DeadAreGone, TypeOK
  <2>3. CASE dead' = [dead EXCEPT ![d] = Append(@, current[d])] /\ conn[current[d]] = "gone"
    <3>1. dead'[d] = Append(dead[d], current[d]) /\ dead' \in [Devices -> Seq(Readers)]
      BY <1>1, <2>1, <2>3, AppendItems DEF TypeOK
    <3> QED
      BY <2>1, <2>3, <3>1, AppendItems DEF DeadAreGone
  <2>4. dead' = dead \/ (dead' = [dead EXCEPT ![d] = Append(@, current[d])] /\ conn[current[d]] = "gone")
    BY <1>1, <1>2 DEF TypeOK
  <2> QED
    BY <2>2, <2>3, <2>4
<1>6. TypeOK'
  BY <1>1, <1>3, <1>5 DEF TypeOK
<1>7. Stamped' /\ DrainsAReader'
  BY <1>3, <1>4 DEF Stamped, DrainsAReader
<1>8. DeadAreGone'
  BY <1>3, <1>4, <1>5 DEF DeadAreGone
<1>9. NewcomersOut' /\ LiveKept'
  BY <1>3 DEF NewcomersOut, LiveKept
<1>10. InboxInv'
  BY <1>3, <1>4 DEF InboxInv, NewcomersUnserved, NotAhead, ServedBehind, InOrderOnce
<1> QED
  BY <1>6, <1>7, <1>8, <1>9, <1>10

(* What a reader gets is new to it: had the loop served it in this round,  *)
(* it would be behind the loop's place and, since nobody is in the list    *)
(* twice, not at it.                                                       *)
LEMMA WriteStep ==
  ASSUME ListInv, InboxInv, NEW d \in Devices, Write(d)
  PROVE  ListInv' /\ InboxInv'
<1> USE DEF InboxInv
<1>1. TypeOK
  BY DEF ListInv
<1> DEFINE w == clients[next[d]]
           entry == [of |-> d, n |-> taken[d]]
<1>2. /\ pc[d] = "loop" /\ next[d] <= Len(clients) /\ current' = [current EXCEPT ![d] = w]
      /\ inbox' = [inbox EXCEPT ![w] = IF conn[w] = "open" THEN Append(@, entry) ELSE @]
      /\ next' = [next EXCEPT ![d] = @ + 1] /\ pc' = [pc EXCEPT ![d] = "drain"]
      /\ UNCHANGED <<clients, conn, taken, dead>>
  BY DEF Write
<1>3. Len(clients) \in Nat /\ next[d] \in 1..Len(clients) /\ w \in Readers
  BY <1>1, <1>2 DEF TypeOK
<1>4. inbox[w] \in Seq([of : Devices, n : 1..MaxEvents])
  BY <1>1, <1>3 DEF TypeOK
<1> HIDE DEF w
<1>5. /\ pc'[d] = "drain" /\ next'[d] = next[d] + 1 /\ current'[d] = w
      /\ \A e \in Devices : e # d => pc'[e] = pc[e] /\ next'[e] = next[e] /\ current'[e] = current[e]
      /\ \A r \in Readers : r # w => inbox'[r] = inbox[r]
  BY <1>1, <1>2, <1>3 DEF TypeOK
<1>6. taken[d] \in Nat /\ taken[d] \in 1..MaxEvents
  BY <1>1, <1>2, TaggerAssumption DEF TypeOK, ListInv, Stamped
<1>7. \A i \in 1..Len(inbox[w]) : conn[w] = "open" /\ inbox[w][i].of = d => inbox[w][i].n < taken[d]
  <2> SUFFICES ASSUME NEW i \in 1..Len(inbox[w]), conn[w] = "open", inbox[w][i].of = d
               PROVE  inbox[w][i].n < taken[d]
    OBVIOUS
  <2>1. inbox[w][i].n \in Nat /\ inbox[w][i].n <= taken[d]
    BY <1>1, <1>3, EntryTypes DEF NotAhead
  <2>2. ASSUME inbox[w][i].n = taken[d]
        PROVE  FALSE
    <3>1. PICK k \in 1..Len(clients) : k < next[d] /\ clients[k] = w
      BY <1>2, <1>3, <2>2 DEF ServedBehind
    <3>2. k = next[d]
      BY <1>3, <3>1 DEF w, ListInv, LiveKept
    <3> QED
      BY <1>3, <3>1, <3>2
  <2> QED
    BY <1>6, <2>1, <2>2
<1>8. /\ conn[w] # "open" => inbox'[w] = inbox[w]
      /\ conn[w] = "open" => inbox'[w] = Append(inbox[w], entry)
  BY <1>1, <1>2, <1>3 DEF TypeOK
<1>9. entry \in [of : Devices, n : 1..MaxEvents] /\ entry.of = d /\ entry.n = taken[d]
  BY <1>6
<1> HIDE DEF entry
<1>10. /\ inbox'[w] \in Seq([of : Devices, n : 1..MaxEvents])
       /\ Len(inbox[w]) \in Nat
       /\ \A i \in 1..Len(inbox[w]) : inbox'[w][i] = inbox[w][i]
       /\ \A i \in 1..Len(inbox'[w]) :
            i \in 1..Len(inbox[w])
              \/ (conn[w] = "open" /\ i = Len(inbox[w]) + 1 /\ inbox'[w][i] = entry)
  <2> DEFINE T == [of : Devices, n : 1..MaxEvents]
           old == inbox[w]
           new == inbox'[w]
  <2>1. old \in Seq(T) /\ entry \in T
    BY <1>4, <1>9
  <2>2. (conn[w] # "open" => new = old) /\ (conn[w] = "open" => new = Append(old, entry))
    BY <1>8
  <2> HIDE DEF T, old, new
  <2>3. CASE conn[w] = "open"
    <3>1. new = Append(old, entry)
      BY <2>2, <2>3
    <3>2. /\ Append(old, entry) \in Seq(T) /\ Len(old) \in Nat
          /\ \A i \in 1..Len(old) : Append(old, entry)[i] = old[i]
          /\ Append(old, entry)[Len(old) + 1] = entry
          /\ \A i \in 1..Len(Append(old, entry)) : i \in 1..Len(old) \/ i = Len(old) + 1
      BY <2>1, AppendItems
    <3> QED
      BY <2>3, <3>1, <3>2 DEF T, old, new
  <2>4. CASE conn[w] # "open"
    <3>1. new = old /\ Len(old) \in Nat
      BY <2>1, <2>2, <2>4
    <3> QED
      BY <2>1, <3>1 DEF T, old, new
  <2> QED
    BY <2>3, <2>4
<1>11. TypeOK'
  <2>1. inbox' \in [Readers -> Seq([of : Devices, n : 1..MaxEvents])]
    BY <1>1, <1>2, <1>3, <1>5, <1>10 DEF TypeOK
  <2>2. next' \in [Devices -> Nat \ {0}]
    BY <1>1, <1>2 DEF TypeOK
  <2>3. current' \in [Devices -> Readers \cup {NoReader}] /\ pc' \in [Devices -> {"idle", "loop", "drain", "stopped", "unplugged"}]
    BY <1>1, <1>2, <1>3 DEF TypeOK
  <2> QED
    BY <1>1, <1>2, <2>1, <2>2, <2>3 DEF TypeOK
<1>12. ListInv'
  BY <1>2, <1>3, <1>5, <1>6, <1>11 DEF ListInv, Stamped, DrainsAReader, DeadAreGone, NewcomersOut, LiveKept
<1>13. NewcomersUnserved'
  <2>1. conn[w] # "none"
    BY <1>3 DEF w, ListInv, NewcomersOut
  <2> QED
    BY <1>2, <1>5, <2>1 DEF NewcomersUnserved
<1>14. NotAhead'
  BY <1>2, <1>5, <1>6, <1>9, <1>10 DEF NotAhead
<1>15. ServedBehind'
  <2> SUFFICES ASSUME NEW e \in Devices, NEW r \in Readers, NEW i \in 1..Len(inbox'[r]),
                      pc'[e] \in {"loop", "drain"}, conn[r] = "open",
                      inbox'[r][i].of = e, inbox'[r][i].n = taken[e]
               PROVE  \E k \in 1..Len(clients) : k < next'[e] /\ clients[k] = r
    BY <1>2 DEF ServedBehind
  <2>1. next[e] \in Nat
    BY <1>1 DEF TypeOK
  <2>2. next'[e] = next[e] \/ next'[e] = next[e] + 1
    BY <1>5
  <2>3. pc[e] \in {"loop", "drain"}
    BY <1>2, <1>5
  <2>4. CASE i \in 1..Len(inbox[r]) /\ inbox'[r][i] = inbox[r][i]
    <3>1. PICK k \in 1..Len(clients) : k < next[e] /\ clients[k] = r
      BY <2>3, <2>4 DEF ServedBehind
    <3> QED
      BY <2>1, <2>2, <3>1
  <2>5. CASE r = w /\ inbox'[r][i] = entry
    <3>1. e = d
      BY <1>9, <2>5
    <3> QED
      BY <1>3, <1>5, <2>1, <2>5, <3>1 DEF w
  <2> QED
    BY <1>5, <1>10, <2>4, <2>5
<1>16. InOrderOnce'
  <2> SUFFICES ASSUME NEW r \in Readers, NEW i \in 1..Len(inbox'[r]), NEW j \in 1..Len(inbox'[r]),
                      i < j, inbox'[r][i].of = inbox'[r][j].of
               PROVE  inbox'[r][i].n < inbox'[r][j].n
    BY DEF InOrderOnce
  <2>1. CASE r # w
    BY <1>5, <2>1 DEF InOrderOnce
  <2>2. CASE r = w /\ j \in 1..Len(inbox[w])
    <3>1. i \in 1..Len(inbox[w])
      BY <1>10, <2>2
    <3> QED
      BY <1>3, <1>10, <2>2, <3>1 DEF InOrderOnce
  <2>3. CASE r = w /\ conn[w] = "open" /\ j = Len(inbox[w]) + 1 /\ inbox'[w][j] = entry
    <3>1. i \in 1..Len(inbox[w])
      BY <1>10, <2>3
    <3> QED
      BY <1>7, <1>9, <1>10, <2>3, <3>1
  <2> QED
    BY <1>10, <2>1, <2>2, <2>3
<1> QED
  BY <1>12, <1>13, <1>14, <1>15, <1>16

(* Who is removed is gone, and who stays moves only forward in the list:   *)
(* behind the place of a loop that has passed him.                         *)
LEMMA ReapStep ==
  ASSUME ListInv, InboxInv, NEW d \in Devices, Reap(d)
  PROVE  ListInv' /\ InboxInv'
<1> USE DEF ListInv
<1>1. TypeOK
  OBVIOUS
<1> DEFINE missing == {k \in 1..Len(dead[d]) : dead[d][k] \notin ToSet(clients)}
           removed == {dead[d][k] : k \in {k \in 1..Len(dead[d]) : \A m \in missing : k < m}}
           kept == {k \in 1..Len(clients) : clients[k] \notin removed}
<1>2. /\ clients' = AtPlaces(clients, kept)
      /\ pc' = [pc EXCEPT ![d] = IF missing = {} THEN "idle" ELSE "stopped"]
      /\ UNCHANGED <<conn, taken, next, current, dead, inbox>>
  BY DEF Reap
<1>3. \A r \in removed : conn[r] = "gone"
  BY DEF DeadAreGone
<1>4. kept \in SUBSET (1..Len(clients)) /\ \A k \in 1..Len(clients) : conn[clients[k]] = "open" => k \in kept
  BY <1>3
<1> HIDE DEF missing, removed, kept
<1>5. clients \in Seq(Readers)
  BY <1>1 DEF TypeOK
<1>6. /\ clients' \in Seq(Readers)
      /\ \A i \in kept : \E k \in 1..Len(clients') : k <= i /\ clients'[k] = clients[i]
      /\ \A k \in 1..Len(clients') : \E i \in kept : clients'[k] = clients[i]
      /\ \A k, m \in 1..Len(clients') : clients'[k] = clients'[m] => k = m
  <2>1. \A i, j \in 1..Len(clients) : clients[i] = clients[j] => i = j
    BY DEF LiveKept
  <2> DEFINE t == AtPlaces(clients, kept)
  <2>2. /\ t \in Seq(Readers)
        /\ \A i \in kept : \E k \in 1..Len(t) : k <= i /\ t[k] = clients[i]
        /\ \A k \in 1..Len(t) : \E i \in kept : t[k] = clients[i]
    BY <1>4, <1>5, AtPlacesKeep
  <2>3. \A k, m \in 1..Len(t) : t[k] = t[m] => k = m
    BY <1>4, <1>5, <2>1, AtPlacesKeep
  <2> QED
    BY <1>2, <2>1, <2>2, <2>3
<1>7. \A e \in Devices : pc'[e] \in {"loop", "drain"} => pc[e] = pc'[e]
  BY <1>1, <1>2 DEF TypeOK
<1>8. TypeOK'
  BY <1>1, <1>2, <1>6 DEF TypeOK
<1>9. Stamped' /\ DrainsAReader' /\ DeadAreGone'
  BY <1>2, <1>7 DEF Stamped, DrainsAReader, DeadAreGone
<1>10. NewcomersOut'
  BY <1>2, <1>4, <1>6 DEF NewcomersOut
<1>11. LiveKept'
  <2>1. ASSUME NEW r \in Readers, conn[r] = "open"
        PROVE  r \in ToSet(clients')
    <3>1. PICK i \in 1..Len(clients) : clients[i] = r
      BY <1>5, <2>1, InToSet DEF LiveKept
    <3>2. PICK k \in 1..Len(clients') : clients'[k] = r
      BY <1>4, <1>6, <2>1, <3>1
    <3> QED
      BY <1>6, <3>2, InToSet
  <2> QED
    BY <1>2, <1>6, <2>1 DEF LiveKept
<1>12. NewcomersUnserved' /\ NotAhead' /\ InOrderOnce'
  BY <1>2 DEF InboxInv, NewcomersUnserved, NotAhead, InOrderOnce
<1>13. ServedBehind'
  <2> SUFFICES ASSUME NEW e \in Devices, NEW r \in Readers, NEW i \in 1..Len(inbox[r]),
                      pc'[e] \in {"loop", "drain"}, conn[r] = "open",
                      inbox[r][i].of = e, inbox[r][i].n = taken[e]
               PROVE  \E k \in 1..Len(clients') : k < next[e] /\ clients'[k] = r
    BY <1>2 DEF ServedBehind
  <2>1. PICK k \in 1..Len(clients) : k < next[e] /\ clients[k] = r
    BY <1>7 DEF InboxInv, ServedBehind
  <2>2. PICK m \in 1..Len(clients') : m <= k /\ clients'[m] = r
    BY <1>4, <1>6, <2>1
  <2>3. next[e] \in Nat
    BY <1>1 DEF TypeOK
  <2>4. k \in Int /\ m \in Int
    BY <1>5, <1>6
  <2> QED
    BY <2>1, <2>2, <2>3, <2>4
<1> QED
  BY <1>8, <1>9, <1>10, <1>11, <1>12, <1>13 DEF InboxInv

-----------------------------------------------------------------------------

LEMMA TaggerInvariant == Spec => [](ListInv /\ InboxInv)
<1>1. ASSUME ListInv /\ InboxInv, [Next]_vars
      PROVE  ListInv' /\ InboxInv'
  <2>1. ASSUME NEW r \in Readers, Accept(r) \/ Hangup(r)
        PROVE  ListInv' /\ InboxInv'
    BY <1>1, <2>1, AcceptList, AcceptInbox, HangupStep
  <2>2. ASSUME NEW d \in Devices, Watch(d)
        PROVE  ListInv' /\ InboxInv'
    BY <1>1, <2>2, EventStep, UnplugStep, WriteStep, DrainStep, ReapStep, Zenon DEF Watch
  <2>3. CASE UNCHANGED vars
    <3>1. TypeOK'
      BY <1>1, <2>3 DEF vars, ListInv, TypeOK
    <3>2. ListInv'
      BY <1>1, <2>3, <3>1, SameList DEF vars
    <3>3. InboxInv'
      BY <1>1, <2>3 DEF vars, InboxInv, NewcomersUnserved, NotAhead, ServedBehind, InOrderOnce
    <3> QED
      BY <3>2, <3>3
  <2> QED
    BY <1>1, <2>1, <2>2, <2>3 DEF Next
<1> QED
  BY <1>1, InitInv, PTL DEF Spec

(* For any number of devices and readers, a reader gets each device's      *)
(* events in order and none twice.                                         *)
THEOREM EventsInOrder == Spec => []InOrderOnce
<1>1. ListInv /\ InboxInv => InOrderOnce
  BY DEF InboxInv
<1> QED
  BY <1>1, TaggerInvariant, PTL

(* No clean-up, of any task, removes a reader that is still there.         *)
THEOREM ReadersKept == Spec => []LiveKept
<1>1. ListInv /\ InboxInv => LiveKept
  BY DEF ListInv
<1> QED
  BY <1>1, TaggerInvariant, PTL

(* The tagger's types.                                                     *)
THEOREM TaggerTypes == Spec => []TypeOK
<1>1. ListInv /\ InboxInv => TypeOK
  BY DEF ListInv
<1> QED
  BY <1>1, TaggerInvariant, PTL

-----------------------------------------------------------------------------
(* Giving readers up. *)

Listed(r) == \E m \in 1..Len(clients) : clients[m] = r

(* Wherever in the list a reader is that a loop has passed, by writing to  *)
(* it or by giving it up, it is behind the loop's place.                   *)
Passed(d, r) == \A m \in 1..Len(clients) : clients[m] = r => m < next[d]

PassedBehind ==
  \A d \in Devices :
    /\ pc[d] \in {"loop", "drain"} => \A k \in 1..Len(dead[d]) : Passed(d, dead[d][k])
    /\ pc[d] = "drain" => /\ Passed(d, current[d])
                          /\ conn[current[d]] # "none"
                          /\ \A k \in 1..Len(dead[d]) : dead[d][k] # current[d]

(* A loop gives up no reader twice.                                        *)
GivenUpOnce ==
  \A d \in Devices : \A i, j \in 1..Len(dead[d]) : dead[d][i] = dead[d][j] => i = j

GivingUp == PassedBehind /\ GivenUpOnce

LEMMA AcceptGivesUp ==
  ASSUME ListInv, GivingUp, NEW r \in Readers, Accept(r)
  PROVE  GivingUp'
<1>1. TypeOK
  BY DEF ListInv
<1>2. /\ Len(clients) \in Nat /\ Len(clients') = Len(clients) + 1
      /\ \A i \in 1..Len(clients) : clients'[i] = clients[i]
      /\ clients'[Len(clients) + 1] = r
      /\ \A i \in 1..Len(clients') : i \in 1..Len(clients) \/ i = Len(clients) + 1
  BY <1>1, AppendItems DEF TypeOK, Accept
<1>3. /\ conn[r] = "none" /\ conn' = [conn EXCEPT ![r] = "open"]
      /\ UNCHANGED <<pc, taken, next, current, dead, inbox>>
  BY DEF Accept
<1>4. ASSUME NEW d \in Devices, NEW q, Passed(d, q), q # r
      PROVE  Passed(d, q)'
  BY <1>2, <1>3, <1>4 DEF Passed
<1>5. \A d \in Devices : \A k \in 1..Len(dead[d]) : dead[d][k] # r
  BY <1>3 DEF ListInv, DeadAreGone
<1>6. \A d \in Devices : pc[d] = "drain" => current[d] # r /\ current[d] \in Readers
  BY <1>3 DEF GivingUp, PassedBehind, ListInv, DrainsAReader
<1>7. \A d \in Devices : pc[d] \in {"loop", "drain"} => \A k \in 1..Len(dead[d]) : Passed(d, dead[d][k])'
  BY <1>3, <1>4, <1>5 DEF GivingUp, PassedBehind
<1>8. \A d \in Devices : pc[d] = "drain" => Passed(d, current[d])' /\ conn'[current[d]] # "none"
  BY <1>1, <1>3, <1>4, <1>6 DEF GivingUp, PassedBehind, TypeOK
<1>9. PassedBehind'
  BY <1>3, <1>7, <1>8 DEF GivingUp, PassedBehind
<1> QED
  BY <1>3, <1>9 DEF GivingUp, GivenUpOnce

LEMMA WriteGivesUp ==
  ASSUME ListInv, GivingUp, NEW d \in Devices, Write(d)
  PROVE  GivingUp'
<1>1. TypeOK
  BY DEF ListInv
<1>0. PICK w : w = clients[next[d]]
  OBVIOUS
<1>2. /\ pc[d] = "loop" /\ next[d] <= Len(clients) /\ current' = [current EXCEPT ![d] = w]
      /\ next' = [next EXCEPT ![d] = @ + 1] /\ pc' = [pc EXCEPT ![d] = "drain"]
      /\ UNCHANGED <<clients, conn, taken, dead>>
  BY <1>0 DEF Write
<1>3. Len(clients) \in Nat /\ next[d] \in 1..Len(clients)
  BY <1>1, <1>2 DEF TypeOK
<1>4. \A m \in 1..Len(clients) : clients[m] = w => m = next[d]
  BY <1>0, <1>3 DEF ListInv, LiveKept
<1>5. conn[w] # "none"
  BY <1>0, <1>3 DEF ListInv, NewcomersOut
<1>6. \A k \in 1..Len(dead[d]) : dead[d][k] # w
  BY <1>0, <1>2, <1>3 DEF GivingUp, PassedBehind, Passed
<1>7. /\ pc'[d] = "drain" /\ next'[d] = next[d] + 1 /\ current'[d] = w
      /\ \A e \in Devices : e # d => pc'[e] = pc[e] /\ next'[e] = next[e] /\ current'[e] = current[e]
  BY <1>1, <1>2 DEF TypeOK
<1>8. ASSUME NEW e \in Devices, NEW q, Passed(e, q)
      PROVE  Passed(e, q)'
  <2>1. next[e] \in Nat /\ (next'[e] = next[e] \/ next'[e] = next[e] + 1)
    BY <1>1, <1>7 DEF TypeOK
  <2> QED
    BY <1>2, <1>3, <1>8, <2>1 DEF Passed
<1>9. Passed(d, w)'
  BY <1>2, <1>3, <1>4, <1>7 DEF Passed
<1>10. \A e \in Devices : pc'[e] \in {"loop", "drain"} => \A k \in 1..Len(dead[e]) : Passed(e, dead[e][k])'
  BY <1>2, <1>7, <1>8 DEF GivingUp, PassedBehind
<1>11. ASSUME NEW e \in Devices, pc'[e] = "drain"
       PROVE  /\ Passed(e, current[e])' /\ conn[current'[e]] # "none"
              /\ \A k \in 1..Len(dead[e]) : dead[e][k] # current'[e]
  <2>1. CASE e = d
    <3>1. current'[e] = w
      BY <1>7, <2>1
    <3> QED
      BY <1>5, <1>6, <1>9, <2>1, <3>1
  <2>2. CASE e # d
    <3>1. current'[e] = current[e] /\ pc[e] = "drain"
      BY <1>7, <1>11, <2>2
    <3> QED
      BY <1>8, <3>1 DEF GivingUp, PassedBehind
  <2> QED
    BY <2>1, <2>2
<1>12. PassedBehind'
  BY <1>2, <1>10, <1>11 DEF PassedBehind
<1> QED
  BY <1>2, <1>12 DEF GivingUp, GivenUpOnce

LEMMA DrainGivesUp ==
  ASSUME ListInv, GivingUp, NEW d \in Devices, Drain(d)
  PROVE  GivingUp'
<1>1. TypeOK
  BY DEF ListInv
<1>2. PICK raises \in {FALSE, conn[current[d]] = "gone"} :
        dead' = [dead EXCEPT ![d] = IF raises THEN Append(@, current[d]) ELSE @]
  BY DEF Drain
<1>3. /\ pc[d] = "drain" /\ pc' = [pc EXCEPT ![d] = "loop"]
      /\ UNCHANGED <<clients, conn, taken, next, current, inbox>>
  BY DEF Drain
<1>4. /\ \A e \in Devices : e # d => dead'[e] = dead[e] /\ pc'[e] = pc[e]
      /\ pc'[d] = "loop"
  BY <1>1, <1>2, <1>3 DEF TypeOK
<1>5. /\ Passed(d, current[d])
      /\ \A k \in 1..Len(dead[d]) : Passed(d, dead[d][k]) /\ dead[d][k] # current[d]
  BY <1>3 DEF GivingUp, PassedBehind
<1>6. \A e \in Devices : \A q : Passed(e, q) => Passed(e, q)'
  BY <1>3 DEF Passed
<1>7. /\ \A k \in 1..Len(dead'[d]) : Passed(d, dead'[d][k])
      /\ \A i, j \in 1..Len(dead'[d]) : dead'[d][i] = dead'[d][j] => i = j
  <2>1. current[d] \in Readers /\ dead[d] \in Seq(Readers)
    BY <1>1, <1>3 DEF ListInv, DrainsAReader, TypeOK
  <2>2. CASE dead' = dead
    BY <1>5, <2>2 DEF GivingUp, GivenUpOnce
  <2>3. CASE dead'[d] = Append(dead[d], current[d])
    <3>1. /\ Len(dead[d]) \in Nat /\ Len(dead'[d]) = Len(dead[d]) + 1
          /\ \A i \in 1..Len(dead[d]) : dead'[d][i] = dead[d][i]
          /\ dead'[d][Len(dead[d]) + 1] = current[d]
          /\ \A i \in 1..Len(dead'[d]) : i \in 1..Len(dead[d]) \/ i = Len(dead[d]) + 1
      BY <2>1, <2>3, AppendItems
    <3> QED
      BY <1>5, <3>1 DEF GivingUp, GivenUpOnce
  <2>4. dead' = dead \/ dead'[d] = Append(dead[d], current[d])
    BY <1>1, <1>2 DEF TypeOK
  <2> QED
    BY <2>2, <2>3, <2>4
<1>8. PassedBehind'
  BY <1>3, <1>4, <1>6, <1>7 DEF GivingUp, PassedBehind
<1>9. GivenUpOnce'
  BY <1>4, <1>7 DEF GivingUp, GivenUpOnce
<1> QED
  BY <1>8, <1>9 DEF GivingUp

LEMMA ReapGivesUp ==
  ASSUME ListInv, GivingUp, NEW d \in Devices, Reap(d)
  PROVE  GivingUp'
<1>1. TypeOK
  BY DEF ListInv
<1> DEFINE missing == {k \in 1..Len(dead[d]) : dead[d][k] \notin ToSet(clients)}
           removed == {dead[d][k] : k \in {k \in 1..Len(dead[d]) : \A m \in missing : k < m}}
           kept == {k \in 1..Len(clients) : clients[k] \notin removed}
           t == AtPlaces(clients, kept)
<1>2. /\ clients' = t
      /\ pc' = [pc EXCEPT ![d] = IF missing = {} THEN "idle" ELSE "stopped"]
      /\ UNCHANGED <<conn, taken, next, current, dead, inbox>>
  BY DEF Reap
<1>3. kept \in SUBSET (1..Len(clients))
  OBVIOUS
<1> HIDE DEF missing, removed, kept
<1>4. /\ clients \in Seq(Readers) /\ t \in Seq(Readers)
      /\ \A i \in kept : \E k \in 1..Len(t) : k <= i /\ t[k] = clients[i]
      /\ \A k \in 1..Len(t) : \E i \in kept : t[k] = clients[i]
  BY <1>1, <1>3, AtPlacesKeep DEF TypeOK
<1>5. \A k, m \in 1..Len(t) : t[k] = t[m] => k = m
  BY <1>1, <1>3, <1>4, AtPlacesKeep DEF ListInv, LiveKept
<1> HIDE DEF t
<1>6. \A e \in Devices : pc'[e] \in {"loop", "drain"} => pc[e] = pc'[e]
  BY <1>1, <1>2 DEF TypeOK
<1>7. ASSUME NEW e \in Devices, NEW q, Passed(e, q)
      PROVE  Passed(e, q)'
  <2> SUFFICES ASSUME NEW m \in 1..Len(t), t[m] = q
               PROVE  m < next[e]
    BY <1>2 DEF Passed
  <2>1. PICK i \in kept : t[m] = clients[i]
    BY <1>4
  <2>2. PICK k \in 1..Len(t) : k <= i /\ t[k] = clients[i]
    BY <1>4
  <2>3. k = m
    BY <1>5, <2>1, <2>2
  <2>4. i \in 1..Len(clients) /\ i < next[e]
    BY <1>3, <1>7, <2>1 DEF Passed
  <2>5. i \in Int /\ m \in Int /\ next[e] \in Int
    BY <1>1, <1>4, <2>4 DEF TypeOK
  <2> QED
    BY <2>2, <2>3, <2>4, <2>5
<1>8. PassedBehind'
  BY <1>2, <1>6, <1>7 DEF GivingUp, PassedBehind
<1> QED
  BY <1>2, <1>8 DEF GivingUp, GivenUpOnce

LEMMA OthersGiveUp ==
  ASSUME ListInv, GivingUp,
         \/ \E r \in Readers : Hangup(r)
         \/ \E d \in Devices : Event(d) \/ Unplug(d)
         \/ UNCHANGED vars
  PROVE  GivingUp'
<1>1. TypeOK
  BY DEF ListInv
<1>2. ASSUME NEW r \in Readers, Hangup(r)
      PROVE  GivingUp'
  <2>1. /\ UNCHANGED <<clients, pc, taken, next, current, dead, inbox>>
        /\ \A q \in Readers : conn'[q] = "none" => conn[q] = "none"
    BY <1>1, <1>2 DEF Hangup, TypeOK
  <2>2. \A d \in Devices : \A q : Passed(d, q)' <=> Passed(d, q)
    BY <2>1 DEF Passed
  <2> QED
    BY <2>1, <2>2 DEF GivingUp, PassedBehind, GivenUpOnce, ListInv, DrainsAReader
<1>3. ASSUME NEW d \in Devices, Event(d)
      PROVE  GivingUp'
  <2>1. /\ UNCHANGED <<clients, conn, current>>
        /\ pc'[d] = "loop" /\ dead'[d] = << >>
        /\ \A e \in Devices : e # d => pc'[e] = pc[e] /\ next'[e] = next[e] /\ dead'[e] = dead[e]
    BY <1>1, <1>3 DEF Event, TypeOK
  <2>2. \A e \in Devices : \A q : e # d => (Passed(e, q)' <=> Passed(e, q))
    BY <2>1 DEF Passed
  <2>3. Len(<< >>) = 0
    OBVIOUS
  <2> QED
    BY <2>1, <2>2, <2>3 DEF GivingUp, PassedBehind, GivenUpOnce
<1>4. ASSUME NEW d \in Devices, Unplug(d)
      PROVE  GivingUp'
  <2>1. /\ UNCHANGED <<clients, conn, next, current, dead>>
        /\ \A e \in Devices : pc'[e] \in {"loop", "drain"} => pc[e] = pc'[e]
    BY <1>1, <1>4 DEF Unplug, TypeOK
  <2>2. \A e \in Devices : \A q : Passed(e, q)' <=> Passed(e, q)
    BY <2>1 DEF Passed
  <2> QED
    BY <2>1, <2>2 DEF GivingUp, PassedBehind, GivenUpOnce
<1>5. ASSUME UNCHANGED vars
      PROVE  GivingUp'
  BY <1>5 DEF vars, GivingUp, PassedBehind, Passed, GivenUpOnce
<1> QED
  BY <1>2, <1>3, <1>4, <1>5

(* No loop gives a reader up twice, so that remove() can fail only because *)
(* another task was faster: all that Reap() looks at.                      *)
THEOREM NoneGivenUpTwice == Spec => []GivenUpOnce
<1>1. Init => GivingUp
  BY DEF Init, GivingUp, PassedBehind, GivenUpOnce
<1>2. ListInv /\ GivingUp /\ [Next]_vars => GivingUp'
  BY AcceptGivesUp, WriteGivesUp, DrainGivesUp, ReapGivesUp, OthersGiveUp, Zenon DEF Next, Watch
<1>3. GivingUp => GivenUpOnce
  BY DEF GivingUp
<1> QED
  BY <1>1, <1>2, <1>3, TaggerInvariant, PTL DEF Spec

(* All that a loop has given up or is writing to is still in the list.     *)
LoopListed ==
  \A d \in Devices :
    /\ pc[d] \in {"loop", "drain"} => \A k \in 1..Len(dead[d]) : Listed(dead[d][k])
    /\ pc[d] = "drain" => Listed(current[d])

(* With one device no task ends while its device is there, as the document *)
(* has it: what ends one is another device's task, never the readers.      *)
THEOREM AloneGoesOn ==
  ASSUME \A d, e \in Devices : d = e
  PROVE  Spec => []NoWatcherStops
<1>1. Init => LoopListed /\ NoWatcherStops
  BY DEF Init, LoopListed, NoWatcherStops
<1>2. ASSUME ListInv, LoopListed, NoWatcherStops, [Next]_vars
      PROVE  LoopListed' /\ NoWatcherStops'
  <2>1. TypeOK
    BY <1>2 DEF ListInv
  <2>2. ASSUME NEW r \in Readers, Accept(r)
        PROVE  LoopListed' /\ NoWatcherStops'
    <3>1. /\ Len(clients) \in Nat /\ Len(clients') = Len(clients) + 1
          /\ \A i \in 1..Len(clients) : clients'[i] = clients[i]
      BY <2>1, <2>2, AppendItems DEF TypeOK, Accept
    <3>2. \A q : Listed(q) => Listed(q)'
      BY <3>1 DEF Listed
    <3>3. UNCHANGED <<pc, current, dead>>
      BY <2>2 DEF Accept
    <3> QED
      BY <1>2, <3>2, <3>3 DEF LoopListed, NoWatcherStops
  <2>3. ASSUME NEW r \in Readers, Hangup(r)
        PROVE  LoopListed' /\ NoWatcherStops'
    BY <1>2, <2>3 DEF Hangup, LoopListed, Listed, NoWatcherStops
  <2>4. ASSUME NEW d \in Devices, Event(d) \/ Unplug(d)
        PROVE  LoopListed' /\ NoWatcherStops'
    <3>1. Len(<< >>) = 0
      OBVIOUS
    <3>2. /\ UNCHANGED <<clients, current>>
          /\ \A e \in Devices : pc'[e] \in {"loop", "unplugged"}
          /\ \A e \in Devices : pc'[e] = "loop" => dead'[e] = << >>
      BY <2>1, <2>4 DEF Event, Unplug, TypeOK
    <3> QED
      BY <3>1, <3>2 DEF LoopListed, NoWatcherStops
  <2>5. ASSUME NEW d \in Devices, Write(d)
        PROVE  LoopListed' /\ NoWatcherStops'
    <3>1. /\ UNCHANGED <<clients, dead>> /\ pc[d] = "loop"
          /\ current'[d] = clients[next[d]] /\ next[d] \in 1..Len(clients)
          /\ \A e \in Devices : pc'[e] = "drain"
      BY <2>1, <2>5 DEF Write, TypeOK
    <3>2. \A q : Listed(q) => Listed(q)'
      BY <3>1 DEF Listed
    <3>3. Listed(current[d])'
      BY <3>1 DEF Listed
    <3> QED
      BY <1>2, <3>1, <3>2, <3>3 DEF LoopListed, NoWatcherStops
  <2>6. ASSUME NEW d \in Devices, Drain(d)
        PROVE  LoopListed' /\ NoWatcherStops'
    <3>1. /\ UNCHANGED <<clients, current>> /\ pc[d] = "drain"
          /\ \A e \in Devices : pc'[e] = "loop"
          /\ dead'[d] = dead[d] \/ dead'[d] = Append(dead[d], current[d])
      BY <2>1, <2>6 DEF Drain, TypeOK
    <3>2. \A q : Listed(q) => Listed(q)'
      BY <3>1 DEF Listed
    <3>3. current[d] \in Readers /\ dead[d] \in Seq(Readers)
      BY <1>2, <2>1, <3>1 DEF ListInv, DrainsAReader, TypeOK
    <3>4. \A k \in 1..Len(dead'[d]) : dead'[d][k] = current[d] \/ \E m \in 1..Len(dead[d]) : dead'[d][k] = dead[d][m]
      <4>1. CASE dead'[d] = dead[d]
        BY <4>1
      <4>2. CASE dead'[d] = Append(dead[d], current[d])
        BY <3>3, <4>2, AppendItems
      <4> QED
        BY <3>1, <4>1, <4>2
    <3>5. \A k \in 1..Len(dead'[d]) : Listed(dead[d][k])'
      BY <1>2, <3>1, <3>2, <3>4 DEF LoopListed
    <3> QED
      BY <3>1, <3>5 DEF LoopListed, NoWatcherStops
  <2>7. ASSUME NEW d \in Devices, Reap(d)
        PROVE  LoopListed' /\ NoWatcherStops'
    <3> DEFINE missing == {k \in 1..Len(dead[d]) : dead[d][k] \notin ToSet(clients)}
    <3>1. pc[d] = "loop" /\ pc' = [pc EXCEPT ![d] = IF missing = {} THEN "idle" ELSE "stopped"]
      BY <2>7 DEF Reap
    <3>2. missing = {}
      BY <1>2, <2>1, <3>1, InToSet DEF LoopListed, Listed, TypeOK
    <3> HIDE DEF missing
    <3>3. \A e \in Devices : pc'[e] = "idle"
      BY <2>1, <3>1, <3>2 DEF TypeOK
    <3> QED
      BY <3>3 DEF LoopListed, NoWatcherStops
  <2>8. CASE UNCHANGED vars
    BY <1>2, <2>8 DEF vars, LoopListed, Listed, NoWatcherStops
  <2> QED
    BY <1>2, <2>2, <2>3, <2>4, <2>5, <2>6, <2>7, <2>8 DEF Next, Watch
<1> QED
  BY <1>1, <1>2, TaggerInvariant, PTL DEF Spec
=============================================================================
