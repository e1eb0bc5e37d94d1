-------------------------- MODULE DelayQueueProofs --------------------------
(***************************************************************************)
(* Proofs about the delay queue, for any torrents, events, delays and      *)
(* order of calls.                                                         *)
(*                                                                         *)
(* Both theorems rest on two facts that no single call establishes: the    *)
(* deque holds one entry per torrent and is sorted by (release_at, seq).   *)
(* The tie-break number is not unique, so "sorted" says only that no entry *)
(* stands behind one it should precede; that is enough for both.           *)
(***************************************************************************)
EXTENDS DelayQueue, TLAPS, WellFoundedInduction, FiniteSetTheorems

\* The least number of a set, which the library states of predicates only.
LEMMA LeastNumber ==
    ASSUME NEW S \in SUBSET Nat, S # {}
    PROVE  \E n \in S : \A m \in S : n <= m
<1>1. OpToRel(<, Nat) = {pair \in Nat \X Nat : pair[1] < pair[2]}
  BY DEF OpToRel
<1>2. PICK n \in S : \A m \in S : <<m, n>> \notin OpToRel(<, Nat)
  BY NatLessThanWellFounded, WFMin
<1>3. ASSUME NEW m \in S PROVE n <= m
  <2>1. <<m, n>> \notin {pair \in Nat \X Nat : pair[1] < pair[2]}
    BY <1>1, <1>2
  <2> QED
    BY <2>1
<1> QED
  BY <1>3

\* At most one entry per torrent.
Single(s) == \A i, j \in DOMAIN s : s[i].torrent = s[j].torrent => i = j

\* No entry stands behind one it should precede.
Sorted(s) == \A i, j \in DOMAIN s : i < j => ~After(s[i], s[j])

QueueInv(s) == s \in Seq(Entry) /\ Single(s) /\ Sorted(s)

IInv == QueueInv(items) /\ now \in Nat
-----------------------------------------------------------------------------
(* What the sequence operations of the queue return.                       *)

\* The entries of the others, and the positions they had: what retain keeps.
Kept(h) == {i \in DOMAIN items : items[i].torrent # h}

Enumerates(f, S) ==
    /\ \A i, j \in DOMAIN f : i < j => f[i] < f[j]
    /\ \A k \in S : \E i \in DOMAIN f : f[i] = k

\* The positions to keep can be enumerated: all of them, or all but one.
LEMMA KeptIsEnumerable ==
    ASSUME IInv, NEW h \in Torrent
    PROVE  /\ Cardinality(Kept(h)) \in Nat
           /\ \E f \in [1..Cardinality(Kept(h)) -> Kept(h)] : Enumerates(f, Kept(h))
<1>1. DOMAIN items = 1..Len(items) /\ Len(items) \in Nat
  BY DEF IInv, QueueInv
<1>2. IsFiniteSet(1..Len(items)) /\ Cardinality(1..Len(items)) = Len(items)
  <2>1. 1 \in Int /\ Len(items) \in Int
    BY <1>1
  <2>2. /\ IsFiniteSet(1..Len(items))
        /\ Cardinality(1..Len(items)) =
             IF 1 > Len(items) THEN 0 ELSE Len(items) - 1 + 1
    BY <2>1, FS_Interval
  <2> QED
    BY <1>1, <2>2
<1>3. CASE Kept(h) = 1..Len(items)
  <2> DEFINE id == [i \in 1..Len(items) |-> i]
  <2>1. id \in [1..Len(items) -> Kept(h)] /\ Enumerates(id, Kept(h))
    BY <1>1, <1>3 DEF Enumerates
  <2> QED
    BY <1>1, <1>2, <1>3, <2>1
<1>4. CASE \E p \in 1..Len(items) : Kept(h) = (1..Len(items)) \ {p}
  <2>1. PICK p \in 1..Len(items) : Kept(h) = (1..Len(items)) \ {p}
    BY <1>4
  <2>2. Cardinality(Kept(h)) = Len(items) - 1
    BY <1>2, <2>1, FS_RemoveElement
  <2> DEFINE skip == [i \in 1..(Len(items) - 1) |-> IF i < p THEN i ELSE i + 1]
  <2>3. skip \in [1..(Len(items) - 1) -> Kept(h)]
    BY <1>1, <2>1
  <2>4. \A i, j \in DOMAIN skip : i < j => skip[i] < skip[j]
    BY <1>1, <2>1
  <2>5. ASSUME NEW k \in Kept(h) PROVE \E i \in DOMAIN skip : skip[i] = k
    <3>1. CASE k < p
      <4>1. k \in DOMAIN skip /\ skip[k] = k
        BY <1>1, <2>1, <3>1
      <4> QED
        BY <4>1
    <3>2. CASE k > p
      <4>1. k - 1 \in DOMAIN skip /\ skip[k - 1] = k
        BY <1>1, <2>1, <3>2
      <4> QED
        BY <4>1
    <3> QED
      BY <1>1, <2>1, <3>1, <3>2
  <2>6. Enumerates(skip, Kept(h))
    BY <2>4, <2>5 DEF Enumerates
  <2>7. Len(items) - 1 \in Nat
    BY <1>1, <2>1
  <2> HIDE DEF skip
  <2> QED
    BY <2>2, <2>3, <2>6, <2>7
<1>5. \/ Kept(h) = 1..Len(items)
      \/ \E p \in 1..Len(items) : Kept(h) = (1..Len(items)) \ {p}
  <2>1. CASE \E p \in 1..Len(items) : items[p].torrent = h
    <3>1. PICK p \in 1..Len(items) : items[p].torrent = h
      BY <2>1
    <3>2. \A i \in 1..Len(items) : items[i].torrent = h => i = p
      BY <1>1, <3>1 DEF IInv, QueueInv, Single
    <3> QED
      BY <1>1, <3>1, <3>2 DEF Kept
  <2>2. CASE \A p \in 1..Len(items) : items[p].torrent # h
    BY <1>1, <2>2 DEF Kept
  <2> QED
    BY <2>1, <2>2
<1> QED
  BY <1>3, <1>4, <1>5

\* What retain leaves: the entries of the others, each one still there, in order.
LEMMA RetainedEntries ==
    ASSUME IInv, NEW h \in Torrent
    PROVE  /\ QueueInv(Retained(h))
           /\ \A i \in DOMAIN Retained(h) :
                 /\ Retained(h)[i].torrent # h
                 /\ \E k \in DOMAIN items : Retained(h)[i] = items[k]
           /\ \A k \in DOMAIN items : items[k].torrent # h =>
                 \E i \in DOMAIN Retained(h) : Retained(h)[i] = items[k]
<1> DEFINE n == Cardinality(Kept(h))
           was == CHOOSE f \in [1..n -> Kept(h)] : Enumerates(f, Kept(h))
<1>1. n \in Nat /\ was \in [1..n -> Kept(h)] /\ Enumerates(was, Kept(h))
  BY KeptIsEnumerable
<1>2. Retained(h) = [i \in 1..n |-> items[was[i]]]
  BY DEF Retained, Kept, Enumerates
<1> HIDE DEF n, was
<1>3. Kept(h) \subseteq DOMAIN items /\ items \in Seq(Entry)
  BY DEF Kept, IInv, QueueInv
<1>4. Retained(h) \in Seq(Entry) /\ DOMAIN Retained(h) = 1..n
  BY <1>1, <1>2, <1>3
<1>5. ASSUME NEW i \in 1..n
      PROVE  was[i] \in DOMAIN items /\ Retained(h)[i] = items[was[i]]
                /\ items[was[i]].torrent # h
  BY <1>1, <1>2 DEF Kept
<1>6. ASSUME NEW k \in DOMAIN items, items[k].torrent # h
      PROVE  \E i \in 1..n : Retained(h)[i] = items[k]
  BY <1>1, <1>5, <1>6 DEF Kept, Enumerates
<1>7. ASSUME NEW i \in 1..n, NEW j \in 1..n
      PROVE  /\ Retained(h)[i].torrent = Retained(h)[j].torrent => i = j
             /\ i < j => ~After(Retained(h)[i], Retained(h)[j])
  <2>1. i < j => was[i] < was[j]
    BY <1>1 DEF Enumerates
  <2>2. j < i => was[j] < was[i]
    BY <1>1 DEF Enumerates
  <2>3. was[i] = was[j] => i = j
    BY <1>1, <1>3, <2>1, <2>2
  <2> QED
    BY <1>5, <2>1, <2>3 DEF IInv, QueueInv, Single, Sorted
<1> QED
  BY <1>4, <1>5, <1>6, <1>7 DEF QueueInv, Single, Sorted

\* The place of a new entry: behind all it must not precede, and in front of
\* all it must.
LEMMA InsertedEntries ==
    ASSUME NEW s, QueueInv(s), NEW new \in Entry,
           \A i \in DOMAIN s : s[i].torrent # new.torrent
    PROVE  /\ QueueInv(Inserted(s, new))
           /\ \A k \in DOMAIN Inserted(s, new) :
                 \/ Inserted(s, new)[k] = new
                 \/ \E i \in DOMAIN s : Inserted(s, new)[k] = s[i]
           /\ \E k \in DOMAIN Inserted(s, new) : Inserted(s, new)[k] = new
           /\ \A i \in DOMAIN s :
                 \E k \in DOMAIN Inserted(s, new) : Inserted(s, new)[k] = s[i]
<1> DEFINE later == {i \in DOMAIN s : After(s[i], new)}
           pos   == IF later = {} THEN Len(s) + 1
                    ELSE CHOOSE i \in later : \A j \in later : i <= j
<1>1. s \in Seq(Entry) /\ DOMAIN s = 1..Len(s) /\ Len(s) \in Nat
  BY DEF QueueInv
<1>2. /\ pos \in 1..(Len(s) + 1)
      /\ \A i \in DOMAIN s : i < pos => ~After(s[i], new)
      /\ pos <= Len(s) => After(s[pos], new)
  <2>1. CASE later = {}
    BY <1>1, <2>1
  <2>2. CASE later # {}
    <3>1. \E i \in later : \A j \in later : i <= j
      <4>1. later \in SUBSET Nat
        BY <1>1
      <4> HIDE DEF later
      <4> QED
        BY <2>2, <4>1, LeastNumber
    <3>2. pos \in later /\ \A j \in later : pos <= j
      BY <2>2, <3>1
    <3> HIDE DEF pos
    <3> QED
      BY <1>1, <3>2
  <2> QED
    BY <2>1, <2>2
<1>3. Inserted(s, new) = SubSeq(s, 1, pos - 1) \o <<new>> \o SubSeq(s, pos, Len(s))
  BY DEF Inserted, InsertAt
<1> HIDE DEF pos
<1> DEFINE ins == Inserted(s, new)
<1>4. /\ ins \in Seq(Entry)
      /\ DOMAIN ins = 1..(Len(s) + 1)
      /\ \A k \in 1..(Len(s) + 1) :
            ins[k] = IF k < pos THEN s[k] ELSE IF k = pos THEN new ELSE s[k - 1]
  <2> DEFINE front == SubSeq(s, 1, pos - 1)
             back  == SubSeq(s, pos, Len(s))
  <2>1. /\ front \in Seq(Entry) /\ Len(front) = pos - 1
        /\ \A k \in 1..(pos - 1) : front[k] = s[k]
    BY <1>1, <1>2
  <2>2. /\ back \in Seq(Entry) /\ Len(back) = Len(s) - pos + 1
        /\ \A k \in 1..(Len(s) - pos + 1) : back[k] = s[pos + k - 1]
    BY <1>1, <1>2
  <2> HIDE DEF front, back
  <2>3. /\ front \o <<new>> \in Seq(Entry) /\ Len(front \o <<new>>) = pos
        /\ \A k \in 1..pos : (front \o <<new>>)[k] = IF k < pos THEN s[k] ELSE new
    BY <1>1, <1>2, <2>1
  <2> DEFINE upto == front \o <<new>>
  <2>4. ins = upto \o back
    BY <1>3 DEF front, back
  <2> HIDE DEF upto, ins
  <2>5. ins \in Seq(Entry) /\ Len(ins) = Len(s) + 1
    <3>1. upto \in Seq(Entry) /\ Len(upto) = pos
      BY <2>3 DEF upto
    <3>2. ins \in Seq(Entry) /\ Len(ins) = Len(upto) + Len(back)
      BY <2>2, <2>4, <3>1
    <3> QED
      BY <1>1, <1>2, <2>2, <3>1, <3>2
  <2>6. ASSUME NEW k \in 1..(Len(s) + 1)
        PROVE  ins[k] = IF k < pos THEN s[k] ELSE IF k = pos THEN new ELSE s[k - 1]
    <3>1. CASE k <= pos
      <4>1. ins[k] = upto[k]
        BY <1>1, <1>2, <2>2, <2>3, <2>4, <3>1 DEF upto
      <4> QED
        BY <1>2, <2>3, <3>1, <4>1 DEF upto
    <3>2. CASE k > pos
      <4>1. ins[k] = back[k - pos]
        BY <1>1, <1>2, <2>2, <2>3, <2>4, <3>2, SMTT(30) DEF upto
      <4>2. k - pos \in 1..(Len(s) - pos + 1)
        BY <1>1, <1>2, <3>2
      <4> QED
        BY <1>1, <1>2, <2>2, <3>2, <4>1, <4>2
    <3> QED
      BY <1>2, <3>1, <3>2
  <2> QED
    BY <1>1, <2>5, <2>6 DEF ins
<1> HIDE DEF ins
\* Where the entry now at k was, if it is not the new one.
<1> DEFINE was(k) == IF k < pos THEN k ELSE k - 1
<1>5. ASSUME NEW k \in DOMAIN ins, k # pos
       PROVE  was(k) \in DOMAIN s /\ ins[k] = s[was(k)]
  BY <1>1, <1>2, <1>4, <1>5
<1>6. ASSUME NEW i \in DOMAIN ins, NEW j \in DOMAIN ins, ins[i].torrent = ins[j].torrent
      PROVE  i = j
  <2>1. CASE i # pos /\ j # pos
    <3>1. was(i) = was(j)
      BY <1>6, <1>5, <2>1 DEF QueueInv, Single
    <3> QED
      BY <1>1, <1>2, <1>4, <2>1, <3>1
  <2>2. CASE i = pos \/ j = pos
    BY <1>1, <1>2, <1>4, <1>6, <1>5, <2>2
  <2> QED
    BY <2>1, <2>2
<1>7. ASSUME NEW i \in DOMAIN ins, NEW j \in DOMAIN ins, i < j
      PROVE  ~After(ins[i], ins[j])
  <2>1. CASE i # pos /\ j # pos
    <3>1. was(i) < was(j)
      BY <1>1, <1>2, <1>4, <1>7, <2>1
    <3> QED
      BY <1>5, <2>1, <3>1 DEF QueueInv, Sorted
  <2>2. CASE j = pos
    BY <1>1, <1>2, <1>4, <1>7, <2>2
  <2>3. CASE i = pos
    <3>1. /\ pos \in DOMAIN s /\ j - 1 \in DOMAIN s
          /\ pos <= j - 1 /\ ins[i] = new /\ ins[j] = s[j - 1]
      BY <1>1, <1>2, <1>4, <1>7, <2>3
    <3>2. After(s[pos], new)
      BY <1>1, <1>2, <3>1
    <3>3. s[pos] \in Entry /\ s[j - 1] \in Entry
      BY <1>1, <3>1
    <3>4. ~After(s[pos], s[j - 1])
      <4>1. CASE pos = j - 1
        BY <3>3, <4>1 DEF After, Entry
      <4>2. CASE pos < j - 1
        BY <3>1, <4>2 DEF QueueInv, Sorted
      <4> QED
        BY <1>1, <3>1, <4>1, <4>2
    <3> QED
      BY <3>1, <3>2, <3>3, <3>4 DEF After, Entry
  <2> QED
    BY <2>1, <2>2, <2>3
<1>8. pos \in DOMAIN ins /\ ins[pos] = new
  BY <1>1, <1>2, <1>4
<1>9. ASSUME NEW i \in DOMAIN s PROVE \E k \in DOMAIN ins : ins[k] = s[i]
  <2> DEFINE k == IF i < pos THEN i ELSE i + 1
  <2>1. k \in DOMAIN ins /\ ins[k] = s[i]
    BY <1>1, <1>2, <1>4
  <2> QED
    BY <2>1
<1>10. ASSUME NEW k \in DOMAIN ins PROVE ins[k] = new \/ \E i \in DOMAIN s : ins[k] = s[i]
  BY <1>8, <1>5
<1>11. QueueInv(ins)
  BY <1>4, <1>6, <1>7 DEF QueueInv, Single, Sorted
<1> QED
  BY <1>8, <1>9, <1>10, <1>11 DEF ins

\* A part of the queue from some position on, or up to one.
LEMMA PartEntries ==
    ASSUME NEW s, QueueInv(s), NEW a \in 1..(Len(s) + 1), NEW b \in 0..Len(s)
    PROVE  /\ QueueInv(SubSeq(s, a, b))
           /\ \A k \in DOMAIN SubSeq(s, a, b) :
                 /\ a + k - 1 \in DOMAIN s
                 /\ SubSeq(s, a, b)[k] = s[a + k - 1]
<1> DEFINE part == SubSeq(s, a, b)
<1>1. s \in Seq(Entry) /\ DOMAIN s = 1..Len(s) /\ Len(s) \in Nat
  BY DEF QueueInv
<1>2. part \in Seq(Entry) /\ DOMAIN part \subseteq Nat
  BY <1>1
<1>3. ASSUME NEW k \in DOMAIN part
      PROVE  k \in Nat /\ a + k - 1 \in DOMAIN s /\ part[k] = s[a + k - 1]
  BY <1>1, <1>3
<1> HIDE DEF part
<1>4. ASSUME NEW i \in DOMAIN part, NEW j \in DOMAIN part
      PROVE  /\ part[i].torrent = part[j].torrent => i = j
             /\ i < j => ~After(part[i], part[j])
  <2>1. /\ i \in Nat /\ a + i - 1 \in DOMAIN s /\ part[i] = s[a + i - 1]
        /\ j \in Nat /\ a + j - 1 \in DOMAIN s /\ part[j] = s[a + j - 1]
    BY <1>3
  <2>2. part[i].torrent = part[j].torrent => a + i - 1 = a + j - 1
    BY <2>1 DEF QueueInv, Single
  <2>3. a + i - 1 < a + j - 1 => ~After(part[i], part[j])
    BY <2>1 DEF QueueInv, Sorted
  <2> QED
    BY <2>1, <2>2, <2>3
<1> QED
  BY <1>2, <1>3, <1>4 DEF QueueInv, Single, Sorted, part

\* What get_availables leaves behind is not due, being behind something that
\* is not due in a sorted queue.
LEMMA DuePrefixStops ==
    ASSUME IInv
    PROVE  /\ DuePrefix \in 0..Len(items)
           /\ \A i \in DOMAIN items : i > DuePrefix => items[i].releaseAt > now
<1> DEFINE notDue == {i \in DOMAIN items : items[i].releaseAt > now}
           first  == CHOOSE i \in notDue : \A j \in notDue : i <= j
<1>1. items \in Seq(Entry) /\ DOMAIN items = 1..Len(items) /\ Len(items) \in Nat
  BY DEF IInv, QueueInv
<1>2. DuePrefix = IF notDue = {} THEN Len(items) ELSE first - 1
  BY DEF DuePrefix
<1>3. CASE notDue = {}
  BY <1>1, <1>2, <1>3
<1>4. CASE notDue # {}
  <2>1. \E i \in notDue : \A j \in notDue : i <= j
    <3>1. notDue \in SUBSET Nat
      BY <1>1
    <3> HIDE DEF notDue
    <3> QED
      BY <1>4, <3>1, LeastNumber
  <2>2. first \in notDue
    BY <2>1
  <2> HIDE DEF first
  <2>3. ASSUME NEW i \in DOMAIN items, i > first PROVE items[i].releaseAt > now
    <3>1. /\ items[first] \in Entry /\ items[i] \in Entry
          /\ items[first].releaseAt > now /\ first \in DOMAIN items
      BY <1>1, <2>2
    <3>2. ~After(items[first], items[i])
      BY <1>1, <2>3, <3>1 DEF IInv, QueueInv, Sorted
    <3> QED
      BY <3>1, <3>2 DEF After, Entry, IInv
  <2> QED
    BY <1>1, <1>2, <1>4, <2>2, <2>3
<1> QED
  BY <1>3, <1>4
-----------------------------------------------------------------------------
(* The queue stays sorted, with one entry per torrent.                     *)

NewEntry(h, e, delay) ==
    [torrent |-> h, event |-> e, releaseAt |-> now + delay, seq |-> NextSeq]

LEMMA NewIsEntry ==
    ASSUME IInv, NEW h \in Torrent, NEW e \in Event, NEW delay \in Delays
    PROVE  NewEntry(h, e, delay) \in Entry
<1>1. NextSeq \in Nat
  <2>1. items \in Seq(Entry) /\ Len(items) \in Nat
    BY DEF IInv, QueueInv
  <2>2. CASE items = <<>>
    BY <2>2 DEF NextSeq
  <2>3. CASE items # <<>>
    <3>1. items[Len(items)] \in Entry
      BY <2>1, <2>3
    <3> QED
      BY <2>3, <3>1 DEF NextSeq, Last, Entry
  <2> QED
    BY <2>2, <2>3
<1>2. now + delay \in Nat
  BY DelayQueueAssumption DEF IInv
<1> QED
  BY <1>1, <1>2 DEF NewEntry, Entry

LEMMA InitIInv == QueueInit => IInv
BY DEF QueueInit, IInv, QueueInv, Single, Sorted

LEMMA NextIInv == IInv /\ [QueueNext]_queueVars => IInv'
<1> SUFFICES ASSUME IInv, [QueueNext]_queueVars PROVE IInv'
  OBVIOUS
<1>1. ASSUME NEW h \in Torrent, NEW e \in Event, NEW d \in Delays, AddOrReplace(h, e, d)
      PROVE  IInv'
  <2>1. items' = Inserted(Retained(h), NewEntry(h, e, d)) /\ now' = now
    BY <1>1 DEF AddOrReplace, NewEntry
  <2>2. /\ QueueInv(Retained(h))
        /\ \A i \in DOMAIN Retained(h) : Retained(h)[i].torrent # h
    BY RetainedEntries
  <2>3. NewEntry(h, e, d) \in Entry /\ NewEntry(h, e, d).torrent = h
    BY NewIsEntry DEF NewEntry
  <2> QED
    BY <2>1, <2>2, <2>3, InsertedEntries DEF IInv
<1>2. CASE GetAvailables
  <2>1. /\ Len(items) \in Nat /\ DuePrefix + 1 \in 1..(Len(items) + 1)
        /\ Len(items) \in 0..Len(items)
    BY DuePrefixStops DEF IInv, QueueInv
  <2> QED
    BY <1>2, <2>1, PartEntries DEF GetAvailables, IInv
<1>3. CASE DrainAll
  BY <1>3 DEF DrainAll, IInv, QueueInv, Single, Sorted
<1>4. ASSUME NEW h \in Torrent, RemoveEntry(h) PROVE IInv'
  BY <1>4, RetainedEntries DEF RemoveEntry, IInv
<1>5. CASE Elapse
  BY <1>5 DEF Elapse, IInv
<1>6. CASE UNCHANGED queueVars
  BY <1>6 DEF queueVars, IInv
<1> QED
  BY <1>1, <1>2, <1>3, <1>4, <1>5, <1>6 DEF QueueNext

LEMMA InvariantHolds == QueueSpec => []IInv
BY InitIInv, NextIInv, PTL DEF QueueSpec
-----------------------------------------------------------------------------
(* The queue seen as a map from torrents to requests.                      *)

LEMMA PendingAt ==
    ASSUME NEW s, QueueInv(s), NEW i \in DOMAIN s
    PROVE  s[i].torrent \in Torrent /\ PendingOf(s)[s[i].torrent] = s[i].event
<1> DEFINE own == {j \in DOMAIN s : s[j].torrent = s[i].torrent}
<1>1. s \in Seq(Entry) /\ s[i] \in Entry /\ i \in Nat
  BY DEF QueueInv
<1>2. own = {i}
  BY DEF QueueInv, Single
<1>3. (CHOOSE k \in own : \A j \in own : k <= j) = i
  BY <1>1, <1>2
<1> QED
  BY <1>1, <1>2, <1>3 DEF PendingOf, Entry

LEMMA NothingPending ==
    ASSUME NEW s, NEW h \in Torrent, \A i \in DOMAIN s : s[i].torrent # h
    PROVE  PendingOf(s)[h] = NoRequest
BY DEF PendingOf

\* To lose some entries is to release the torrents that have none left.
LEMMA LossIsRelease ==
    ASSUME NEW s, NEW r, QueueInv(s), QueueInv(r),
           \A i \in DOMAIN r : \E k \in DOMAIN s : r[i] = s[k]
    PROVE  \E S \in SUBSET Torrent : PendingOf(r) = Abstract!Without(PendingOf(s), S)
<1> DEFINE S == {h \in Torrent : \A i \in DOMAIN r : r[i].torrent # h}
<1>1. ASSUME NEW h \in Torrent
      PROVE  PendingOf(r)[h] = IF h \in S THEN NoRequest ELSE PendingOf(s)[h]
  <2>1. CASE h \in S
    BY <2>1, NothingPending
  <2>2. CASE h \notin S
    <3>1. PICK i \in DOMAIN r : r[i].torrent = h
      BY <2>2
    <3>2. PICK k \in DOMAIN s : r[i] = s[k]
      BY <3>1
    <3> QED
      BY <2>2, <3>1, <3>2, PendingAt
  <2> QED
    BY <2>1, <2>2
<1>2. PendingOf(r) = [h \in Torrent |-> PendingOf(r)[h]]
  BY DEF PendingOf
<1> HIDE DEF S
<1>3. PendingOf(r) = Abstract!Without(PendingOf(s), S)
  BY <1>1, <1>2 DEF Abstract!Without
<1>4. S \in SUBSET Torrent
  BY DEF S
<1> QED
  BY <1>3, <1>4

\* To add a request is to replace that of its torrent, and no other.
LEMMA AdditionReplaces ==
    ASSUME IInv, NEW h \in Torrent, NEW e \in Event, NEW d \in Delays,
           AddOrReplace(h, e, d)
    PROVE  PendingOf(items') = Abstract!Replaced(PendingOf(items), h, e)
<1> DEFINE rest == Retained(h)
           new  == NewEntry(h, e, d)
           ins  == Inserted(rest, new)
<1>1. items' = ins
  BY DEF AddOrReplace, NewEntry
<1>2. /\ QueueInv(rest)
      /\ \A i \in DOMAIN rest : /\ rest[i].torrent # h
                                /\ \E k \in DOMAIN items : rest[i] = items[k]
      /\ \A k \in DOMAIN items : items[k].torrent # h =>
            \E i \in DOMAIN rest : rest[i] = items[k]
  BY RetainedEntries
<1>3. new \in Entry /\ new.torrent = h /\ new.event = e
  BY NewIsEntry DEF NewEntry
<1>4. /\ QueueInv(ins)
      /\ \A k \in DOMAIN ins : ins[k] = new \/ \E i \in DOMAIN rest : ins[k] = rest[i]
      /\ \E k \in DOMAIN ins : ins[k] = new
      /\ \A i \in DOMAIN rest : \E k \in DOMAIN ins : ins[k] = rest[i]
  BY <1>2, <1>3, InsertedEntries
<1> HIDE DEF rest, new, ins
<1>5. PendingOf(ins)[h] = e
  BY <1>3, <1>4, PendingAt
<1>6. ASSUME NEW g \in Torrent, g # h PROVE PendingOf(ins)[g] = PendingOf(items)[g]
  <2>1. CASE \E k \in DOMAIN items : items[k].torrent = g
    <3>1. PICK k \in DOMAIN items : items[k].torrent = g
      BY <2>1
    <3>2. PICK i \in DOMAIN rest : rest[i] = items[k]
      BY <1>2, <1>6, <3>1
    <3>3. PICK j \in DOMAIN ins : ins[j] = rest[i]
      BY <1>4
    <3> QED
      BY <1>4, <3>1, <3>2, <3>3, PendingAt DEF IInv
  <2>2. CASE \A k \in DOMAIN items : items[k].torrent # g
    <3>1. \A k \in DOMAIN ins : ins[k].torrent # g
      BY <1>2, <1>3, <1>4, <1>6, <2>2
    <3> QED
      BY <2>2, <3>1, NothingPending
  <2> QED
    BY <2>1, <2>2
<1>7. /\ PendingOf(ins) = [g \in Torrent |-> PendingOf(ins)[g]]
      /\ PendingOf(items) = [g \in Torrent |-> PendingOf(items)[g]]
  BY DEF PendingOf
<1> QED
  BY <1>1, <1>5, <1>6, <1>7 DEF Abstract!Replaced

LEMMA StepsOfAbstract ==
    IInv /\ [QueueNext]_queueVars => [Abstract!Next]_(PendingOf(items))
<1> SUFFICES ASSUME IInv, [QueueNext]_queueVars
             PROVE  [Abstract!Next]_(PendingOf(items))
  OBVIOUS
<1>1. ASSUME NEW h \in Torrent, NEW e \in Event, NEW d \in Delays, AddOrReplace(h, e, d)
      PROVE  Abstract!Next
  BY <1>1, AdditionReplaces DEF Abstract!Next, Abstract!Put
<1>2. ASSUME GetAvailables \/ DrainAll \/ \E h \in Torrent : RemoveEntry(h)
      PROVE  Abstract!Next
  <2>1. QueueInv(items) /\ QueueInv(items')
    BY NextIInv DEF IInv
  <2>2. \A i \in DOMAIN items' : \E k \in DOMAIN items : items'[i] = items[k]
    <3>1. CASE GetAvailables
      <4>1. /\ Len(items) \in Nat /\ DuePrefix + 1 \in 1..(Len(items) + 1)
            /\ Len(items) \in 0..Len(items)
        BY DuePrefixStops DEF IInv, QueueInv
      <4> QED
        BY <2>1, <3>1, <4>1, PartEntries DEF GetAvailables
    <3>2. CASE DrainAll
      BY <3>2 DEF DrainAll
    <3>3. ASSUME NEW h \in Torrent, RemoveEntry(h)
          PROVE  \A i \in DOMAIN items' : \E k \in DOMAIN items : items'[i] = items[k]
      BY <3>3, RetainedEntries DEF RemoveEntry
    <3> QED
      BY <1>2, <3>1, <3>2, <3>3
  <2>3. PICK S \in SUBSET Torrent :
           PendingOf(items') = Abstract!Without(PendingOf(items), S)
    BY <2>1, <2>2, LossIsRelease
  <2> QED
    BY <2>3 DEF Abstract!Next, Abstract!Release
<1>3. CASE Elapse \/ UNCHANGED queueVars
  BY <1>3 DEF Elapse, queueVars
<1> QED
  BY <1>1, <1>2, <1>3 DEF QueueNext
-----------------------------------------------------------------------------
\* The delay queue is a map from torrents to their pending request, whatever the
\* delays, the ties and the order of calls: a newer request always wins, and
\* one leaves only by a drain, a removal or a newer one (delay_queue.rs:6-12).
THEOREM QueueIsReplacing == QueueSpec => ImplementsReplacingQueue
<1>1. QueueInit => Abstract!Init
  <2> SUFFICES ASSUME QueueInit PROVE PendingOf(items) = [h \in Torrent |-> NoRequest]
    BY DEF Abstract!Init
  <2> QED
    BY DEF QueueInit, PendingOf
<1>2. IInv /\ [QueueNext]_queueVars => [Abstract!Next]_(PendingOf(items))
  BY StepsOfAbstract
<1> QED
  BY <1>1, <1>2, InvariantHolds, PTL
     DEF QueueSpec, ImplementsReplacingQueue, Abstract!Spec

\* No drain leaves anything due behind or hands requests out in another order
\* than that of their release, however insertions, replacements, removals and
\* drains alternated before (delay_queue.rs:9-10, 86, 98-116).
THEOREM DrainsInOrder == QueueSpec => DrainsTheDueInOrder
<1>1. ASSUME IInv, GetAvailables
      PROVE  \A i \in DOMAIN items' : items'[i].releaseAt > now
  <2>1. /\ Len(items) \in Nat /\ DuePrefix + 1 \in 1..(Len(items) + 1)
        /\ Len(items) \in 0..Len(items) /\ DuePrefix \in Nat
    BY <1>1, DuePrefixStops DEF IInv, QueueInv
  <2>2. ASSUME NEW i \in DOMAIN items' PROVE items'[i].releaseAt > now
    <3>1. /\ DuePrefix + 1 + i - 1 \in DOMAIN items
          /\ items'[i] = items[DuePrefix + 1 + i - 1]
      BY <1>1, <2>1, PartEntries DEF GetAvailables, IInv
    <3>2. i \in Nat /\ i >= 1
      BY <1>1, NextIInv DEF QueueNext, IInv, QueueInv
    <3>3. DuePrefix + 1 + i - 1 > DuePrefix
      BY <2>1, <3>2
    <3> QED
      BY <1>1, <3>1, <3>3, DuePrefixStops
  <2> QED
    BY <2>2
<1>2. ASSUME IInv, GetAvailables \/ DrainAll
      PROVE  \A i, j \in DOMAIN out' : i < j => out'[i].releaseAt <= out'[j].releaseAt
  <2>1. QueueInv(out')
    <3>1. CASE GetAvailables
      <4>1. 1 \in 1..(Len(items) + 1) /\ DuePrefix \in 0..Len(items)
        BY <1>2, DuePrefixStops DEF IInv, QueueInv
      <4> QED
        BY <1>2, <3>1, <4>1, PartEntries DEF GetAvailables, IInv
    <3>2. CASE DrainAll
      BY <1>2, <3>2 DEF DrainAll, IInv
    <3> QED
      BY <1>2, <3>1, <3>2
  <2>2. ASSUME NEW i \in DOMAIN out', NEW j \in DOMAIN out', i < j
        PROVE  out'[i].releaseAt <= out'[j].releaseAt
    <3>1. out'[i] \in Entry /\ out'[j] \in Entry
      BY <2>1 DEF QueueInv
    <3>2. ~After(out'[i], out'[j])
      BY <2>1, <2>2 DEF QueueInv, Sorted
    <3> QED
      BY <3>1, <3>2 DEF After, Entry
  <2> QED
    BY <2>2
<1>3. IInv /\ [QueueNext]_queueVars =>
        [ /\ GetAvailables => \A i \in DOMAIN items' : items'[i].releaseAt > now
          /\ GetAvailables \/ DrainAll =>
               \A i, j \in DOMAIN out' :
                  i < j => out'[i].releaseAt <= out'[j].releaseAt ]_queueVars
  BY <1>1, <1>2
<1> QED
  BY <1>3, InvariantHolds, PTL DEF QueueSpec, DrainsTheDueInOrder

=============================================================================
