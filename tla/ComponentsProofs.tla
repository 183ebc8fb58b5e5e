--------------------------- MODULE ComponentsProofs ---------------------------
(***************************************************************************)
(* The components that are checked for themselves: the local history and   *)
(* the repair manager of a channel, the health, streams, peer exchange     *)
(* queries and remote peers of a node, and messages on their way through   *)
(* the encodings, for any messages, entries, peers, requests, answers and  *)
(* keys, and every limit and bound.                                        *)
(***************************************************************************)
EXTENDS LocalHistory, RepairManager, HealthIndicator, StreamManager, PeerExchange,
        Metadata, RemotePeers, WireExchange, MessageFlow, DataProofs

-----------------------------------------------------------------------------
(* Local history. *)

\* The order of the messages of the history.
LEMMA BeforeOrder ==
  /\ \A m, n \in Messages : Before(m, n) <=> ~NotAfter(n, m)
  /\ \A m \in Messages : ~Before(m, m)
  /\ \A m, n \in Messages : m # n => Before(m, n) \/ Before(n, m)
  /\ \A m, n, o \in Messages : Before(m, n) /\ Before(n, o) => Before(m, o)
  /\ \A m, n \in Messages : Before(m, n) => ~Before(n, m)
<1>1. \A m \in Messages : m.lamport \in Nat /\ IdRank[m.id] \in Nat
  BY MessagesAssumption
<1>2. \A m, n \in Messages :
        Before(m, n) <=> \/ m.lamport < n.lamport
                         \/ m.lamport = n.lamport /\ IdRank[m.id] < IdRank[n.id]
  BY <1>1 DEF Before, NotAfter
<1>3. \A m, n \in Messages : Before(m, n) <=> ~NotAfter(n, m)
  BY <1>1, <1>2 DEF NotAfter
<1>4. \A m, n \in Messages : m # n => Before(m, n) \/ Before(n, m)
  BY <1>1, <1>2, MessagesAssumption
<1>5. \A m, n, o \in Messages : Before(m, n) /\ Before(n, o) => Before(m, o)
  BY <1>1, <1>2
<1>6. \A m, n \in Messages : Before(m, n) => ~Before(n, m)
  BY <1>1, <1>2
<1> QED
  BY <1>3, <1>4, <1>5, <1>6

\* The messages of an array stay in it when it is sorted, and none follows one that
\* is before it.
LEMMA SortedFacts ==
  ASSUME NEW seq \in Seq(Messages)
  PROVE  /\ Sorted(seq) \in Seq(Messages)
         /\ Range(Sorted(seq)) = Range(seq)
         /\ \A k, l \in DOMAIN Sorted(seq) : k < l => ~Before(Sorted(seq)[l], Sorted(seq)[k])
<1> DEFINE D == DOMAIN seq
           precedes(j, i) == Before(seq[j], seq[i]) \/ (j < i /\ ~Before(seq[i], seq[j]))
           below == [i \in D |-> {j \in D : precedes(j, i)}]
           place == [k \in D |-> CHOOSE i \in D : Cardinality({j \in D : precedes(j, i)}) = k - 1]
<1>1. Len(seq) \in Nat /\ D = 1..Len(seq) /\ \A i \in D : seq[i] \in Messages
  BY LenProperties, ElementOfSeq
<1>2. IsFiniteSet(D) /\ Cardinality(D) = Len(seq)
  <2>1. 1 \in Int /\ Len(seq) \in Int
    BY <1>1
  <2>2. IsFiniteSet(D) /\ Cardinality(D) = IF 1 > Len(seq) THEN 0 ELSE Len(seq) - 1 + 1
    BY <2>1, FS_Interval, SMT
  <2>3. \A m \in Nat : (IF 1 > m THEN 0 ELSE m - 1 + 1) = m
    OBVIOUS
  <2> QED
    BY <1>1, <2>2, <2>3, Zenon
<1>3. \A i \in D : ~precedes(i, i)
  BY <1>1, BeforeOrder
<1>4. \A i, j \in D : i # j => precedes(i, j) \/ precedes(j, i)
  BY <1>1
<1>5. \A h, i, j \in D : precedes(h, i) /\ precedes(i, j) => precedes(h, j)
  <2> SUFFICES ASSUME NEW h \in D, NEW i \in D, NEW j \in D, precedes(h, i), precedes(i, j)
               PROVE  precedes(h, j)
    OBVIOUS
  <2>1. seq[h] \in Messages /\ seq[i] \in Messages /\ seq[j] \in Messages
    BY <1>1
  <2>2. \/ Before(seq[h], seq[j])
        \/ ~Before(seq[h], seq[i]) /\ ~Before(seq[i], seq[j]) /\ seq[h] = seq[i] /\ seq[i] = seq[j]
    BY <2>1, BeforeOrder
  <2>3. CASE Before(seq[h], seq[j])
    BY <2>3
  <2>4. CASE /\ ~Before(seq[h], seq[i]) /\ ~Before(seq[i], seq[j])
             /\ seq[h] = seq[i] /\ seq[i] = seq[j]
    <3>1. h < j
      BY <2>4, <1>1
    <3> QED
      BY <2>1, <2>4, <3>1, BeforeOrder
  <2> QED
    BY <2>2, <2>3, <2>4
<1>6. Ordered(D, below)
  <2> HIDE DEF precedes, D
  <2> QED
    BY <1>3, <1>4, <1>5, Zenon DEF Ordered
<1>7. \A k \in 1..Cardinality(D) : \E i \in D : Cardinality(below[i]) = k - 1
  <2> HIDE DEF below, D
  <2> QED
    BY <1>2, <1>6, Ranks
<1>8. \A i \in D : Cardinality(below[i]) \in 0..(Cardinality(D) - 1)
  <2> HIDE DEF below, D
  <2> QED
    BY <1>2, <1>6, Ranks
<1>9. \A i, j \in D : i \in below[j] <=> Cardinality(below[i]) < Cardinality(below[j])
  <2> HIDE DEF below, D
  <2> QED
    BY <1>2, <1>6, Ranks
<1>10. ASSUME NEW k \in D
       PROVE  place[k] \in D /\ Cardinality(below[place[k]]) = k - 1
  <2>1. \E i \in D : Cardinality({j \in D : precedes(j, i)}) = k - 1
    <3>1. k \in 1..Cardinality(D)
      BY <1>1, <1>2
    <3> HIDE DEF precedes
    <3> QED
      BY <1>7, <3>1
  <2>2. place[k] = CHOOSE i \in D : Cardinality({j \in D : precedes(j, i)}) = k - 1
    OBVIOUS
  <2>3. place[k] \in D /\ Cardinality({j \in D : precedes(j, place[k])}) = k - 1
    <3> HIDE DEF place, D, precedes
    <3> QED
      BY <2>1, <2>2
  <2> HIDE DEF place, precedes, D
  <2> QED
    BY <2>3
<1>11. Sorted(seq) = [k \in D |-> seq[place[k]]]
  BY DEF Sorted
<1> HIDE DEF place
<1>12. Sorted(seq) \in [1..Len(seq) -> Messages]
  BY <1>1, <1>10, <1>11
<1>13. Sorted(seq) \in Seq(Messages)
  BY <1>1, <1>12
<1>14. \A i \in D : \E k \in D : place[k] = i
  <2> SUFFICES ASSUME NEW i \in D PROVE \E k \in D : place[k] = i
    OBVIOUS
  <2> DEFINE k == Cardinality(below[i]) + 1
  <2>1. k \in D /\ Cardinality(below[i]) \in Int /\ Cardinality(below[i]) = k - 1
    <3> HIDE DEF below
    <3>1. Cardinality(below[i]) \in 0..(Len(seq) - 1)
      BY <1>2, <1>8
    <3> QED
      BY <1>1, <3>1
  <2> HIDE DEF k, below, D
  <2>2. place[k] \in D /\ Cardinality(below[place[k]]) = Cardinality(below[i])
    BY <1>10, <2>1
  <2>3. /\ place[k] \in below[i] <=> Cardinality(below[place[k]]) < Cardinality(below[i])
        /\ i \in below[place[k]] <=> Cardinality(below[i]) < Cardinality(below[place[k]])
    BY <1>9, <2>2
  <2>4. ~(place[k] \in below[i]) /\ ~(i \in below[place[k]])
    BY <2>1, <2>2, <2>3
  <2>5. place[k] = i
    BY <1>6, <2>2, <2>4 DEF Ordered
  <2> QED
    BY <2>1, <2>5
<1>15. Range(Sorted(seq)) = Range(seq)
  <2> HIDE DEF D
  <2>1. DOMAIN Sorted(seq) = D /\ \A k \in D : Sorted(seq)[k] = seq[place[k]]
    BY <1>11
  <2>2. Range(Sorted(seq)) = {Sorted(seq)[k] : k \in D} /\ Range(seq) = {seq[i] : i \in D}
    BY <2>1 DEF Range, D
  <2>3. \A k \in D : Sorted(seq)[k] \in {seq[i] : i \in D}
    BY <1>10, <2>1
  <2>4. \A i \in D : seq[i] \in {Sorted(seq)[k] : k \in D}
    BY <1>14, <2>1
  <2> QED
    BY <2>2, <2>3, <2>4
<1>16. ASSUME NEW k \in D, NEW l \in D, k < l
       PROVE  ~Before(seq[place[l]], seq[place[k]])
  <2>1. place[k] \in D /\ place[l] \in D
    BY <1>10
  <2>2. Cardinality(below[place[k]]) < Cardinality(below[place[l]])
    <3>1. Cardinality(below[place[k]]) = k - 1 /\ Cardinality(below[place[l]]) = l - 1
      BY <1>10
    <3> HIDE DEF below
    <3> QED
      BY <1>1, <1>16, <3>1
  <2>3. place[k] \in below[place[l]]
    <3> HIDE DEF below, D
    <3> QED
      BY <1>9, <2>1, <2>2
  <2>4. precedes(place[k], place[l])
    <3> HIDE DEF precedes, D
    <3> QED
      BY <2>1, <2>3
  <2> QED
    BY <1>1, <2>1, <2>4, BeforeOrder
<1> QED
  <2> HIDE DEF D
  <2>1. DOMAIN Sorted(seq) = D /\ \A k \in D : Sorted(seq)[k] = seq[place[k]]
    BY <1>11
  <2> QED
    BY <1>13, <1>15, <1>16, <2>1

\* Of the messages of S with one id, the one that sorts first.
FirstOfEach(S) == {m \in S : \A n \in S : n.id = m.id => NotAfter(m, n)}

\* The last MaxLength messages of S.
LastMessages(S) == {m \in S : Cardinality({n \in S : Before(m, n)}) < MaxLength}

\* Every message of an array is before those that follow it.
InOrder(seq) == \A k, l \in DOMAIN seq : k < l => Before(seq[k], seq[l])

\* Of a sorted array uniqBy leaves the first message of each id, in order.
LEMMA UniqFacts ==
  ASSUME NEW seq \in Seq(Messages),
         \A k, l \in DOMAIN seq : k < l => ~Before(seq[l], seq[k])
  PROVE  /\ UniqById(seq) \in Seq(Messages)
         /\ InOrder(UniqById(seq))
         /\ Range(UniqById(seq)) = FirstOfEach(Range(seq))
<1> DEFINE firsts == {i \in DOMAIN seq : \A j \in DOMAIN seq : j < i => seq[j].id # seq[i].id}
           n == Cardinality(firsts)
           u == UniqById(seq)
<1>1. Len(seq) \in Nat /\ DOMAIN seq = 1..Len(seq) /\ \A i \in DOMAIN seq : seq[i] \in Messages
  BY LenProperties, ElementOfSeq
<1>2. u = At(seq, firsts)
  BY DEF UniqById
<1>3. PICK at : Picks(at, seq, firsts)
  <2>1. firsts \in SUBSET (1..Len(seq))
    BY <1>1
  <2> HIDE DEF firsts
  <2> QED
    BY <1>1, <2>1, AtPicks
<1> HIDE DEF u
<1>4. /\ n \in Nat
      /\ \A k \in 1..n : at[k] \in firsts
      /\ \A k, l \in 1..n : k < l => at[k] < at[l]
      /\ \A i \in firsts : \E k \in 1..n : at[k] = i
      /\ u = [k \in 1..n |-> seq[at[k]]]
  <2> HIDE DEF firsts
  <2> QED
    BY <1>2, <1>3 DEF Picks
<1> HIDE DEF n
<1>5. u \in Seq(Messages)
  <2>1. u \in [1..n -> Messages]
    BY <1>1, <1>4
  <2> QED
    BY <1>4, <2>1
<1>6. DOMAIN u = 1..n
  BY <1>4
<1>7. ASSUME NEW k \in 1..n, NEW l \in 1..n, k < l
      PROVE  Before(u[k], u[l])
  <2>1. at[k] \in DOMAIN seq /\ at[l] \in DOMAIN seq /\ at[k] < at[l]
    BY <1>4, <1>7
  <2>2. seq[at[k]].id # seq[at[l]].id
    BY <1>4, <2>1
  <2>3. ~Before(seq[at[l]], seq[at[k]])
    BY <2>1
  <2>4. seq[at[k]] \in Messages /\ seq[at[l]] \in Messages /\ seq[at[k]] # seq[at[l]]
    BY <1>1, <2>1, <2>2
  <2>5. u[k] = seq[at[k]] /\ u[l] = seq[at[l]]
    BY <1>4
  <2> QED
    BY <2>3, <2>4, <2>5, BeforeOrder
<1>8. ASSUME NEW i \in DOMAIN seq
      PROVE  \E f \in firsts : seq[f].id = seq[i].id /\ f =< i
  <2> DEFINE same == {j \in DOMAIN seq : seq[j].id = seq[i].id}
  <2>1. same \in SUBSET Nat /\ same # {}
    BY <1>1
  <2>2. PICK f \in same : \A j \in same : f =< j
    <3> HIDE DEF same
    <3> QED
      BY <2>1, LeastExists
  <2>3. f \in firsts
    BY <1>1, <2>2
  <2> QED
    BY <2>2, <2>3
<1>9. \A i \in firsts : seq[i] \in FirstOfEach(Range(seq))
  <2> SUFFICES ASSUME NEW i \in firsts, NEW j \in DOMAIN seq, seq[j].id = seq[i].id
               PROVE  NotAfter(seq[i], seq[j])
    <3>1. \A i \in firsts : seq[i] \in Range(seq)
      BY DEF Range
    <3>2. \A m \in Range(seq) : \E j \in DOMAIN seq : m = seq[j]
      BY DEF Range
    <3> QED
      BY <3>1, <3>2 DEF FirstOfEach
  <2>1. i = j \/ i < j
    BY <1>1
  <2>2. ~Before(seq[j], seq[i])
    BY <1>1, <2>1, BeforeOrder
  <2> QED
    BY <1>1, <2>2, BeforeOrder
<1>10. \A m \in FirstOfEach(Range(seq)) : \E i \in firsts : m = seq[i]
  <2> SUFFICES ASSUME NEW m \in FirstOfEach(Range(seq))
               PROVE  \E i \in firsts : m = seq[i]
    OBVIOUS
  <2>1. PICK i \in DOMAIN seq : m = seq[i]
    BY DEF FirstOfEach, Range
  <2>2. PICK f \in firsts : seq[f].id = seq[i].id /\ f =< i
    BY <1>8
  <2>3. seq[f] \in Range(seq) /\ f \in DOMAIN seq
    BY DEF Range
  <2>4. NotAfter(seq[i], seq[f])
    BY <2>1, <2>2, <2>3 DEF FirstOfEach
  <2>5. CASE f = i
    BY <2>1, <2>5
  <2>6. CASE f # i
    <3>1. f < i
      BY <1>1, <2>2, <2>3, <2>6
    <3>2. ~Before(seq[i], seq[f]) /\ ~Before(seq[f], seq[i])
      BY <1>1, <2>3, <2>4, <3>1, BeforeOrder
    <3>3. seq[i] = seq[f]
      BY <1>1, <2>3, <3>2, BeforeOrder
    <3> QED
      BY <2>1, <3>3
  <2> QED
    BY <2>5, <2>6
<1>11. Range(u) = {seq[i] : i \in firsts}
  <2> HIDE DEF firsts
  <2>1. Range(u) = {u[k] : k \in 1..n}
    BY <1>6 DEF Range
  <2>2. \A k \in 1..n : u[k] = seq[at[k]]
    BY <1>4
  <2>3. \A k \in 1..n : u[k] \in {seq[i] : i \in firsts}
    BY <1>4, <2>2
  <2>4. \A i \in firsts : seq[i] \in {u[k] : k \in 1..n}
    BY <1>4, <2>2
  <2> QED
    BY <2>1, <2>3, <2>4
<1>12. Range(u) = FirstOfEach(Range(seq))
  <2> HIDE DEF firsts
  <2> QED
    BY <1>9, <1>10, <1>11
<1> QED
  BY <1>5, <1>6, <1>7, <1>12 DEF u, InOrder

\* As many messages are after the k-th of an array in order as follow it.
LEMMA AfterInOrder ==
  ASSUME NEW seq \in Seq(Messages), InOrder(seq), NEW k \in 1..Len(seq)
  PROVE  Cardinality({n \in Range(seq) : Before(seq[k], n)}) = Len(seq) - k
<1> DEFINE after == {n \in Range(seq) : Before(seq[k], n)}
           follow == (k + 1)..Len(seq)
           f == [l \in follow |-> seq[l]]
<1>1. Len(seq) \in Nat /\ DOMAIN seq = 1..Len(seq) /\ \A i \in DOMAIN seq : seq[i] \in Messages
  BY LenProperties, ElementOfSeq
<1>2. IsFiniteSet(follow) /\ Cardinality(follow) = Len(seq) - k
  BY <1>1, Interval
<1>3. \A l \in follow : l \in DOMAIN seq /\ k < l
  BY <1>1
<1>4. \A l \in follow : seq[l] \in after
  <2>1. \A l \in follow : seq[l] \in Range(seq)
    BY <1>3 DEF Range
  <2> QED
    BY <1>1, <1>3, <2>1 DEF InOrder
<1>5. \A n \in after : \E l \in follow : seq[l] = n
  <2> SUFFICES ASSUME NEW n \in after PROVE \E l \in follow : seq[l] = n
    OBVIOUS
  <2>1. PICK l \in DOMAIN seq : n = seq[l]
    BY DEF Range
  <2>2. Before(seq[k], seq[l])
    BY <2>1
  <2>3. ~(l < k) /\ l # k
    BY <1>1, <2>2, BeforeOrder DEF InOrder
  <2>4. l \in follow
    BY <1>1, <2>3
  <2> QED
    BY <2>1, <2>4
<1>6. \A i, j \in follow : seq[i] = seq[j] => i = j
  <2>1. \A i, j \in DOMAIN seq : i < j => seq[i] # seq[j]
    BY <1>1, BeforeOrder DEF InOrder
  <2> QED
    BY <1>1, <1>3, <2>1
<1>7. f \in Bijection(follow, after)
  <2>1. f \in [follow -> after]
    BY <1>4
  <2>2. \A i, j \in follow : f[i] = f[j] => i = j
    BY <1>6
  <2>3. \A n \in after : \E l \in follow : f[l] = n
    BY <1>5
  <2> HIDE DEF f, follow, after
  <2> QED
    BY <2>1, <2>2, <2>3 DEF Bijection, Injection, Surjection, IsInjective
<1>8. Cardinality(after) = Cardinality(follow)
  <2> HIDE DEF f, follow, after
  <2> QED
    BY <1>2, <1>7, FS_Bijection DEF ExistsBijection
<1> QED
  BY <1>2, <1>8

\* What is left when the oldest messages are dropped.
LEMMA NewestFacts ==
  ASSUME NEW seq \in Seq(Messages), InOrder(seq)
  PROVE  Newest(seq) \in Seq(Messages) /\ Range(Newest(seq)) = LastMessages(Range(seq))
<1> DEFINE gone == IF Len(seq) > MaxLength THEN Len(seq) - MaxLength ELSE 0
<1>1. Len(seq) \in Nat /\ DOMAIN seq = 1..Len(seq) /\ \A i \in DOMAIN seq : seq[i] \in Messages
  BY LenProperties, ElementOfSeq
<1>2. gone \in 0..Len(seq)
  BY <1>1, MaxLengthAssumption
<1>3. \A k \in 1..Len(seq) : Len(seq) - k < MaxLength <=> k > gone
  BY <1>1, MaxLengthAssumption
<1>4. /\ Newest(seq) \in Seq(Messages)
      /\ Range(Newest(seq)) = {seq[k] : k \in (gone + 1)..Len(seq)}
  <2>1. CASE Len(seq) > MaxLength
    <3>1. Newest(seq) = SubSeq(seq, gone + 1, Len(seq)) /\ gone = Len(seq) - MaxLength
      BY <2>1 DEF Newest
    <3> HIDE DEF gone
    <3>2. /\ SubSeq(seq, gone + 1, Len(seq)) \in Seq(Messages)
          /\ Len(SubSeq(seq, gone + 1, Len(seq))) = Len(seq) - gone
          /\ \A i \in 1..(Len(seq) - gone) :
               SubSeq(seq, gone + 1, Len(seq))[i] = seq[gone + i]
      <4> DEFINE kept == [i \in 1..(Len(seq) - gone) |-> seq[gone + i]]
      <4>1. \A i \in 1..(Len(seq) - gone) : gone + i \in DOMAIN seq /\ i + (gone + 1) - 1 = gone + i
        BY <1>1, <1>2
      <4>2. Len(seq) - gone \in Nat /\ Len(seq) - (gone + 1) + 1 = Len(seq) - gone
        BY <1>1, <1>2
      <4>3. SubSeq(seq, gone + 1, Len(seq)) = kept
        BY <1>1, <1>2, <4>1, <4>2
      <4>4. kept \in [1..(Len(seq) - gone) -> Messages]
        BY <1>1, <4>1
      <4>5. kept \in Seq(Messages) /\ Len(kept) = Len(seq) - gone
        BY <4>2, <4>4
      <4>6. \A i \in 1..(Len(seq) - gone) : kept[i] = seq[gone + i]
        OBVIOUS
      <4> HIDE DEF kept
      <4> QED
        BY <4>3, <4>5, <4>6
    <3>3. DOMAIN Newest(seq) = 1..(Len(seq) - gone)
      BY <1>1, <1>2, <3>1, <3>2, LenProperties
    <3>4. \A i \in 1..(Len(seq) - gone) : gone + i \in (gone + 1)..Len(seq)
      BY <1>1, <1>2
    <3>5. \A k \in (gone + 1)..Len(seq) : k - gone \in 1..(Len(seq) - gone) /\ gone + (k - gone) = k
      BY <1>1, <1>2
    <3>6. Range(Newest(seq)) = {Newest(seq)[i] : i \in 1..(Len(seq) - gone)}
      BY <3>3 DEF Range
    <3>7. \A i \in 1..(Len(seq) - gone) : Newest(seq)[i] = seq[gone + i]
      BY <3>1, <3>2
    <3>8. \A i \in 1..(Len(seq) - gone) : Newest(seq)[i] \in {seq[k] : k \in (gone + 1)..Len(seq)}
      BY <3>4, <3>7
    <3>9. \A k \in (gone + 1)..Len(seq) : seq[k] \in {Newest(seq)[i] : i \in 1..(Len(seq) - gone)}
      <4> SUFFICES ASSUME NEW k \in (gone + 1)..Len(seq)
                   PROVE  seq[k] = Newest(seq)[k - gone] /\ k - gone \in 1..(Len(seq) - gone)
        OBVIOUS
      <4> QED
        BY <3>5, <3>7
    <3>10. Range(Newest(seq)) = {seq[k] : k \in (gone + 1)..Len(seq)}
      BY <3>6, <3>8, <3>9
    <3> QED
      BY <3>1, <3>2, <3>10
  <2>2. CASE ~(Len(seq) > MaxLength)
    <3>1. Newest(seq) = seq /\ gone = 0
      BY <2>2 DEF Newest
    <3> HIDE DEF gone
    <3>2. (gone + 1)..Len(seq) = DOMAIN seq
      BY <1>1, <3>1
    <3> QED
      BY <3>1, <3>2 DEF Range
  <2> QED
    BY <2>1, <2>2
<1>5. LastMessages(Range(seq)) = {seq[k] : k \in (gone + 1)..Len(seq)}
  <2>1. \A k \in 1..Len(seq) : seq[k] \in LastMessages(Range(seq)) <=> k > gone
    <3>1. \A k \in 1..Len(seq) : seq[k] \in Range(seq)
      BY <1>1 DEF Range
    <3> HIDE DEF gone
    <3> QED
      BY <1>3, <3>1, AfterInOrder DEF LastMessages
  <2>2. \A m \in LastMessages(Range(seq)) : \E k \in 1..Len(seq) : m = seq[k]
    BY <1>1 DEF LastMessages, Range
  <2>3. \A k : k \in (gone + 1)..Len(seq) <=> k \in 1..Len(seq) /\ k > gone
    <3> HIDE DEF gone
    <3> QED
      BY <1>1, <1>2
  <2> HIDE DEF gone
  <2> QED
    BY <2>1, <2>2, <2>3
<1> QED
  BY <1>4, <1>5

\* The messages of S after m.
After(S, m) == {n \in S : Before(m, n)}

LEMMA LastIsAfter == \A S : LastMessages(S) = {m \in S : Cardinality(After(S, m)) < MaxLength}
  BY DEF LastMessages, After

LEMMA AfterFinite ==
  ASSUME NEW T \in SUBSET Messages, IsFiniteSet(T), NEW m
  PROVE  /\ IsFiniteSet(After(T, m)) /\ Cardinality(After(T, m)) \in Nat
         /\ \A S \in SUBSET T : IsFiniteSet(After(S, m)) /\ Cardinality(After(S, m)) \in Nat
                                 /\ Cardinality(After(S, m)) =< Cardinality(After(T, m))
<1>1. IsFiniteSet(After(T, m)) /\ Cardinality(After(T, m)) \in Nat
  <2>1. After(T, m) \in SUBSET T
    BY DEF After
  <2> QED
    BY <2>1, FS_Subset, FS_CardinalityType
<1>2. ASSUME NEW S \in SUBSET T
      PROVE  /\ IsFiniteSet(After(S, m)) /\ Cardinality(After(S, m)) \in Nat
             /\ Cardinality(After(S, m)) =< Cardinality(After(T, m))
  <2>1. After(S, m) \in SUBSET After(T, m)
    BY DEF After
  <2> QED
    BY <1>1, <2>1, FS_Subset, FS_CardinalityType
<1> QED
  BY <1>1, <1>2

\* When not all of P is among its last messages, those are MaxLength, and after
\* every other of P.
LEMMA LastIsFull ==
  ASSUME NEW P \in SUBSET Messages, IsFiniteSet(P), NEW n \in P, n \notin LastMessages(P)
  PROVE  /\ IsFiniteSet(LastMessages(P)) /\ Cardinality(LastMessages(P)) >= MaxLength
         /\ Cardinality(LastMessages(P)) \in Nat
         /\ \A x \in LastMessages(P) : Before(n, x)
<1> DEFINE below == [i \in P |-> After(P, i)]
<1>1. Ordered(P, below)
  <2>1. \A i \in P : After(P, i) \in SUBSET P /\ i \notin After(P, i)
    BY BeforeOrder DEF After
  <2>2. \A i, j \in P : i # j => i \in After(P, j) \/ j \in After(P, i)
    BY BeforeOrder DEF After
  <2>3. \A i, j \in P : i \in After(P, j) => After(P, i) \subseteq After(P, j)
    BY BeforeOrder DEF After
  <2> QED
    BY <2>1, <2>2, <2>3 DEF Ordered
<1>2. /\ Cardinality(P) \in Nat
      /\ \A i \in P : Cardinality(After(P, i)) \in 0..(Cardinality(P) - 1)
      /\ \A i, j \in P : i \in After(P, j) <=> Cardinality(After(P, i)) < Cardinality(After(P, j))
      /\ \A k \in 1..Cardinality(P) : \E i \in P : Cardinality(After(P, i)) = k - 1
  <2>1. \A i \in P : below[i] = After(P, i)
    OBVIOUS
  <2>2. /\ Cardinality(P) \in Nat
        /\ \A i \in P : Cardinality(below[i]) \in 0..(Cardinality(P) - 1)
        /\ \A i, j \in P : i \in below[j] <=> Cardinality(below[i]) < Cardinality(below[j])
        /\ \A k \in 1..Cardinality(P) : \E i \in P : Cardinality(below[i]) = k - 1
    <3> HIDE DEF below
    <3> QED
      BY <1>1, Ranks
  <2> QED
    BY <2>1, <2>2
<1>3. Cardinality(After(P, n)) \in 0..(Cardinality(P) - 1) /\ Cardinality(After(P, n)) >= MaxLength
  <2>1. Cardinality(After(P, n)) \in 0..(Cardinality(P) - 1)
    BY <1>2
  <2> QED
    BY <1>2, <2>1, MaxLengthAssumption, LastIsAfter
<1>4. IsFiniteSet(LastMessages(P)) /\ Cardinality(LastMessages(P)) \in Nat
  <2>1. LastMessages(P) \in SUBSET P
    BY DEF LastMessages
  <2> QED
    BY <2>1, FS_Subset, FS_CardinalityType
<1> DEFINE f == [k \in 1..MaxLength |-> CHOOSE i \in P : Cardinality(After(P, i)) = k - 1]
<1>5. ASSUME NEW k \in 1..MaxLength
      PROVE  f[k] \in LastMessages(P) /\ Cardinality(After(P, f[k])) = k - 1
  <2>1. k \in 1..Cardinality(P)
    BY <1>2, <1>3, MaxLengthAssumption
  <2>2. \E i \in P : Cardinality(After(P, i)) = k - 1
    BY <1>2, <2>1
  <2>3. f[k] = CHOOSE i \in P : Cardinality(After(P, i)) = k - 1
    OBVIOUS
  <2> HIDE DEF f
  <2>4. f[k] \in P /\ Cardinality(After(P, f[k])) = k - 1
    BY <2>2, <2>3
  <2>5. k - 1 < MaxLength
    BY MaxLengthAssumption
  <2> QED
    BY <2>4, <2>5, LastIsAfter
<1>6. f \in Injection(1..MaxLength, LastMessages(P))
  <2>1. f \in [1..MaxLength -> LastMessages(P)]
    BY <1>5
  <2> HIDE DEF f
  <2>2. \A k, l \in 1..MaxLength : f[k] = f[l] => k = l
    <3> SUFFICES ASSUME NEW k \in 1..MaxLength, NEW l \in 1..MaxLength, f[k] = f[l]
                 PROVE  k = l
      OBVIOUS
    <3>1. k - 1 = l - 1
      BY <1>5
    <3> QED
      BY <3>1, MaxLengthAssumption
  <2> QED
    BY <2>1, <2>2 DEF Injection, IsInjective
<1>7. Cardinality(LastMessages(P)) >= MaxLength
  <2> HIDE DEF f
  <2>1. Cardinality(1..MaxLength) =< Cardinality(LastMessages(P))
    BY <1>4, <1>6, FS_Injection
  <2>2. Cardinality((0 + 1)..MaxLength) = MaxLength - 0
    <3>1. 0 \in Nat /\ 0 =< MaxLength
      BY MaxLengthAssumption
    <3> QED
      BY <3>1, MaxLengthAssumption, Interval
  <2>3. (0 + 1)..MaxLength = 1..MaxLength /\ MaxLength - 0 = MaxLength
    BY MaxLengthAssumption
  <2> QED
    BY <2>1, <2>2, <2>3
<1>8. ASSUME NEW x \in LastMessages(P)
      PROVE  Before(n, x)
  <2>1. x \in P /\ Cardinality(After(P, x)) < MaxLength
    BY LastIsAfter
  <2>2. Cardinality(After(P, x)) \in 0..(Cardinality(P) - 1)
    BY <1>2, <2>1
  <2>3. Cardinality(After(P, x)) < Cardinality(After(P, n))
    BY <1>2, <1>3, <2>1, <2>2, MaxLengthAssumption
  <2>4. x \in After(P, n)
    BY <1>2, <2>1, <2>3
  <2> QED
    BY <2>4 DEF After
<1> QED
  BY <1>4, <1>7, <1>8

\* A message that is not among the last of P is not among those of more.
LEMMA LastOfLast ==
  ASSUME NEW P \in SUBSET Messages, NEW B \in SUBSET Messages,
         IsFiniteSet(P), IsFiniteSet(B)
  PROVE  LastMessages(LastMessages(P) \cup B) = LastMessages(P \cup B)
<1>1. LastMessages(P) \in SUBSET P /\ IsFiniteSet(P \cup B) /\ P \cup B \in SUBSET Messages
  BY FS_Union DEF LastMessages
<1>2. LastMessages(P) \cup B \in SUBSET (P \cup B) /\ P \in SUBSET (P \cup B)
  BY <1>1
<1>3. IsFiniteSet(LastMessages(P) \cup B) /\ LastMessages(P) \cup B \in SUBSET Messages
  BY <1>1, <1>2, FS_Subset
<1>4. ASSUME NEW m \in LastMessages(P \cup B)
      PROVE  m \in LastMessages(LastMessages(P) \cup B)
  <2>1. m \in P \cup B /\ Cardinality(After(P \cup B, m)) < MaxLength
    BY LastIsAfter
  <2>2. /\ Cardinality(After(P, m)) < MaxLength
        /\ Cardinality(After(LastMessages(P) \cup B, m)) < MaxLength
    <3>1. /\ Cardinality(After(P \cup B, m)) \in Nat /\ Cardinality(After(P, m)) \in Nat
          /\ Cardinality(After(LastMessages(P) \cup B, m)) \in Nat
          /\ Cardinality(After(P, m)) =< Cardinality(After(P \cup B, m))
          /\ Cardinality(After(LastMessages(P) \cup B, m)) =< Cardinality(After(P \cup B, m))
      BY <1>1, <1>2, AfterFinite
    <3> QED
      BY <2>1, <3>1, MaxLengthAssumption
  <2>3. m \in LastMessages(P) \cup B
    BY <2>1, <2>2, LastIsAfter
  <2> QED
    BY <2>2, <2>3, LastIsAfter
<1>5. ASSUME NEW m \in LastMessages(LastMessages(P) \cup B)
      PROVE  m \in LastMessages(P \cup B)
  <2>1. m \in P \cup B /\ Cardinality(After(LastMessages(P) \cup B, m)) < MaxLength
    BY <1>2, LastIsAfter
  <2>2. After(P \cup B, m) = After(LastMessages(P) \cup B, m)
    <3> SUFFICES ASSUME NEW n \in After(P \cup B, m), n \notin LastMessages(P) \cup B
                 PROVE  FALSE
      BY <1>2 DEF After
    <3>1. n \in P /\ n \notin LastMessages(P) /\ Before(m, n)
      BY DEF After
    <3>2. /\ IsFiniteSet(LastMessages(P)) /\ Cardinality(LastMessages(P)) >= MaxLength
          /\ Cardinality(LastMessages(P)) \in Nat
          /\ \A x \in LastMessages(P) : Before(n, x)
      BY <3>1, LastIsFull
    <3>3. LastMessages(P) \in SUBSET After(LastMessages(P) \cup B, m)
      BY <1>1, <2>1, <3>1, <3>2, BeforeOrder DEF After
    <3>4. /\ IsFiniteSet(After(LastMessages(P) \cup B, m))
          /\ Cardinality(After(LastMessages(P) \cup B, m)) \in Nat
      BY <1>3, AfterFinite
    <3>5. Cardinality(LastMessages(P)) =< Cardinality(After(LastMessages(P) \cup B, m))
      BY <3>3, <3>4, FS_Subset
    <3> QED
      BY <2>1, <3>2, <3>4, <3>5, MaxLengthAssumption
  <2> QED
    BY <2>1, <2>2, LastIsAfter
<1> QED
  BY <1>4, <1>5

\* What a push leaves of the history and of the new messages.
LEMMA PushFacts ==
  ASSUME items \in Seq(Messages), NEW batch \in Seq(Messages), Push(batch)
  PROVE  /\ items' \in Seq(Messages)
         /\ Range(items') = LastMessages(FirstOfEach(Range(items) \cup Range(batch)))
<1> DEFINE seq == items \o batch
           s == Sorted(seq)
           u == UniqById(s)
<1>1. seq \in Seq(Messages)
  OBVIOUS
<1>2. Range(seq) = Range(items) \cup Range(batch)
  <2>1. /\ DOMAIN items = 1..Len(items) /\ Len(items) \in Nat
        /\ DOMAIN batch = 1..Len(batch) /\ Len(batch) \in Nat
        /\ DOMAIN seq = 1..(Len(items) + Len(batch))
        /\ \A i \in DOMAIN seq :
             seq[i] = IF i =< Len(items) THEN items[i] ELSE batch[i - Len(items)]
    OBVIOUS
  <2> HIDE DEF seq
  <2>2. \A i \in DOMAIN items : i \in DOMAIN seq /\ seq[i] = items[i]
    BY <2>1
  <2>3. \A i \in DOMAIN batch : i + Len(items) \in DOMAIN seq /\ seq[i + Len(items)] = batch[i]
    BY <2>1
  <2>4. \A i \in DOMAIN seq : \/ i \in DOMAIN items /\ seq[i] = items[i]
                              \/ i - Len(items) \in DOMAIN batch /\ seq[i] = batch[i - Len(items)]
    BY <2>1
  <2>5. /\ Range(seq) = {seq[i] : i \in DOMAIN seq}
        /\ Range(items) = {items[i] : i \in DOMAIN items}
        /\ Range(batch) = {batch[i] : i \in DOMAIN batch}
    BY DEF Range
  <2>6. \A m \in Range(seq) : m \in Range(items) \cup Range(batch)
    BY <2>4, <2>5
  <2>7. \A m \in Range(items) \cup Range(batch) : m \in Range(seq)
    BY <2>2, <2>3, <2>5
  <2> QED
    BY <2>6, <2>7
<1> HIDE DEF seq
<1>3. /\ s \in Seq(Messages) /\ Range(s) = Range(seq)
      /\ \A k, l \in DOMAIN s : k < l => ~Before(s[l], s[k])
  BY <1>1, SortedFacts
<1> HIDE DEF s
<1>4. /\ u \in Seq(Messages) /\ InOrder(u) /\ Range(u) = FirstOfEach(Range(s))
  BY <1>3, UniqFacts
<1> HIDE DEF u
<1>5. Newest(u) \in Seq(Messages) /\ Range(Newest(u)) = LastMessages(Range(u))
  BY <1>4, NewestFacts
<1>6. items' = Newest(u)
  BY DEF Push, u, s, seq
<1> QED
  BY <1>2, <1>3, <1>4, <1>5, <1>6

\* Each id of P has a first message.
LEMMA FirstExists ==
  ASSUME NEW P \in SUBSET Messages, NEW m \in P
  PROVE  \E n \in FirstOfEach(P) : n.id = m.id /\ NotAfter(n, m)
<1> DEFINE same == {n \in P : n.id = m.id}
           stamps == {n.lamport : n \in same}
<1>1. stamps \in SUBSET Nat /\ stamps # {}
  BY MessagesAssumption
<1>2. PICK t \in stamps : \A x \in stamps : t =< x
  <2> HIDE DEF stamps
  <2> QED
    BY <1>1, LeastExists
<1>3. PICK n \in same : n.lamport = t
  BY <1>2
<1>4. \A x \in same : NotAfter(n, x)
  <2> SUFFICES ASSUME NEW x \in same PROVE NotAfter(n, x)
    OBVIOUS
  <2>1. n.lamport =< x.lamport /\ n.id = x.id
    BY <1>2, <1>3
  <2>2. n.lamport \in Nat /\ x.lamport \in Nat /\ IdRank[n.id] \in Nat
    BY MessagesAssumption
  <2> QED
    BY <2>1, <2>2 DEF NotAfter
<1>5. n \in FirstOfEach(P)
  BY <1>3, <1>4 DEF FirstOfEach
<1> QED
  BY <1>3, <1>4, <1>5

\* Leaving out what is not first of its id changes nothing for later pushes.
LEMMA FirstOfFirst ==
  ASSUME NEW P \in SUBSET Messages, NEW B \in SUBSET Messages
  PROVE  FirstOfEach(FirstOfEach(P) \cup B) = FirstOfEach(P \cup B)
<1>1. ASSUME NEW m \in FirstOfEach(P \cup B)
      PROVE  m \in FirstOfEach(FirstOfEach(P) \cup B)
  BY DEF FirstOfEach
<1>2. ASSUME NEW m \in FirstOfEach(FirstOfEach(P) \cup B)
      PROVE  m \in FirstOfEach(P \cup B)
  <2> SUFFICES ASSUME NEW n \in P, n.id = m.id PROVE NotAfter(m, n)
    BY DEF FirstOfEach
  <2>1. PICK f \in FirstOfEach(P) : f.id = n.id /\ NotAfter(f, n)
    BY FirstExists
  <2>2. NotAfter(m, f)
    BY <2>1 DEF FirstOfEach
  <2>3. m \in Messages /\ f \in Messages
    BY DEF FirstOfEach
  <2> QED
    BY <2>1, <2>2, <2>3, BeforeOrder
<1> QED
  BY <1>1, <1>2

\* More messages have no fewer ids.
LEMMA MoreFirst ==
  ASSUME NEW Q \in SUBSET Messages, IsFiniteSet(Q), NEW P \in SUBSET Q
  PROVE  /\ IsFiniteSet(FirstOfEach(Q)) /\ Cardinality(FirstOfEach(Q)) \in Nat
         /\ Cardinality(FirstOfEach(P)) \in Nat
         /\ Cardinality(FirstOfEach(P)) =< Cardinality(FirstOfEach(Q))
<1> DEFINE f == [m \in FirstOfEach(P) |-> CHOOSE n \in FirstOfEach(Q) : n.id = m.id]
<1>1. IsFiniteSet(FirstOfEach(Q)) /\ Cardinality(FirstOfEach(Q)) \in Nat
  <2>1. FirstOfEach(Q) \in SUBSET Q
    BY DEF FirstOfEach
  <2> QED
    BY <2>1, FS_Subset, FS_CardinalityType
<1>2. ASSUME NEW m \in FirstOfEach(P)
      PROVE  f[m] \in FirstOfEach(Q) /\ f[m].id = m.id
  <2>1. \E n \in FirstOfEach(Q) : n.id = m.id
    BY FirstExists DEF FirstOfEach
  <2>2. f[m] = CHOOSE n \in FirstOfEach(Q) : n.id = m.id
    OBVIOUS
  <2> HIDE DEF f
  <2> QED
    BY <2>1, <2>2
<1>3. f \in [FirstOfEach(P) -> FirstOfEach(Q)]
  BY <1>2
<1>4. ASSUME NEW m \in FirstOfEach(P), NEW n \in FirstOfEach(P), m.id = n.id
      PROVE  m = n
  <2>1. NotAfter(m, n) /\ NotAfter(n, m) /\ m \in Messages /\ n \in Messages
    BY <1>4 DEF FirstOfEach
  <2> QED
    BY <2>1, BeforeOrder
<1>5. f \in Injection(FirstOfEach(P), FirstOfEach(Q))
  <2> HIDE DEF f
  <2>1. \A m, n \in FirstOfEach(P) : f[m] = f[n] => m = n
    BY <1>2, <1>4
  <2> QED
    BY <1>3, <2>1 DEF Injection, IsInjective
<1>6. /\ IsFiniteSet(FirstOfEach(P))
      /\ Cardinality(FirstOfEach(P)) =< Cardinality(FirstOfEach(Q))
  <2> HIDE DEF f
  <2> QED
    BY <1>1, <1>5, FS_Injection
<1> QED
  BY <1>1, <1>6, FS_CardinalityType

\* A history that is not full loses nothing.
LEMMA LastOfFew ==
  ASSUME NEW S \in SUBSET Messages, IsFiniteSet(S), Cardinality(S) =< MaxLength
  PROVE  LastMessages(S) = S
<1> SUFFICES ASSUME NEW m \in S PROVE Cardinality(After(S, m)) < MaxLength
  BY LastIsAfter
<1>1. After(S, m) \in SUBSET S /\ After(S, m) # S
  BY BeforeOrder DEF After
<1>2. /\ Cardinality(After(S, m)) \in Nat /\ Cardinality(S) \in Nat
      /\ Cardinality(After(S, m)) =< Cardinality(S)
      /\ Cardinality(After(S, m)) # Cardinality(S)
  BY <1>1, FS_Subset, FS_CardinalityType
<1> QED
  BY <1>2, MaxLengthAssumption

\* The inductive invariant.
HistoryInv ==
  /\ items \in Seq(Messages)
  /\ pushed \in SUBSET Messages /\ IsFiniteSet(pushed)
  /\ Range(items) \subseteq pushed
  /\ SetOfFirstStamps
  /\ NewestEverPushed

LEMMA HistoryInitially == HistoryInit => HistoryInv
<1> SUFFICES ASSUME HistoryInit PROVE HistoryInv
  OBVIOUS
<1>1. items = <<>> /\ pushed = {} /\ Range(items) = {}
  BY DEF HistoryInit, Range
<1>2. items \in Seq(Messages) /\ IsFiniteSet(pushed) /\ FirstStamps = {}
  BY <1>1, FS_EmptySet DEF FirstStamps
<1> QED
  BY <1>1, <1>2 DEF HistoryInv, SetOfFirstStamps, NewestEverPushed

LEMMA BatchFacts ==
  ASSUME NEW batch \in SeqOf(Messages, MaxItems)
  PROVE  batch \in Seq(Messages) /\ Range(batch) \in SUBSET Messages /\ IsFiniteSet(Range(batch))
<1>1. PICK n \in 0..MaxItems : batch \in [1..n -> Messages]
  BY DEF SeqOf
<1>2. n \in Nat
  BY MaxLengthAssumption
<1>3. IsFiniteSet(1..n)
  BY <1>2, FS_Interval
<1>4. batch \in Surjection(1..n, Range(batch))
  BY <1>1 DEF Surjection, Range
<1> QED
  BY <1>1, <1>2, <1>3, <1>4, FS_Surjection DEF Range

LEMMA HistoryStep == HistoryInv /\ [HistoryNext]_historyVars => HistoryInv'
<1> SUFFICES ASSUME HistoryInv, [HistoryNext]_historyVars PROVE HistoryInv'
  OBVIOUS
<1>1. CASE UNCHANGED historyVars
  BY <1>1 DEF HistoryInv, historyVars, SetOfFirstStamps, NewestEverPushed, FirstStamps, Range
<1>2. CASE HistoryNext
  <2>1. PICK batch \in SeqOf(Messages, MaxItems) : Push(batch)
    BY <1>2 DEF HistoryNext
  <2> DEFINE P == pushed
             B == Range(batch)
             H == Range(items)
  <2>2. /\ batch \in Seq(Messages) /\ B \in SUBSET Messages /\ IsFiniteSet(B)
        /\ P \in SUBSET Messages /\ IsFiniteSet(P) /\ H \in SUBSET P
    BY BatchFacts DEF HistoryInv
  <2>3. items' \in Seq(Messages) /\ Range(items') = LastMessages(FirstOfEach(H \cup B))
    BY <2>1, <2>2, PushFacts DEF HistoryInv
  <2>4. pushed' = P \cup B
    BY <2>1 DEF Push
  <2>5. FirstStamps = FirstOfEach(P) /\ FirstStamps' = FirstOfEach(P \cup B)
    BY <2>4 DEF FirstStamps, FirstOfEach
  <2> DEFINE H1 == Range(items')
  <2>6. IsFiniteSet(P \cup B) /\ P \cup B \in SUBSET Messages
    BY <2>2, FS_Union
  <2>7. H1 \in SUBSET (P \cup B)
    BY <2>2, <2>3 DEF LastMessages, FirstOfEach
  <2>8. SetOfFirstStamps'
    <3> SUFFICES ASSUME Cardinality(FirstOfEach(P \cup B)) =< MaxLength
                 PROVE  H1 = FirstOfEach(P \cup B)
      BY <2>5 DEF SetOfFirstStamps, Range
    <3>1. /\ IsFiniteSet(FirstOfEach(P \cup B)) /\ Cardinality(FirstOfEach(P \cup B)) \in Nat
          /\ Cardinality(FirstOfEach(P)) \in Nat
          /\ Cardinality(FirstOfEach(P)) =< Cardinality(FirstOfEach(P \cup B))
      <4>1. P \in SUBSET (P \cup B)
        OBVIOUS
      <4> HIDE DEF P, B
      <4> QED
        BY <2>6, <4>1, MoreFirst
    <3>2. Cardinality(FirstOfEach(P)) =< MaxLength
      BY <3>1, MaxLengthAssumption
    <3>3. H = FirstOfEach(P)
      BY <2>5, <3>2 DEF HistoryInv, SetOfFirstStamps
    <3>4. FirstOfEach(H \cup B) = FirstOfEach(P \cup B)
      BY <2>2, <3>3, FirstOfFirst
    <3>5. FirstOfEach(P \cup B) \in SUBSET Messages
      BY <2>6 DEF FirstOfEach
    <3> QED
      BY <2>3, <3>1, <3>4, <3>5, LastOfFew
  <2>9. NewestEverPushed'
    <3>1. ASSUME FirstOfEach(P \cup B) = P \cup B
          PROVE  H1 = LastMessages(P \cup B)
      <4>1. \A S \in SUBSET (P \cup B) : FirstOfEach(S) = S
        BY <3>1 DEF FirstOfEach
      <4>2. FirstOfEach(P) = P /\ FirstOfEach(H \cup B) = H \cup B
        BY <2>2, <4>1
      <4>3. \A m \in P : m \in H <=> m \in LastMessages(P)
        BY <2>5, <4>2 DEF HistoryInv, NewestEverPushed, LastMessages
      <4>4. H = LastMessages(P)
        BY <2>2, <4>3 DEF LastMessages
      <4> QED
        BY <2>2, <2>3, <4>2, <4>4, LastOfLast
    <3>2. \A m \in P \cup B : m \in LastMessages(P \cup B) <=>
              Cardinality({n \in P \cup B : Before(m, n)}) < MaxLength
      BY DEF LastMessages
    <3> HIDE DEF P, B
    <3> QED
      BY <2>4, <2>5, <3>1, <3>2 DEF NewestEverPushed, Range
  <2> QED
    BY <2>3, <2>4, <2>6, <2>7, <2>8, <2>9 DEF HistoryInv
<1> QED
  BY <1>1, <1>2

\* While the limit is not exceeded, the local history is the set MessageChannel takes it
\* for, whatever is pushed in whatever batches (MemLocalHistory.push).
THEOREM HistoryIsSet == HistorySpec => []SetOfFirstStamps
<1>1. HistoryInv => SetOfFirstStamps
  BY DEF HistoryInv
<1> QED
  BY <1>1, HistoryInitially, HistoryStep, PTL DEF HistorySpec

\* Beyond it, the history holds the newest messages ever pushed, in whatever order and
\* batches they came (MemLocalHistory.push).
THEOREM HistoryIsNewest == HistorySpec => []NewestEverPushed
<1>1. HistoryInv => NewestEverPushed
  BY DEF HistoryInv
<1> QED
  BY <1>1, HistoryInitially, HistoryStep, PTL DEF HistorySpec

-----------------------------------------------------------------------------
(* Repair manager. *)

RepairTypes ==
  /\ repair \in Buffers(OutgoingItems(Entries), Entries)
  /\ now \in Nat

RepairInv == RepairTypes /\ Len(repair.in) =< BufferSize

\* What AnswersAccounted says of one call.
AnswersAccountedIn ==
  \A id \in Ids : Has(repair.in, id) /\ ~Has(repair'.in, id) =>
    \/ last'.call = "answered" /\ (id \in last'.ids \/ id \notin held)
    \/ last'.call = "received" /\ id \in last'.ids
    \/ last'.call = "requested" /\ Len(repair'.in) = BufferSize

LEMMA EntriesOfBatch ==
  ASSUME NEW entries \in SeqOf(Entries, MaxBatch)
  PROVE  entries \in Seq(Entries)
<1>1. PICK n \in 0..MaxBatch : entries \in [1..n -> Entries]
  BY DEF SeqOf
<1>2. n \in Nat
  BY BoundsAssumption
<1> QED
  BY <1>1, <1>2

LEMMA RepairInitially == RepairInit => RepairInv
<1> SUFFICES ASSUME RepairInit PROVE RepairInv
  OBVIOUS
<1>1. /\ repair = [out |-> <<>>, in |-> <<>>]
      /\ <<>> \in Seq(OutgoingItems(Entries)) /\ <<>> \in Seq(IncomingItems(Entries))
      /\ Len(<<>>) = 0
  BY DEF RepairInit, EmptyRepair
<1> QED
  BY <1>1, BufferSizeAssumption DEF RepairInit, RepairInv, RepairTypes, Buffers

\* What leaves the incoming buffer in a sweep was due.
LEMMA SweptWasDue ==
  ASSUME RepairTypes, NEW id, Has(repair.in, id), ~Has(AfterSweep(repair, now).in, id)
  PROVE  id \in ReadyIds(repair, now)
<1> DEFINE later == {i \in DOMAIN repair.in : repair.in[i].t > now}
<1>1. repair.in \in Seq(IncomingItems(Entries)) /\ now \in Nat
  BY DEF RepairTypes, Buffers
<1>2. /\ DOMAIN repair.in = 1..Len(repair.in) /\ Len(repair.in) \in Nat
      /\ \A i \in DOMAIN repair.in : repair.in[i].t \in Nat
  <2>1. DOMAIN repair.in = 1..Len(repair.in) /\ Len(repair.in) \in Nat
    BY <1>1, LenProperties
  <2>2. \A i \in 1..Len(repair.in) : repair.in[i] \in IncomingItems(Entries)
    BY <1>1, ElementOfSeq
  <2> QED
    BY <2>1, <2>2 DEF IncomingItems
<1>3. AfterSweep(repair, now).in = At(repair.in, later)
  BY DEF AfterSweep, RepairTypes, Buffers
<1>4. PICK i \in DOMAIN repair.in : repair.in[i].entry.id = id
  BY DEF Has
<1>5. i \notin later
  <2>1. SUFFICES ASSUME i \in later PROVE FALSE
    OBVIOUS
  <2>2. later \in SUBSET (1..Len(repair.in))
    BY <1>2
  <2> HIDE DEF later
  <2>3. PICK at : Picks(at, repair.in, later)
    BY <1>2, <2>2, AtPicks
  <2>4. PICK k \in 1..Cardinality(later) : at[k] = i
    BY <2>1, <2>3 DEF Picks
  <2>5. k \in DOMAIN At(repair.in, later) /\ At(repair.in, later)[k] = repair.in[i]
    BY <2>3, <2>4 DEF Picks
  <2> QED
    BY <1>3, <1>4, <2>5 DEF Has
<1>6. repair.in[i].t =< now
  BY <1>1, <1>2, <1>5
<1> QED
  BY <1>4, <1>6 DEF ReadyIds

LEMMA SweepShortens ==
  ASSUME RepairInv
  PROVE  Len(AfterSweep(repair, now).in) =< BufferSize
<1> DEFINE later == {i \in DOMAIN repair.in : repair.in[i].t > now}
<1>1. repair.in \in Seq(IncomingItems(Entries)) /\ Len(repair.in) =< BufferSize
  BY DEF RepairInv, RepairTypes, Buffers
<1>2. later \in SUBSET (1..Len(repair.in)) /\ Len(repair.in) \in Nat
  BY <1>1, LenProperties
<1>3. AfterSweep(repair, now).in = At(repair.in, later)
  BY DEF AfterSweep, RepairInv, RepairTypes, Buffers
<1> HIDE DEF later
<1>4. Len(At(repair.in, later)) = Cardinality(later) /\ Cardinality(later) =< Len(repair.in)
  BY <1>2, AtLength
<1>5. Cardinality(later) \in Nat
  <2>1. IsFiniteSet(1..Len(repair.in))
    BY <1>2, FS_Interval
  <2> QED
    BY <1>2, <2>1, FS_Subset, FS_CardinalityType
<1> QED
  BY <1>1, <1>2, <1>3, <1>4, <1>5, BufferSizeAssumption

LEMMA RepairStep ==
  RepairInv /\ [RepairNext]_repairVars =>
    /\ RepairInv'
    /\ AnswersAccountedIn \/ UNCHANGED repairVars
<1> SUFFICES ASSUME RepairInv, [RepairNext]_repairVars
             PROVE  RepairInv' /\ (AnswersAccountedIn \/ UNCHANGED repairVars)
  OBVIOUS
<1>0. /\ repair \in Buffers(OutgoingItems(Entries), Entries) /\ now \in Nat
      /\ Len(repair.in) =< BufferSize
      /\ repair.in \in Seq(IncomingItems(Entries)) /\ repair.out \in Seq(OutgoingItems(Entries))
      /\ Len(repair.in) \in Nat /\ BufferSize \in Nat
  BY LenProperties, BufferSizeAssumption DEF RepairInv, RepairTypes, Buffers
<1>1. ASSUME NEW entries \in SeqOf(Entries, MaxBatch), Missing(entries)
      PROVE  RepairInv' /\ AnswersAccountedIn
  <2>1. entries \in Seq(Entries)
    BY EntriesOfBatch
  <2>2. \A e \in Entries : OutgoingItem(e, now + ReqDelay(Self, e.id)) \in OutgoingItems(Entries)
    BY <1>0, DelaysAssumption DEF OutgoingItem, OutgoingItems
  <2>3. repair' \in Buffers(OutgoingItems(Entries), Entries)
    BY <1>0, <1>1, <2>1, <2>2, MarkMissingFacts DEF Missing
  <2>4. repair'.in = repair.in /\ now' = now
    BY <1>0, <1>1 DEF Missing, MarkDependenciesMissing, Buffers
  <2> QED
    BY <1>0, <2>3, <2>4 DEF RepairInv, RepairTypes, AnswersAccountedIn
<1>2. ASSUME NEW requests \in SeqOf(Entries, MaxBatch), Requested(requests)
      PROVE  RepairInv' /\ AnswersAccountedIn
  <2>1. requests \in Seq(Entries)
    BY EntriesOfBatch
  <2>2. repair' \in Buffers(OutgoingItems(Entries), Entries) /\ Promised(repair, repair')
    BY <1>0, <1>2, <2>1, DelaysAssumption, ProcessRequestsFacts DEF Requested
  <2>3. now' = now /\ last'.call = "requested"
    BY <1>2 DEF Requested, Did
  <2> QED
    BY <1>0, <2>2, <2>3 DEF Promised, RepairInv, RepairTypes, AnswersAccountedIn
<1>3. ASSUME NEW id \in Ids, Received(id)
      PROVE  RepairInv' /\ AnswersAccountedIn
  <2>1. /\ repair' = [out |-> Drop(repair.out, id), in |-> Drop(repair.in, id)]
        /\ now' = now /\ last'.call = "received" /\ last'.ids = {id}
    BY <1>3 DEF Received, Did, MarkMessageReceived
  <2>2. /\ Drop(repair.out, id) \in Seq(OutgoingItems(Entries))
        /\ Drop(repair.in, id) \in Seq(IncomingItems(Entries))
        /\ Len(Drop(repair.in, id)) =< Len(repair.in)
        /\ \A other : other # id /\ Has(repair.in, other) => Has(Drop(repair.in, id), other)
    BY <1>0, DropFacts
  <2>3. Len(Drop(repair.in, id)) =< BufferSize
    BY <1>0, <2>2, LenProperties
  <2> QED
    BY <1>0, <2>1, <2>2, <2>3 DEF RepairInv, RepairTypes, Buffers, AnswersAccountedIn
<1>4. CASE Ask
  <2>1. repair' \in Buffers(OutgoingItems(Entries), Entries)
    BY <1>0, <1>4, RequestsFacts DEF Ask
  <2>2. repair'.in = repair.in /\ now' = now
    BY <1>0, <1>4 DEF Ask, MarkRequested, Buffers
  <2> QED
    BY <1>0, <2>1, <2>2 DEF RepairInv, RepairTypes, AnswersAccountedIn
<1>5. CASE Answer
  <2>1. /\ repair' = AfterSweep(repair, now) /\ now' = now
        /\ last'.call = "answered" /\ last'.ids = ReadyIds(repair, now) \cap held
    BY <1>5 DEF Answer, Did
  <2>2. repair' \in Buffers(OutgoingItems(Entries), Entries)
    BY <1>0, <2>1, AfterSweepFacts
  <2>3. Len(repair'.in) =< BufferSize
    BY <2>1, SweepShortens
  <2>4. AnswersAccountedIn
    BY <2>1, SweptWasDue DEF AnswersAccountedIn, RepairInv
  <2> QED
    BY <1>0, <2>1, <2>2, <2>3, <2>4 DEF RepairInv, RepairTypes
<1>6. ASSUME NEW id \in Ids, Hold(id) \/ Evict(id)
      PROVE  RepairInv' /\ AnswersAccountedIn
  BY <1>6 DEF Hold, Evict, RepairInv, RepairTypes, AnswersAccountedIn
<1>7. CASE Tick
  BY <1>0, <1>7 DEF Tick, RepairInv, RepairTypes, AnswersAccountedIn
<1>8. CASE UNCHANGED repairVars
  BY <1>8 DEF repairVars, RepairInv, RepairTypes
<1> QED
  BY <1>1, <1>2, <1>3, <1>4, <1>5, <1>6, <1>7, <1>8 DEF RepairNext

\* Whatever a participant promised to send again, it sends, or it has no longer, or
\* hears from another, or drops from a full buffer, in any order of the calls
\* (RepairManager).
THEOREM PromisesAreKept == RepairSpec => AnswersAccounted
<1>1. RepairInit => RepairInv
  BY RepairInitially
<1>2. RepairInv /\ [RepairNext]_repairVars => RepairInv'
  BY RepairStep
<1>3. RepairInv /\ [RepairNext]_repairVars => [AnswersAccountedIn]_repairVars
  BY RepairStep
<1> QED
  BY <1>1, <1>2, <1>3, PTL DEF RepairSpec, AnswersAccounted, AnswersAccountedIn

-----------------------------------------------------------------------------
(* Health                                                                  *)

HealthTypes ==
    /\ connected \in SUBSET Links
    /\ healthStarted \in BOOLEAN /\ debounced \in BOOLEAN
    /\ assessed \in [Assessments -> (SUBSET Links) \cup {None}]
    /\ newest # None => newest \in Assessments /\ assessed[newest] # None

\* The peers of these connections that speak one of the protocols have a connection.
StillConnected(links) ==
    \A speakers \in {FilterPeers, LightPushPeers} :
        (\E c \in links : c[1] \in speakers) => \E c \in connected : c[1] \in speakers

\* What a healthy value says.
PeersOfBoth ==
    /\ \E c \in connected : c[1] \in FilterPeers
    /\ \E c \in connected : c[1] \in LightPushPeers

\* While no other is due, the newest assessment has read peers that are still there,
\* or it has ended, and what it wrote holds unless an older one wrote after it.
NewestIsCurrent ==
    healthStarted /\ ~debounced =>
        IF newest # None THEN StillConnected(assessed[newest])
        ELSE ~overtaken /\ health # "Unhealthy" => PeersOfBoth

HealthInv == HealthTypes /\ NewestIsCurrent

\* Whatever the value was, a healthy one needs a connection of each kind.
LEMMA HealthyNeedsBoth ==
    ASSUME NEW links, NEW value, HealthOf(links, value) # "Unhealthy"
    PROVE  /\ \E c \in links : c[1] \in FilterPeers
           /\ \E c \in links : c[1] \in LightPushPeers
<1>1. \A speakers : Cardinality({c \in links : c[1] \in speakers}) # 0
                     => \E c \in links : c[1] \in speakers
      <2> SUFFICES ASSUME NEW speakers, ~\E c \in links : c[1] \in speakers
                   PROVE  Cardinality({c \in links : c[1] \in speakers}) = 0
          OBVIOUS
      <2>1. {c \in links : c[1] \in speakers} = {}
            OBVIOUS
      <2> QED
          BY <2>1, FS_EmptySet
<1>2. /\ Cardinality({c \in links : c[1] \in FilterPeers}) # 0
      /\ Cardinality({c \in links : c[1] \in LightPushPeers}) # 0
      BY DEF HealthOf
<1> QED
    BY <1>1, <1>2

LEMMA HealthInitially == HealthInit => HealthInv
BY NoneIsNoAssessment DEF HealthInit, HealthInv, HealthTypes, NewestIsCurrent

\* A peer of the network goes unnoticed only while another connection of it stays.
LEMMA ClosingKeeps ==
    ASSUME HealthInv, NEW c \in Links, CloseLink(c)
    PROVE  HealthInv'
<1>1. HealthTypes'
      BY DEF CloseLink, HealthInv, HealthTypes
<1>2. ASSUME healthStarted, ~debounced'
      PROVE  NewestIsCurrent'
      <2>1. ~debounced /\ \E other \in connected' : other[1] = c[1]
            BY <1>2 DEF CloseLink
      <2>2. connected' = connected \ {c}
            BY DEF CloseLink
      <2>3. \A speakers : (\E d \in connected : d[1] \in speakers)
                          => \E d \in connected' : d[1] \in speakers
            BY <2>1, <2>2
      <2> QED
          BY <1>2, <2>1, <2>3
             DEF CloseLink, HealthInv, NewestIsCurrent, StillConnected, PeersOfBoth
<1>3. NewestIsCurrent'
      BY <1>2 DEF NewestIsCurrent, CloseLink
<1> QED
    BY <1>1, <1>3 DEF HealthInv

LEMMA AssessingKeeps ==
    ASSUME HealthInv, NEW s \in Assessments, AssessHealth(s)
    PROVE  HealthInv'
<1>1. CASE connected = {}
      BY <1>1 DEF AssessHealth, HealthInv, HealthTypes, NewestIsCurrent
<1>2. CASE connected # {}
      <2>1. /\ assessed' = [assessed EXCEPT ![s] = connected] /\ newest' = s
            /\ UNCHANGED <<connected, healthStarted>> /\ debounced' = FALSE
            BY <1>2 DEF AssessHealth
      <2>2. assessed'[s] = connected /\ connected # None
            BY <2>1, NoneIsNoSet DEF HealthInv, HealthTypes
      <2>3. HealthTypes'
            BY <2>1, <2>2 DEF HealthInv, HealthTypes
      <2>4. s # None
            BY NoneIsNoAssessment
      <2>5. NewestIsCurrent'
            BY <2>1, <2>2, <2>4 DEF NewestIsCurrent, StillConnected
      <2> QED
          BY <2>3, <2>5 DEF HealthInv
<1> QED
    BY <1>1, <1>2

LEMMA UpdatingKeeps ==
    ASSUME HealthInv, NEW s \in Assessments, UpdateHealth(s)
    PROVE  HealthInv'
<1>1. PICK found \in SUBSET assessed[s] : health' = HealthOf(found, health)
      BY DEF UpdateHealth
<1>2. /\ assessed' = [assessed EXCEPT ![s] = None]
      /\ newest' = IF s = newest THEN None ELSE newest
      /\ overtaken' = (s # newest)
      /\ UNCHANGED <<connected, healthStarted, debounced>>
      BY DEF UpdateHealth
<1>3. HealthTypes'
      BY <1>2, NoneIsNoAssessment DEF HealthInv, HealthTypes
<1>4. CASE s = newest
      <2>1. newest # None /\ newest' = None
            BY <1>2, <1>4, NoneIsNoAssessment
      <2>2. ASSUME healthStarted, ~debounced, health' # "Unhealthy"
            PROVE  PeersOfBoth
            <3>1. StillConnected(assessed[s])
                  BY <1>4, <2>1, <2>2 DEF HealthInv, NewestIsCurrent
            <3>2. /\ \E c \in found : c[1] \in FilterPeers
                  /\ \E c \in found : c[1] \in LightPushPeers
                  BY <1>1, <2>2, HealthyNeedsBoth
            <3> QED
                BY <1>1, <3>1, <3>2 DEF StillConnected, PeersOfBoth
      <2>3. PeersOfBoth' <=> PeersOfBoth
            BY <1>2 DEF PeersOfBoth
      <2> QED
          BY <1>2, <1>3, <2>1, <2>2, <2>3 DEF HealthInv, NewestIsCurrent
<1>5. CASE s # newest
      <2>1. newest # None => assessed'[newest] = assessed[newest]
            BY <1>2, <1>5 DEF HealthInv, HealthTypes
      <2> QED
          BY <1>2, <1>3, <1>5, <2>1 DEF HealthInv, NewestIsCurrent, StillConnected
<1> QED
    BY <1>4, <1>5

LEMMA HealthStep == HealthInv /\ [HealthNext]_healthVars => HealthInv'
<1> SUFFICES ASSUME HealthInv, [HealthNext]_healthVars
             PROVE  HealthInv'
    OBVIOUS
<1> USE DEF HealthInv, HealthTypes, NewestIsCurrent, StillConnected, PeersOfBoth
<1>1. CASE StartHealth
      BY <1>1 DEF StartHealth
<1>2. CASE StopHealth
      BY <1>2 DEF StopHealth
<1>3. ASSUME NEW c \in Links, OpenLink(c)
      PROVE  HealthInv'
      BY <1>3 DEF OpenLink
<1>4. ASSUME NEW c \in Links, PeerIdentified(c)
      PROVE  HealthInv'
      BY <1>4 DEF PeerIdentified
<1>5. CASE UNCHANGED healthVars
      BY <1>5 DEF healthVars
<1> QED
    BY <1>1, <1>2, <1>3, <1>4, <1>5, ClosingKeeps, AssessingKeeps, UpdatingKeeps DEF HealthNext

\* A started indicator that shows a healthy node has a connected peer for filter and
\* one for light push, for any connections, protocols, failing lookups and assessments
\* that overlap, unless an older assessment wrote last (assessHealth, the listeners).
THEOREM HealthyNodeHasPeers == HealthSpec => []HealthyHasPeers
<1>1. HealthInv => HealthyHasPeers
      BY NoneIsNoAssessment
         DEF HealthInv, HealthTypes, NewestIsCurrent, PeersOfBoth, HealthyHasPeers
<1> QED
      BY HealthInitially, HealthStep, <1>1, PTL DEF HealthSpec

-----------------------------------------------------------------------------
(* Streams                                                                 *)

StreamCount == MaxStreams \in Nat

\* A stream, without what the numbers of its connection may be.
Statuses == {"negotiating", "open", "failed", "closing", "gone"}
Stream(C) == [connection : C, by : StreamUsers \cup {"pool"}, status : Statuses, locked : BOOLEAN]
IsStream(s) == \E C : s \in Stream(C)

StreamTypes ==
    /\ streams = [i \in 1..Len(streams) |-> streams[i]] /\ Len(streams) \in Nat
    /\ \A i \in 1..Len(streams) : IsStream(streams[i])
    /\ users = [u \in StreamUsers |-> [does |-> users[u].does, stream |-> users[u].stream]]

\* A stream in use is locked, so that nobody else finds it; the one that a request
\* creates is its own, locked by another or not.
UsedIsLocked ==
    \A u \in StreamUsers : users[u].does = "uses" =>
        users[u].stream \in 1..Len(streams) /\ streams[users[u].stream].locked
CreatesItsOwn ==
    \A u \in StreamUsers : users[u].does = "creates" =>
        users[u].stream \in 1..Len(streams) /\ streams[users[u].stream].by = u

\* Of two requests with one stream, one created it.
OneIsCreator ==
    \A u, v \in StreamUsers :
        u # v /\ users[u].does = "uses" /\ users[v].does = "uses"
              /\ users[u].stream = users[v].stream =>
            streams[users[u].stream].by \in {u, v}

StreamInv == StreamTypes /\ UsedIsLocked /\ CreatesItsOwn /\ OneIsCreator

\* A third request would make two creators (getStream).
LEMMA NoThird == OneIsCreator => SharedOnlyWithCreator
BY DEF OneIsCreator, SharedOnlyWithCreator

\* What getOpenStreamForCodec finds is open to all (getOpenStreamForCodec).
LEMMA FoundIsUnlocked ==
    ASSUME StreamTypes, getOpenStreamForCodec # NoStream
    PROVE  getOpenStreamForCodec \in 1..Len(streams) /\ ~streams[getOpenStreamForCodec].locked
<1> DEFINE found == {i \in DOMAIN streams : /\ connections # {}
                                            /\ streams[i].connection = selectOpenConnection
                                            /\ streams[i].status \in {"open", "closing"}}
           usable == {i \in found : /\ \A j \in found : i <= j
                                    /\ streams[i].status = "open" /\ ~streams[i].locked}
<1>1. usable # {}
      BY DEF getOpenStreamForCodec
<1>2. getOpenStreamForCodec = CHOOSE i \in usable : TRUE
      BY <1>1 DEF getOpenStreamForCodec
<1>3. getOpenStreamForCodec \in usable
      BY <1>1, <1>2
<1> QED
      BY <1>3 DEF StreamTypes

LEMMA StreamsInitially == StreamsInit => StreamInv
BY DEF StreamsInit, StreamInv, StreamTypes, UsedIsLocked, CreatesItsOwn, OneIsCreator

\* A new stream joins at the end, and changes nothing of the others
\* (createStream).
LEMMA CreateKeeps ==
    ASSUME StreamTypes, NEW by \in StreamUsers \cup {"pool"}, createStream(by)
    PROVE  /\ streams' = [i \in 1..Len(streams') |-> streams'[i]]
           /\ Len(streams') = Len(streams) + 1
           /\ \A i \in 1..Len(streams) : streams'[i] = streams[i]
           /\ IsStream(streams'[Len(streams) + 1])
           /\ streams'[Len(streams) + 1].by = by
           /\ \A i \in 1..Len(streams') : IsStream(streams'[i])
<1> DEFINE new == [connection |-> selectOpenConnection, by |-> by,
                   status |-> "negotiating", locked |-> FALSE]
<1>1. streams \in Seq({streams[i] : i \in 1..Len(streams)} \cup {new})
      BY DEF StreamTypes
<1>2. streams' = Append(streams, new)
      BY DEF createStream
<1>3. IsStream(new) /\ new.by = by
      <2>1. ASSUME NEW c, NEW l \in BOOLEAN
            PROVE  [connection |-> c, by |-> by, status |-> "negotiating", locked |-> l]
                       \in Stream({c})
            BY DEF Stream, Statuses
      <2>2. FALSE \in BOOLEAN
            OBVIOUS
      <2> QED
          BY <2>1, <2>2, Zenon DEF IsStream
<1> HIDE DEF new
<1> DEFINE S == {streams[i] : i \in 1..Len(streams)} \cup {new}
<1>4. streams' \in Seq(S)
      BY <1>1, <1>2
<1>5. streams' = [i \in 1..Len(streams') |-> streams'[i]]
      BY <1>4
<1>6. /\ Len(streams') = Len(streams) + 1
      /\ \A i \in 1..Len(streams) : streams'[i] = streams[i]
      /\ streams'[Len(streams) + 1] = new
      <2> HIDE DEF S
      <2> QED
          BY <1>1, <1>2, AppendProperties DEF S
<1> QED
      BY <1>3, <1>5, <1>6 DEF StreamTypes

\* What every step does to the streams there are: a lock and an author stay.
Keeps ==
    /\ Len(streams') >= Len(streams)
    /\ \A i \in 1..Len(streams) : /\ streams'[i].by = streams[i].by
                                  /\ streams[i].locked => streams'[i].locked

\* Requests that go on as they were, or without a stream, disturb nothing.
LEMMA OthersGoOn ==
    ASSUME StreamInv, StreamTypes', Keeps,
           \A v \in StreamUsers : \/ users'[v] = users[v]
                                  \/ users'[v].does \notin {"uses", "creates"}
    PROVE  StreamInv'
<1> USE DEF StreamInv, StreamTypes, Keeps
<1>1. UsedIsLocked'
      BY DEF UsedIsLocked
<1>2. CreatesItsOwn'
      BY DEF CreatesItsOwn
<1>3. OneIsCreator'
      BY DEF OneIsCreator, UsedIsLocked
<1> QED
      BY <1>1, <1>2, <1>3

\* A request may take a stream that nobody uses, or that it created itself.
LEMMA OneTakes ==
    ASSUME StreamInv, StreamTypes', Keeps, NEW u \in StreamUsers, NEW i \in 1..Len(streams),
           streams'[i].locked, ~streams[i].locked \/ streams[i].by = u,
           users'[u].does = "uses", users'[u].stream = i,
           \A v \in StreamUsers \ {u} : users'[v] = users[v]
    PROVE  StreamInv'
<1> USE DEF StreamInv, StreamTypes, Keeps
<1>1. UsedIsLocked'
      BY DEF UsedIsLocked
<1>2. CreatesItsOwn'
      BY DEF CreatesItsOwn
<1>3. \A v \in StreamUsers \ {u} :
          users'[v].does = "uses" /\ users'[v].stream = i => streams'[i].by = u
      BY DEF UsedIsLocked
<1>4. OneIsCreator'
      BY <1>3 DEF OneIsCreator, UsedIsLocked
<1> QED
      BY <1>1, <1>2, <1>4

\* A stream stays one with another status, or locked.
LEMMA OtherStatus ==
    ASSUME NEW s, IsStream(s), NEW status \in Statuses
    PROVE  /\ IsStream([s EXCEPT !.status = status])
           /\ [s EXCEPT !.status = status].by = s.by
           /\ [s EXCEPT !.status = status].locked = s.locked
<1>1. PICK C : s \in Stream(C)
      BY DEF IsStream
<1>2. /\ [s EXCEPT !.status = status] \in Stream(C)
      /\ [s EXCEPT !.status = status].by = s.by
      /\ [s EXCEPT !.status = status].locked = s.locked
      BY <1>1 DEF Stream
<1> QED
      BY <1>2, Zenon DEF IsStream

LEMMA LockedStream ==
    ASSUME NEW s, IsStream(s)
    PROVE  /\ IsStream([s EXCEPT !.locked = TRUE])
           /\ [s EXCEPT !.locked = TRUE].by = s.by
           /\ [s EXCEPT !.locked = TRUE].locked
<1>1. PICK C : s \in Stream(C)
      BY DEF IsStream
<1>2. [s EXCEPT !.locked = TRUE] \in Stream(C)
      BY <1>1 DEF Stream
<1>3. [s EXCEPT !.locked = TRUE].by = s.by
      BY <1>1 DEF Stream
<1>4. [s EXCEPT !.locked = TRUE].locked
      BY <1>1 DEF Stream
<1> QED
      BY <1>2, <1>3, <1>4, Zenon DEF IsStream

\* lockStream keeps what it does not lock.
LEMMA LockKeeps ==
    ASSUME StreamTypes, NEW i \in 1..Len(streams), streams' = lockStream(i)
    PROVE  /\ Len(streams') = Len(streams)
           /\ streams' = [j \in 1..Len(streams') |-> streams'[j]]
           /\ \A j \in 1..Len(streams') : IsStream(streams'[j])
           /\ streams'[i].locked
           /\ Keeps
<1> DEFINE old == streams[i]
           new == [old EXCEPT !.locked = TRUE]
<1>1. streams = [j \in 1..Len(streams) |-> streams[j]] /\ Len(streams) \in Nat
      BY DEF StreamTypes
<1>2. streams' = [j \in 1..Len(streams) |-> IF j = i THEN new ELSE streams[j]]
      BY <1>1 DEF lockStream
<1>3. Len(streams') = Len(streams)
      BY <1>1, <1>2
<1>4. IsStream(old)
      BY DEF StreamTypes
<1> HIDE DEF old
<1>5. /\ IsStream(new)
      /\ new.locked
      /\ new.by = old.by
      BY <1>4, LockedStream, Zenon
<1> HIDE DEF new
<1>6. IsStream(new) /\ new.locked /\ new.by = streams[i].by
      BY <1>5 DEF old
<1>7. \A j \in 1..Len(streams) : streams'[j] = IF j = i THEN new ELSE streams[j]
      BY <1>1, <1>2
<1>8. streams' = [j \in 1..Len(streams') |-> streams'[j]]
      <2> DEFINE n == Len(streams)
                 g == [j \in 1..n |-> IF j = i THEN new ELSE streams[j]]
      <2>1. streams' = g /\ Len(streams') = n
            BY <1>2, <1>3
      <2>2. g = [j \in 1..n |-> g[j]]
            <3> HIDE DEF n
            <3> QED
                OBVIOUS
      <2> HIDE DEF g, n
      <2> QED
          BY <2>1, <2>2
<1>9. \A j \in 1..Len(streams') : IsStream(streams'[j])
      BY <1>3, <1>6, <1>7 DEF StreamTypes
<1>10. Keeps
      BY <1>1, <1>3, <1>6, <1>7 DEF Keeps, old
<1> QED
      BY <1>3, <1>6, <1>7, <1>8, <1>9, <1>10

\* Does changes one request only.
LEMMA DoesOne ==
    ASSUME StreamTypes, NEW u \in StreamUsers, NEW what, NEW stream, Does(u, what, stream)
    PROVE  /\ users' = [v \in StreamUsers |-> [does |-> users'[v].does,
                                               stream |-> users'[v].stream]]
           /\ users'[u].does = what /\ users'[u].stream = stream
           /\ \A v \in StreamUsers \ {u} : users'[v] = users[v]
<1> DEFINE new == [does |-> what, stream |-> stream]
<1>1. users' = [v \in StreamUsers |-> IF v = u THEN new ELSE users[v]]
      BY DEF Does, StreamTypes
<1>2. new.does = what /\ new.stream = stream
      OBVIOUS
<1>3. \A v \in StreamUsers : users[v] = [does |-> users[v].does, stream |-> users[v].stream]
      BY DEF StreamTypes
<1>4. new = [does |-> new.does, stream |-> new.stream]
      OBVIOUS
<1> HIDE DEF new
<1> QED
      BY <1>1, <1>2, <1>3, <1>4

\* A request that needs a stream takes an open one, gives up without a connection,
\* or creates one (getStream).
LEMMA TakeStreamKeeps ==
    ASSUME StreamInv, NEW u \in StreamUsers, TakeStream(u)
    PROVE  StreamInv'
<1> DEFINE open == getOpenStreamForCodec
<1> USE DEF StreamInv
<1>1. CASE open # NoStream /\ streams' = lockStream(open) /\ Does(u, "uses", open)
      <2>1. open \in 1..Len(streams) /\ ~streams[open].locked
            BY <1>1, FoundIsUnlocked
      <2> HIDE DEF open
      <2>2. StreamTypes' /\ Keeps /\ streams'[open].locked
            BY <1>1, <2>1, LockKeeps, DoesOne DEF StreamTypes
      <2> QED
            BY <1>1, <2>1, <2>2, DoesOne, OneTakes
<1>2. CASE Does(u, "nothing", NoStream) /\ UNCHANGED streams
      <2>1. StreamTypes' /\ Keeps
            BY <1>2, DoesOne DEF StreamTypes, Keeps
      <2> QED
            BY <1>2, <2>1, DoesOne, OthersGoOn
<1>3. CASE createStream(u) /\ Does(u, "creates", Len(streams) + 1)
      <2>1. StreamTypes' /\ Keeps
            BY <1>3, DoesOne, CreateKeeps DEF StreamTypes, Keeps
      <2>2. /\ users'[u].does = "creates" /\ users'[u].stream = Len(streams) + 1
            /\ \A v \in StreamUsers \ {u} : users'[v] = users[v]
            BY <1>3, DoesOne
      <2>3. /\ \A i \in 1..Len(streams) : streams'[i] = streams[i]
            /\ streams'[Len(streams) + 1].by = u
            /\ Len(streams') = Len(streams) + 1
            BY <1>3, CreateKeeps
      <2>4. UsedIsLocked'
            <3>1. ASSUME NEW v \in StreamUsers, users'[v].does = "uses"
                  PROVE  users'[v].stream \in 1..Len(streams') /\ streams'[users'[v].stream].locked
                  <4>1. users'[v] = users[v]
                        BY <2>2, <3>1
                  <4>2. users[v].stream \in 1..Len(streams) /\ streams[users[v].stream].locked
                        BY <3>1, <4>1 DEF UsedIsLocked
                  <4> QED
                      BY <2>1, <4>1, <4>2 DEF Keeps, StreamTypes
            <3> QED
                BY <3>1 DEF UsedIsLocked
      <2>5. CreatesItsOwn'
            <3>1. ASSUME NEW v \in StreamUsers \ {u}, users'[v].does = "creates"
                  PROVE  users'[v].stream \in 1..Len(streams') /\ streams'[users'[v].stream].by = v
                  BY <2>1, <2>2, <2>3, <3>1 DEF CreatesItsOwn, StreamTypes, Keeps
            <3>2. Len(streams) + 1 \in 1..Len(streams')
                  BY <2>3 DEF StreamTypes
            <3> QED
                BY <2>2, <2>3, <3>1, <3>2 DEF CreatesItsOwn
      <2>6. OneIsCreator'
            BY <2>2, <2>3 DEF OneIsCreator, UsedIsLocked
      <2> QED
            BY <2>1, <2>4, <2>5, <2>6
<1> QED
      BY <1>1, <1>2, <1>3 DEF TakeStream

\* A stream whose status changes stays in its place and locked.
LEMMA StatusKeeps ==
    ASSUME StreamTypes, NEW i \in 1..Len(streams), NEW status \in Statuses,
           streams' = [streams EXCEPT ![i].status = status]
    PROVE  /\ streams' = [j \in 1..Len(streams') |-> streams'[j]] /\ Len(streams') \in Nat
           /\ \A j \in 1..Len(streams') : IsStream(streams'[j])
           /\ Keeps
<1> DEFINE old == streams[i]
           new == [old EXCEPT !.status = status]
<1>1. streams = [j \in 1..Len(streams) |-> streams[j]] /\ Len(streams) \in Nat
      BY DEF StreamTypes
<1>2. streams' = [j \in 1..Len(streams) |-> IF j = i THEN new ELSE streams[j]]
      BY <1>1
<1>3. Len(streams') = Len(streams)
      BY <1>1, <1>2
<1>4. IsStream(old)
      BY DEF StreamTypes
<1> HIDE DEF old
<1>5. IsStream(new) /\ new.locked = old.locked /\ new.by = old.by
      BY <1>4, OtherStatus, Zenon
<1> HIDE DEF new
<1>6. \A j \in 1..Len(streams) : streams'[j] = IF j = i THEN new ELSE streams[j]
      BY <1>1, <1>2
<1>7. streams' = [j \in 1..Len(streams') |-> streams'[j]]
      <2> DEFINE n == Len(streams)
                 g == [j \in 1..n |-> IF j = i THEN new ELSE streams[j]]
      <2>1. streams' = g /\ Len(streams') = n
            BY <1>2, <1>3
      <2>2. g = [j \in 1..n |-> g[j]]
            <3> HIDE DEF n
            <3> QED
                OBVIOUS
      <2> HIDE DEF g, n
      <2> QED
          BY <2>1, <2>2
<1>8. \A j \in 1..Len(streams') : IsStream(streams'[j])
      BY <1>3, <1>5, <1>6 DEF StreamTypes
<1>9. Keeps
      BY <1>1, <1>3, <1>5, <1>6 DEF Keeps, old
<1> QED
      BY <1>1, <1>3, <1>7, <1>8, <1>9

\* A connection that closes ends its streams and keeps the rest of them.
LEMMA CloseKeeps ==
    ASSUME StreamTypes, NEW k, CloseConnection(k)
    PROVE  StreamTypes' /\ Keeps
<1> DEFINE after(s) == IF s.connection # k THEN s
                       ELSE [s EXCEPT !.status = IF @ \in {"negotiating", "failed"}
                                                 THEN "failed" ELSE "gone"]
<1>1. streams = [j \in 1..Len(streams) |-> streams[j]] /\ Len(streams) \in Nat
      BY DEF StreamTypes
<1>2. streams' = [j \in 1..Len(streams) |-> after(streams[j])]
      BY <1>1 DEF CloseConnection
<1>3. ASSUME NEW s, IsStream(s)
      PROVE  IsStream(after(s)) /\ after(s).locked = s.locked /\ after(s).by = s.by
      <2>1. "failed" \in Statuses /\ "gone" \in Statuses
            BY DEF Statuses
      <2>2. CASE s.connection # k
            BY <1>3, <2>2
      <2>3. CASE s.connection = k /\ s.status \in {"negotiating", "failed"}
            <3>1. after(s) = [s EXCEPT !.status = "failed"]
                  BY <2>3, Zenon
            <3> QED
                BY <1>3, <2>1, <3>1, OtherStatus, Zenon
      <2>4. CASE s.connection = k /\ s.status \notin {"negotiating", "failed"}
            <3>1. after(s) = [s EXCEPT !.status = "gone"]
                  BY <2>4, Zenon
            <3> QED
                BY <1>3, <2>1, <3>1, OtherStatus, Zenon
      <2> QED
          BY <2>2, <2>3, <2>4
<1> HIDE DEF after
<1>4. Len(streams') = Len(streams)
      BY <1>1, <1>2
<1>5. \A j \in 1..Len(streams) : streams'[j] = after(streams[j])
      BY <1>2
<1>6. streams' = [j \in 1..Len(streams') |-> streams'[j]]
      <2> DEFINE n == Len(streams)
                 g == [j \in 1..n |-> after(streams[j])]
      <2>1. streams' = g /\ Len(streams') = n
            BY <1>2, <1>4
      <2>2. g = [j \in 1..n |-> g[j]]
            <3> HIDE DEF n
            <3> QED
                OBVIOUS
      <2> HIDE DEF g, n
      <2> QED
          BY <2>1, <2>2
<1>7. \A j \in 1..Len(streams) : /\ IsStream(streams'[j])
                                 /\ streams'[j].locked = streams[j].locked
                                 /\ streams'[j].by = streams[j].by
      BY <1>3, <1>5 DEF StreamTypes
<1> QED
      BY <1>1, <1>4, <1>6, <1>7 DEF StreamTypes, Keeps, CloseConnection

LEMMA StreamStep == StreamInv /\ [StreamsNext]_streamVars => StreamInv'
<1> SUFFICES ASSUME StreamInv, [StreamsNext]_streamVars
             PROVE  StreamInv'
    OBVIOUS
<1> USE DEF StreamInv
<1>1. ASSUME NEW u \in StreamUsers, GetStream(u)
      PROVE  StreamInv'
      <2>1. CASE TakeStream(u)
            BY <2>1, TakeStreamKeeps
      <2>2. CASE Does(u, "awaits", streamPool) /\ UNCHANGED streams
            <3>1. StreamTypes' /\ Keeps
                  BY <2>2, DoesOne DEF StreamTypes, Keeps
            <3> QED
                BY <2>2, <3>1, DoesOne, OthersGoOn
      <2> QED
          BY <1>1, <2>1, <2>2 DEF GetStream
<1>2. ASSUME NEW u \in StreamUsers, GetAwaited(u)
      PROVE  StreamInv'
      BY <1>2, TakeStreamKeeps DEF GetAwaited
<1>3. ASSUME NEW u \in StreamUsers, GetCreated(u)
      PROVE  StreamInv'
      <2> DEFINE i == users[u].stream
      <2>1. i \in 1..Len(streams) /\ streams[i].by = u
            BY <1>3 DEF GetCreated, CreatesItsOwn
      <2>2. CASE Does(u, "nothing", NoStream) /\ UNCHANGED streams
            <3>1. StreamTypes' /\ Keeps
                  BY <2>2, DoesOne DEF StreamTypes, Keeps
            <3> QED
                BY <2>2, <3>1, DoesOne, OthersGoOn
      <2>3. CASE Does(u, "uses", i) /\ streams' = lockStream(i)
            <3> HIDE DEF i
            <3>1. StreamTypes' /\ Keeps /\ streams'[i].locked
                  BY <2>1, <2>3, LockKeeps, DoesOne DEF StreamTypes
            <3> QED
                BY <2>1, <2>3, <3>1, DoesOne, OneTakes
      <2> QED
          BY <1>3, <2>2, <2>3 DEF GetCreated
<1>4. ASSUME NEW u \in StreamUsers, StreamUsed(u)
      PROVE  StreamInv'
      <2> DEFINE i == users[u].stream
      <2>1. i \in 1..Len(streams) /\ "closing" \in Statuses
            BY <1>4 DEF StreamUsed, UsedIsLocked, Statuses
      <2>2. Does(u, "nothing", NoStream)
            BY <1>4 DEF StreamUsed
      <2>3. \/ UNCHANGED streams
            \/ streams' = [streams EXCEPT ![i].status = "closing"]
            BY <1>4 DEF StreamUsed
      <2> HIDE DEF i
      <2>4. StreamTypes' /\ Keeps
            <3>1. CASE UNCHANGED streams
                  BY <2>2, <3>1, DoesOne DEF StreamTypes, Keeps
            <3>2. CASE streams' = [streams EXCEPT ![i].status = "closing"]
                  BY <2>1, <2>2, <3>2, StatusKeeps, DoesOne DEF StreamTypes
            <3> QED
                BY <2>3, <3>1, <3>2
      <2> QED
          BY <2>2, <2>4, DoesOne, OthersGoOn
<1>5. ASSUME NEW i \in DOMAIN streams, NewStream(i) \/ StreamGone(i)
      PROVE  StreamInv'
      <2>1. i \in 1..Len(streams)
            BY DEF StreamTypes
      <2>2. \E status \in Statuses : streams' = [streams EXCEPT ![i].status = status]
            BY <1>5 DEF NewStream, StreamGone, Statuses
      <2>3. StreamTypes' /\ Keeps /\ UNCHANGED users
            BY <1>5, <2>1, <2>2, StatusKeeps DEF StreamTypes, NewStream, StreamGone
      <2> QED
          BY <2>3, OthersGoOn
<1>6. ASSUME NEW k \in connections, CloseConnection(k)
      PROVE  StreamInv'
      BY <1>6, CloseKeeps, OthersGoOn DEF CloseConnection
<1>7. CASE PeerUpdate
      <2>1. UNCHANGED users /\ (createStream("pool") \/ UNCHANGED streams)
            BY <1>7 DEF PeerUpdate
      <2>2. StreamTypes' /\ Keeps
            BY <2>1, CreateKeeps DEF StreamTypes, Keeps
      <2> QED
          BY <2>1, <2>2, OthersGoOn
<1>8. CASE UNCHANGED <<streams, users>>
      BY <1>8 DEF StreamTypes, UsedIsLocked, CreatesItsOwn, OneIsCreator
<1> QED
      BY <1>1, <1>2, <1>3, <1>4, <1>5, <1>6, <1>7, <1>8
      DEF StreamsNext, PoolCreated, OpenConnection, streamVars

\* Only a stream's creator ever shares it, and with one other (getStream,
\* getOpenStreamForCodec and lockStream, with the awaits between them).
THEOREM StreamsAreShared == StreamsSpec => []SharedOnlyWithCreator
<1>1. StreamInv => SharedOnlyWithCreator
      BY NoThird DEF StreamInv
<1> QED
      BY StreamsInitially, StreamStep, <1>1, PTL DEF StreamsSpec

-----------------------------------------------------------------------------
(* Peer exchange                                                           *)

\* What AnswerQuery and the steps after it need of a query.
Query == [doing : {"nothing", "ask", "found", "merge"}, server : Servers \cup {NoShards},
          left : SUBSET UNION Answers, at : SUBSET UNION Answers, prev : BOOLEAN]

ExchangeTypes ==
    /\ queries \in [QueryIds -> Query]
    /\ checks \subseteq Servers
    /\ stops \in Nat

\* The strengthening: the query of a mark is one more than the stops, since what
\* a stop leaves unmarked is at most the query that was marked.
MarkOf(server) == IF server \in querying THEN 1 ELSE 0
MarksCount == \A server \in Servers : Cardinality(Running(server)) <= stops + MarkOf(server)

ExchangeInv == ExchangeTypes /\ MarksCount

-----------------------------------------------------------------------------
LEMMA RunningFinite == \A server : IsFiniteSet(Running(server)) /\ Cardinality(Running(server)) \in Nat
BY AnswersAssumption, FS_Subset, FS_CardinalityType DEF Running

LEMMA ExchangeInitially == ExchangeInit => ExchangeInv
<1> SUFFICES ASSUME ExchangeInit PROVE ExchangeInv
    OBVIOUS
<1>1. ExchangeTypes
      BY DEF ExchangeInit, ExchangeTypes, NoQuery, Query
<1>2. \A server : Running(server) = {}
      BY DEF ExchangeInit, Running
<1> QED
    BY <1>1, <1>2, FS_EmptySet DEF ExchangeInit, ExchangeInv, MarksCount, MarkOf

\* A query that only goes on is still one of its server's.
LEMMA SameRunning ==
    ASSUME ExchangeInv, NEW q \in QueryIds, queries[q] # NoQuery,
           queries' \in [QueryIds -> Query],
           \A r \in QueryIds \ {q} : queries'[r] = queries[r],
           queries'[q] # NoQuery, queries'[q].server = queries[q].server,
           UNCHANGED <<querying, checks, stops>>
    PROVE  ExchangeInv'
<1>1. \A server : Running(server)' = Running(server)
      BY DEF Running
<1> QED
    BY <1>1 DEF ExchangeInv, ExchangeTypes, MarksCount, MarkOf

\* runQuery, from an event or the interval.
LEMMA BeginKeeps ==
    ASSUME ExchangeInv, NEW server \in Servers, runQuery(server),
           checks' \subseteq Servers, UNCHANGED stops
    PROVE  ExchangeInv'
<1>1. CASE server \in querying
      BY <1>1 DEF runQuery, ExchangeInv, ExchangeTypes, MarksCount, MarkOf, Running
<1>2. CASE server \notin querying
      <2>1. PICK q \in QueryIds :
              /\ queries[q] = NoQuery
              /\ queries' = [queries EXCEPT ![q] = [NoQuery EXCEPT !.doing = "ask", !.server = server]]
              /\ querying' = querying \cup {server}
            BY <1>2 DEF runQuery, Marked
      <2> DEFINE asked == [NoQuery EXCEPT !.doing = "ask", !.server = server]
      <2>2. asked \in Query /\ asked # NoQuery /\ asked.server = server
            BY DEF NoQuery, Query
      <2>3. ExchangeTypes'
            BY <2>1, <2>2 DEF ExchangeInv, ExchangeTypes
      <2>4. q \notin Running(server) /\ Running(server)' = Running(server) \cup {q}
            BY <2>1, <2>2 DEF Running, ExchangeInv, ExchangeTypes
      <2>5. Cardinality(Running(server)') = Cardinality(Running(server)) + 1
            BY <2>4, RunningFinite, FS_AddElement
      <2>6. \A other \in Servers \ {server} : Running(other)' = Running(other)
            BY <2>1, <2>2 DEF Running, ExchangeInv, ExchangeTypes
      <2>7. MarksCount'
            <3> SUFFICES ASSUME NEW other \in Servers
                         PROVE  Cardinality(Running(other)') <= stops' + MarkOf(other)'
                BY DEF MarksCount
            <3>1. CASE other = server
                  BY <3>1, <1>2, <2>1, <2>5, RunningFinite
                  DEF ExchangeInv, ExchangeTypes, MarksCount, MarkOf
            <3>2. CASE other # server
                  BY <3>2, <2>1, <2>6 DEF ExchangeInv, MarksCount, MarkOf
            <3> QED
                BY <3>1, <3>2
      <2> QED
          BY <2>3, <2>7 DEF ExchangeInv
<1> QED
    BY <1>1, <1>2

\* The end of a query takes away the mark of its server, whoever set it.
LEMMA EndKeeps ==
    ASSUME ExchangeInv, NEW q \in QueryIds, queries[q] # NoQuery, EndQuery(q)
    PROVE  ExchangeInv'
<1>0. PICK ended : ended = queries[q].server
      OBVIOUS
<1>1. NoQuery \in Query
      BY DEF NoQuery, Query
<1>2. ExchangeTypes'
      BY <1>1 DEF EndQuery, ExchangeInv, ExchangeTypes
<1>3. q \in Running(ended) /\ Running(ended)' = Running(ended) \ {q}
      BY <1>0 DEF EndQuery, Running, ExchangeInv, ExchangeTypes
<1>4. Cardinality(Running(ended)') = Cardinality(Running(ended)) - 1
      BY <1>3, RunningFinite, FS_RemoveElement
<1>5. \A other : other # ended => Running(other)' = Running(other)
      BY <1>0 DEF EndQuery, Running, ExchangeInv, ExchangeTypes
<1>6. MarksCount'
      <2> SUFFICES ASSUME NEW other \in Servers
                   PROVE  Cardinality(Running(other)') <= stops' + MarkOf(other)'
          BY DEF MarksCount
      <2>1. CASE other = ended
            BY <2>1, <1>0, <1>4, RunningFinite
            DEF EndQuery, ExchangeInv, ExchangeTypes, MarksCount, MarkOf
      <2>2. CASE other # ended
            BY <2>2, <1>0, <1>5 DEF EndQuery, ExchangeInv, MarksCount, MarkOf
      <2> QED
          BY <2>1, <2>2
<1> QED
    BY <1>2, <1>6 DEF ExchangeInv

-----------------------------------------------------------------------------
LEMMA ExchangeStep == ExchangeInv /\ [ExchangeNext]_exchangeVars => ExchangeInv'
<1> SUFFICES ASSUME ExchangeInv, [ExchangeNext]_exchangeVars
             PROVE  ExchangeInv'
    OBVIOUS
<1>1. CASE StartExchange
      BY <1>1 DEF StartExchange, ExchangeInv, ExchangeTypes, MarksCount, MarkOf, Running
<1>2. CASE StopExchange
      <2>1. \A server : Running(server)' = Running(server)
            BY <1>2 DEF StopExchange, Running
      <2> QED
          BY <1>2, <2>1, RunningFinite
          DEF StopExchange, ExchangeInv, ExchangeTypes, MarksCount, MarkOf
<1>3. ASSUME NEW server \in Servers, IdentifyServer(server)
      PROVE  ExchangeInv'
      BY <1>3, BeginKeeps DEF IdentifyServer, ExchangeInv, ExchangeTypes
<1>4. ASSUME NEW server \in Servers, ExpireRecord(server)
      PROVE  ExchangeInv'
      BY <1>4 DEF ExpireRecord, ExchangeInv, ExchangeTypes, MarksCount, MarkOf, Running
<1>5. ASSUME NEW server \in Servers, Checked(server)
      PROVE  ExchangeInv'
      <2>1. checks' \subseteq Servers /\ UNCHANGED stops
            BY <1>5 DEF Checked, ExchangeInv, ExchangeTypes
      <2>2. CASE runQuery(server)
            BY <2>1, <2>2, BeginKeeps
      <2>3. CASE UNCHANGED <<querying, queries>>
            BY <2>1, <2>3 DEF ExchangeInv, ExchangeTypes, MarksCount, MarkOf, Running
      <2> QED
          BY <1>5, <2>2, <2>3 DEF Checked
<1>6. ASSUME NEW candidates \in SUBSET Servers, Periodic(candidates)
      PROVE  ExchangeInv'
      BY <1>6 DEF Periodic, ExchangeInv, ExchangeTypes, MarksCount, MarkOf, Running
<1>7. ASSUME NEW q \in QueryIds, AnswerQuery(q) \/ HasShardInfo(q) \/ MergeFound(q) \/ LastFound(q)
      PROVE  ExchangeInv'
      <2>1. queries \in [QueryIds -> Query] /\ queries[q] \in Query /\ queries[q] # NoQuery
            <3>1. queries[q].doing # "nothing"
                  BY <1>7 DEF AnswerQuery, HasShardInfo, MergeFound, LastFound
            <3>2. NoQuery.doing = "nothing"
                  BY DEF NoQuery
            <3> QED
                BY <3>1, <3>2 DEF ExchangeInv, ExchangeTypes
      <2>2. CASE EndQuery(q)
            BY <2>1, <2>2, EndKeeps
      <2>3. ASSUME NEW answer \in Answers, ~EndQuery(q),
                   queries' = [queries EXCEPT ![q].doing = "found", ![q].left = answer],
                   UNCHANGED <<querying, checks, stops>>
            PROVE  ExchangeInv'
            <3>1. answer \in SUBSET UNION Answers
                  OBVIOUS
            <3>2. queries'[q] \in Query /\ queries'[q] # NoQuery /\ queries'[q].server = queries[q].server
                  BY <2>1, <2>3, <3>1 DEF Query, NoQuery
            <3>3. /\ queries' \in [QueryIds -> Query]
                  /\ \A r \in QueryIds \ {q} : queries'[r] = queries[r]
                  BY <2>1, <2>3, <3>2
            <3> QED
                BY <2>1, <2>3, <3>2, <3>3, SameRunning
      <2>4. CASE HasShardInfo(q)
            <3>1. PICK found \in queries[q].left :
                    queries' = [queries EXCEPT ![q].doing = "merge", ![q].left = @ \ {found},
                                  ![q].at = {found}, ![q].prev = shardInfo[found.peer] # NoShards]
                  BY <2>4 DEF HasShardInfo
            <3>2. found \in UNION Answers /\ queries[q].left \in SUBSET UNION Answers
                  BY <2>1 DEF Query
            <3>3. queries'[q] \in Query /\ queries'[q] # NoQuery /\ queries'[q].server = queries[q].server
                  BY <2>1, <3>1, <3>2 DEF Query, NoQuery
            <3>4. /\ queries' \in [QueryIds -> Query]
                  /\ \A r \in QueryIds \ {q} : queries'[r] = queries[r]
                  BY <2>1, <3>1, <3>3
            <3> QED
                BY <2>1, <2>4, <3>3, <3>4, SameRunning DEF HasShardInfo
      <2>5. ASSUME queries' = [queries EXCEPT ![q].doing = "found", ![q].at = {}],
                   UNCHANGED <<querying, checks, stops>>
            PROVE  ExchangeInv'
            <3>1. queries'[q] \in Query /\ queries'[q] # NoQuery /\ queries'[q].server = queries[q].server
                  BY <2>1, <2>5 DEF Query, NoQuery
            <3>2. /\ queries' \in [QueryIds -> Query]
                  /\ \A r \in QueryIds \ {q} : queries'[r] = queries[r]
                  BY <2>1, <2>5, <3>1
            <3> QED
                BY <2>1, <2>5, <3>1, <3>2, SameRunning
      <2> QED
          BY <1>7, <2>2, <2>3, <2>4, <2>5 DEF AnswerQuery, MergeFound, LastFound
<1>8. CASE UNCHANGED exchangeVars
      BY <1>8 DEF exchangeVars, ExchangeInv, ExchangeTypes, MarksCount, MarkOf, Running
<1> QED
    BY <1>1, <1>2, <1>3, <1>4, <1>5, <1>6, <1>7, <1>8 DEF ExchangeNext

\* The queries of a server under way are at most one more than the stops of the
\* discovery, whatever events, timers and answers overlap (runQuery, stop).
THEOREM QueriesOfServerBounded == ExchangeSpec => []QueriesBounded
<1>1. ExchangeInv => QueriesBounded
      BY RunningFinite DEF ExchangeInv, ExchangeTypes, MarksCount, MarkOf, QueriesBounded
<1> QED
    BY <1>1, ExchangeInitially, ExchangeStep, PTL DEF ExchangeSpec

-----------------------------------------------------------------------------
(* Metadata                                                                *)

AllInfos == UNION {ShardInfos[p] \cup RecordInfos[p] : p \in ShardPeers}
AllBytes == {encodeRelayShard(info) : info \in AllInfos}

\* The peer store and the map have what was told or recorded.
MetadataTypes ==
    /\ handshakesConfirmed \in [ShardPeers -> AllInfos \cup {NoInfo}]
    /\ shardInfoBytes \in [ShardPeers -> AllBytes \cup {NoInfo}]
    /\ written \in [ShardPeers -> AllInfos \cup {NoInfo}]
    /\ told \in [ShardPeers -> SUBSET AllInfos]
    /\ saving \subseteq ShardPeers \X AllInfos

\* The bytes of a peer are those of the info that was written last, which has shards
\* that can be written.
WrittenInto(p, info, bytes) ==
    IF info = NoInfo THEN bytes = NoInfo
    ELSE /\ info \in ShardInfos[p] \cup RecordInfos[p]
         /\ ~EncodeThrows(info)
         /\ bytes = encodeRelayShard(info)
BytesAreWritten == \A p \in ShardPeers : WrittenInto(p, written[p], shardInfoBytes[p])

\* What is to be confirmed, and what is confirmed, went into the peer store.
ConfirmedAfterStored ==
    /\ \A s \in saving : s[2] \in told[s[1]]
    /\ \A p \in ShardPeers : handshakesConfirmed[p] # NoInfo => handshakesConfirmed[p] \in told[p]

MetadataInv == MetadataTypes /\ BytesAreWritten /\ ConfirmedAfterStored

LEMMA MetadataInitially == MetadataInit => MetadataInv
BY DEF MetadataInit, MetadataInv, MetadataTypes, BytesAreWritten, WrittenInto,
       ConfirmedAfterStored

\* Whoever writes, the bytes and what they stand for change together.
LEMMA PutKeeps ==
    ASSUME MetadataInv, NEW p \in ShardPeers,
           NEW info \in ShardInfos[p] \cup RecordInfos[p] \cup {NoInfo},
           info # NoInfo => ~EncodeThrows(info), PutShardInfo(p, info)
    PROVE  /\ BytesAreWritten'
           /\ shardInfoBytes' \in [ShardPeers -> AllBytes \cup {NoInfo}]
           /\ written' \in [ShardPeers -> AllInfos \cup {NoInfo}]
<1> DEFINE bytes == IF info = NoInfo THEN NoInfo ELSE encodeRelayShard(info)
<1>1. info # NoInfo => info \in AllInfos /\ bytes \in AllBytes
      BY DEF AllInfos, AllBytes
<1>2. WrittenInto(p, info, bytes)
      BY DEF WrittenInto
<1>3. /\ shardInfoBytes' = [shardInfoBytes EXCEPT ![p] = bytes]
      /\ written' = [written EXCEPT ![p] = info]
      BY DEF PutShardInfo
<1>4. info \in AllInfos \cup {NoInfo} /\ bytes \in AllBytes \cup {NoInfo}
      BY <1>1
<1> HIDE DEF bytes
<1>5. \A q \in ShardPeers : /\ shardInfoBytes'[q] = IF q = p THEN bytes ELSE shardInfoBytes[q]
                            /\ written'[q] = IF q = p THEN info ELSE written[q]
      BY <1>3 DEF MetadataInv, MetadataTypes
<1>6. \A q \in ShardPeers : WrittenInto(q, written'[q], shardInfoBytes'[q])
      BY <1>2, <1>5 DEF MetadataInv, BytesAreWritten
<1> QED
    BY <1>3, <1>4, <1>6 DEF MetadataInv, MetadataTypes, BytesAreWritten, WrittenInto

LEMMA SavingKeeps ==
    ASSUME MetadataInv, NEW p \in ShardPeers, NEW info \in ShardInfos[p],
           savePeerShardInfo(p, info)
    PROVE  MetadataInv'
<1>1. /\ PutShardInfo(p, info) /\ ~EncodeThrows(info)
      /\ told' = [told EXCEPT ![p] = @ \cup {info}]
      /\ saving' = saving \cup {<<p, info>>}
      /\ UNCHANGED handshakesConfirmed
      BY DEF savePeerShardInfo
<1>2. info \in AllInfos
      BY DEF AllInfos
<1>3. /\ BytesAreWritten'
      /\ shardInfoBytes' \in [ShardPeers -> AllBytes \cup {NoInfo}]
      /\ written' \in [ShardPeers -> AllInfos \cup {NoInfo}]
      BY <1>1, PutKeeps
<1>4. told' \in [ShardPeers -> SUBSET AllInfos] /\ saving' \subseteq ShardPeers \X AllInfos
      BY <1>1, <1>2 DEF MetadataInv, MetadataTypes
<1>5. \A q \in ShardPeers : told[q] \subseteq told'[q] /\ (q = p => info \in told'[q])
      BY <1>1 DEF MetadataInv, MetadataTypes
<1>6. ConfirmedAfterStored'
      BY <1>1, <1>5 DEF MetadataInv, MetadataTypes, ConfirmedAfterStored
<1> QED
    BY <1>1, <1>3, <1>4, <1>6 DEF MetadataInv, MetadataTypes

LEMMA ConfirmingKeeps ==
    ASSUME MetadataInv, NEW s \in saving, ConfirmHandshake(s)
    PROVE  MetadataInv'
<1>1. /\ handshakesConfirmed' = [handshakesConfirmed EXCEPT ![s[1]] = s[2]]
      /\ saving' = saving \ {s}
      /\ UNCHANGED <<shardInfoBytes, written, told>>
      BY DEF ConfirmHandshake
<1>2. s[1] \in ShardPeers /\ s[2] \in AllInfos /\ s[2] \in told[s[1]]
      BY DEF MetadataInv, MetadataTypes, ConfirmedAfterStored
<1>3. MetadataTypes' /\ ConfirmedAfterStored'
      BY <1>1, <1>2 DEF MetadataInv, MetadataTypes, ConfirmedAfterStored
<1> QED
    BY <1>1, <1>3 DEF MetadataInv, BytesAreWritten

LEMMA RecordKeeps ==
    ASSUME MetadataInv, NEW p \in ShardPeers, NEW discovery,
           NEW info \in RecordInfos[p] \cup {NoInfo}, WriteRecord(<<discovery, p>>, info)
    PROVE  MetadataInv'
<1>1. /\ UNCHANGED <<handshakesConfirmed, saving, told>>
      /\ \/ PutShardInfo(p, info) /\ (info # NoInfo => ~EncodeThrows(info))
         \/ UNCHANGED <<shardInfoBytes, written>>
      BY DEF WriteRecord
<1>2. /\ BytesAreWritten'
      /\ shardInfoBytes' \in [ShardPeers -> AllBytes \cup {NoInfo}]
      /\ written' \in [ShardPeers -> AllInfos \cup {NoInfo}]
      BY <1>1, PutKeeps DEF MetadataInv, MetadataTypes, BytesAreWritten
<1> QED
    BY <1>1, <1>2 DEF MetadataInv, MetadataTypes, ConfirmedAfterStored

LEMMA MetadataStep == MetadataInv /\ [MetadataNext]_metadataVars => MetadataInv'
<1> SUFFICES ASSUME MetadataInv, [MetadataNext]_metadataVars
             PROVE  MetadataInv'
    OBVIOUS
<1>1. CASE UNCHANGED <<handshakesConfirmed, shardInfoBytes, saving, written, told>>
      BY <1>1 DEF MetadataInv, MetadataTypes, BytesAreWritten, ConfirmedAfterStored
<1>2. ASSUME NEW p \in ShardPeers, NEW discovery, LookUp(discovery, p)
      PROVE  MetadataInv'
      BY <1>1, <1>2 DEF LookUp
<1>3. CASE UNCHANGED metadataVars
      BY <1>1, <1>3 DEF metadataVars
<1> QED
    BY <1>2, <1>3, SavingKeeps, ConfirmingKeeps, RecordKeeps DEF MetadataNext

\* Decoding what was encoded gives the cluster, and the low bits of the shards: those
\* of a vector are below its length, and so have no others.
LEMMA DecodedIsAnswered ==
    ASSUME NEW p \in ShardPeers, NEW info \in ShardInfos[p] \cup RecordInfos[p],
           ~EncodeThrows(info)
    PROVE  LET decoded == decodeRelayShard(encodeRelayShard(info))
           IN  /\ decoded.clusterId = Word(info.clusterId)
               /\ \A shard : shard \in decoded.shards
                               <=> \E i \in DOMAIN info.shards : info.shards[i] % Words = shard
<1> DEFINE encoded == encodeRelayShard(info)
<1>1. /\ info.shards \in Seq(Nat)
      /\ \A i \in DOMAIN info.shards : info.shards[i] \in Nat /\ Word(info.shards[i]) = info.shards[i] % Words
      BY ShardsAssumption, LenProperties DEF Word
<1>2. CASE InVector(info)
      <2>1. /\ encoded.format = "rsv" /\ encoded.cluster = Word(info.clusterId)
            /\ encoded.bits = Range(info.shards)
            BY <1>2 DEF encodeRelayShard
      <2>2. \A i \in DOMAIN info.shards :
              info.shards[i] < VectorBits /\ info.shards[i] % Words = info.shards[i]
            <3>1. \A i \in DOMAIN info.shards : ~(info.shards[i] >= VectorBits)
                  BY <1>2 DEF EncodeThrows, Range
            <3>2. \A n \in Nat : ~(n >= VectorBits) => n < VectorBits /\ n % Words = n
                  <4>1. VectorBits \in Nat /\ Words \in Nat /\ VectorBits =< Words
                        BY ShardsAssumption
                  <4>2. \A a, b, n \in Nat : a =< b /\ ~(n >= a) => n < a /\ n % b = n
                        OBVIOUS
                  <4> QED
                      BY <4>1, <4>2
            <3> QED
                BY <1>1, <3>1, <3>2
      <2> HIDE DEF encoded
      <2>3. /\ decodeRelayShard(encoded).clusterId = Word(info.clusterId)
            /\ decodeRelayShard(encoded).shards = {b \in Range(info.shards) : b < VectorBits}
            BY <2>1 DEF decodeRelayShard, BitsBelow
      <2>4. \A shard : shard \in {b \in Range(info.shards) : b < VectorBits}
              <=> \E i \in DOMAIN info.shards : info.shards[i] % Words = shard
            BY <2>2 DEF Range
      <2> QED
          BY <2>3, <2>4 DEF encoded
<1>3. CASE ~InVector(info)
      <2>1. /\ encoded.format = "rs" /\ encoded.cluster = Word(info.clusterId)
            /\ encoded.indices = [i \in DOMAIN info.shards |-> Word(info.shards[i])]
            BY <1>3 DEF encodeRelayShard
      <2> HIDE DEF encoded
      <2>2. /\ decodeRelayShard(encoded).clusterId = Word(info.clusterId)
            /\ decodeRelayShard(encoded).shards = Range(encoded.indices)
            BY <2>1 DEF decodeRelayShard
      <2>3. \A shard : shard \in Range(encoded.indices)
              <=> \E i \in DOMAIN info.shards : info.shards[i] % Words = shard
            BY <1>1, <2>1 DEF Range
      <2> QED
          BY <2>2, <2>3 DEF encoded
<1> QED
    BY <1>2, <1>3

\* Read back, the bytes of a peer have the shards that were written, and no others.
LEMMA ReadersAgree == MetadataInv => OnStoredShards
<1> SUFFICES ASSUME MetadataInv, NEW p \in ShardPeers, NEW clusterId \in 0..Words,
                    NEW shard \in 0..Words
             PROVE  isPeerOnShard(p, clusterId, shard) <=>
                      LET info == written[p]
                      IN  /\ info # NoInfo
                          /\ clusterId = IF info.clusterId = NoInfo THEN 0
                                         ELSE info.clusterId % Words
                          /\ \E i \in DOMAIN info.shards : info.shards[i] % Words = shard
    BY DEF OnStoredShards, MetadataInv, ConfirmedAfterStored
<1>0. WrittenInto(p, written[p], shardInfoBytes[p])
      BY DEF MetadataInv, BytesAreWritten
<1>1. CASE written[p] = NoInfo
      BY <1>0, <1>1 DEF isPeerOnShard, WrittenInto
<1>2. CASE written[p] # NoInfo
      <2>1. PICK info \in ShardInfos[p] \cup RecordInfos[p] : info = written[p]
            BY <1>0, <1>2 DEF WrittenInto
      <2>2. /\ info # NoInfo /\ ~EncodeThrows(info)
            /\ shardInfoBytes[p] = encodeRelayShard(info) /\ encodeRelayShard(info) # NoInfo
            BY <1>0, <1>2, <2>1, BytesAssumption DEF WrittenInto
      <2>3. /\ decodeRelayShard(shardInfoBytes[p]).clusterId = Word(info.clusterId)
            /\ shard \in decodeRelayShard(shardInfoBytes[p]).shards
                 <=> \E i \in DOMAIN info.shards : info.shards[i] % Words = shard
            BY <2>2, DecodedIsAnswered
      <2> QED
          BY <2>1, <2>2, <2>3 DEF isPeerOnShard, Word
<1> QED
    BY <1>1, <1>2

\* What the shard reader finds of a peer is what was written last, for any infos, in
\* either format, however answers and records race for the peer store, and a confirmed
\* handshake has put its answer there before (savePeerShardInfo, the discoveries).
THEOREM ShardsAreStored == MetadataSpec => []OnStoredShards
<1> QED
    BY MetadataInitially, MetadataStep, ReadersAgree, PTL DEF MetadataSpec

-----------------------------------------------------------------------------
(* Waiting for remote peers                                                *)

WaitTypes ==
    /\ waiting \in {"no", "yes", "thrown", "resolved", "rejected"}
    /\ unchecked \in (SUBSET Nodes) \cup {Unset}
    /\ waiting = "no" => /\ listening = {} /\ fulfilled = {} /\ handshaking = {}
                         /\ unchecked = Unset
    /\ \A h \in handshaking : h.peer \in Nodes

\* A listener fires for a node identified since the wait began, and so does its
\* promise.
FulfilledByIdentified ==
    /\ \A c \in fulfilled : c # "relay" => c \in identified
    /\ \A h \in handshaking : h.for # "metadata" => h.for \in identified

\* Without a look through the connections, only the promises resolve the wait; none
\* is taken back.
ResolvedByAll == waiting = "resolved" /\ unchecked = Unset => AllFulfilled

WaitInv == WaitTypes /\ FulfilledByIdentified /\ ResolvedByAll

LEMMA WaitInitially == RemotePeersInit => WaitInv
BY DEF RemotePeersInit, WaitInv, WaitTypes, FulfilledByIdentified, ResolvedByAll

\* A promise that is fulfilled remains so.
LEMMA FulfilledMore ==
    ASSUME WaitInv, UNCHANGED <<waiting, unchecked, wanted>>, fulfilled \subseteq fulfilled'
    PROVE  ResolvedByAll'
BY DEF WaitInv, ResolvedByAll, AllFulfilled, Fulfils

LEMMA CallKeeps ==
    ASSUME WaitInv, NEW protocols, waitForRemotePeer(protocols)
    PROVE  WaitInv'
<1>1. /\ waiting = "no" /\ waiting' \in {"yes", "thrown"}
      /\ unchecked' \in (SUBSET Nodes) \cup {Unset}
      /\ UNCHANGED <<fulfilled, handshaking, identified>>
      BY DEF waitForRemotePeer, WaitInv, WaitTypes
<1> QED
    BY <1>1 DEF WaitInv, WaitTypes, FulfilledByIdentified, ResolvedByAll

LEMMA EndKeepsWait ==
    ASSUME WaitInv, Resolve \/ RejectOnTimeout
    PROVE  WaitInv'
<1>1. UNCHANGED <<unchecked, wanted, listening, fulfilled, handshaking, identified>>
      BY DEF Resolve, RejectOnTimeout
<1>2. /\ waiting = "yes"
      /\ \/ waiting' = "resolved" /\ (AllFulfilled \/ MetadataDone)
         \/ waiting' = "rejected"
      BY DEF Resolve, RejectOnTimeout
<1>3. WaitTypes' /\ FulfilledByIdentified'
      BY <1>1, <1>2 DEF WaitInv, WaitTypes, FulfilledByIdentified
<1>4. AllFulfilled' <=> AllFulfilled
      BY <1>1 DEF AllFulfilled, Fulfils
<1> QED
    BY <1>1, <1>2, <1>3, <1>4 DEF WaitInv, ResolvedByAll, MetadataDone

LEMMA NodeMovesKeep ==
    ASSUME WaitInv, NEW p \in Nodes,
           NodeConnected(p) \/ NodeGone(p) \/ NodeIdentified(p) \/ CheckPeer(p)
    PROVE  WaitInv'
<1>1. CASE NodeConnected(p) \/ NodeGone(p)
      <2>1. UNCHANGED <<waiting, unchecked, wanted, listening, fulfilled, handshaking, identified>>
            BY <1>1 DEF NodeConnected, NodeGone
      <2> QED
          BY <2>1, FulfilledMore DEF WaitInv, WaitTypes, FulfilledByIdentified
<1>2. CASE NodeIdentified(p)
      <2>1. /\ handshaking' = handshaking \cup {Handshake(c, p) : c \in listening \cap CodecsOf[p]}
            /\ identified' = IF waiting = "no" THEN {} ELSE identified \cup CodecsOf[p]
            /\ UNCHANGED <<waiting, unchecked, wanted, listening, fulfilled>>
            BY <1>2 DEF NodeIdentified
      <2>2. CASE waiting = "no"
            <3>1. handshaking' = {} /\ fulfilled' = {} /\ listening' = {}
                  BY <2>1, <2>2 DEF WaitInv, WaitTypes
            <3> QED
                BY <2>1, <2>2, <3>1 DEF WaitInv, WaitTypes, FulfilledByIdentified, ResolvedByAll
      <2>3. CASE waiting # "no"
            <3>1. \A c : Handshake(c, p).for = c /\ Handshake(c, p).peer = p
                  BY DEF Handshake
            <3>2. FulfilledByIdentified'
                  BY <2>1, <2>3, <3>1 DEF WaitInv, FulfilledByIdentified
            <3> QED
                BY <2>1, <2>3, <3>1, <3>2, FulfilledMore DEF WaitInv, WaitTypes
      <2> QED
          BY <2>2, <2>3
<1>3. CASE CheckPeer(p)
      <2>1. /\ unchecked # Unset /\ unchecked' = unchecked \ {p}
            /\ \/ handshaking' = handshaking
               \/ handshaking' = handshaking \cup {Handshake("metadata", p)}
            /\ UNCHANGED <<waiting, wanted, listening, fulfilled, identified>>
            BY <1>3 DEF CheckPeer
      <2>2. unchecked' \in SUBSET Nodes /\ unchecked' # Unset
            BY <2>1, UnsetIsNoSet DEF WaitInv, WaitTypes
      <2>3. Handshake("metadata", p).for = "metadata" /\ Handshake("metadata", p).peer = p
            BY DEF Handshake
      <2>4. FulfilledByIdentified'
            BY <2>1, <2>3 DEF WaitInv, FulfilledByIdentified
      <2>5. waiting # "no"
            BY <2>1 DEF WaitInv, WaitTypes
      <2> QED
          BY <2>1, <2>2, <2>3, <2>4, <2>5 DEF WaitInv, WaitTypes, ResolvedByAll
<1> QED
    BY <1>1, <1>2, <1>3

\* Whatever a handshake ends with, the listener takes its codec for served.
LEMMA HandshakeKeeps ==
    ASSUME WaitInv, NEW h \in handshaking, HandshakeEnds(h)
    PROVE  WaitInv'
<1>1. /\ UNCHANGED <<waiting, wanted, unchecked, identified>>
      /\ handshaking' = handshaking \ {h}
      /\ \/ UNCHANGED <<listening, fulfilled>>
         \/ /\ h.for # "metadata" /\ listening' = listening \ {h.for}
            /\ fulfilled' = fulfilled \cup {h.for}
      BY DEF HandshakeEnds, Returned, Threw
<1>2. waiting # "no"
      BY DEF WaitInv, WaitTypes
<1> QED
    BY <1>1, <1>2, FulfilledMore DEF WaitInv, WaitTypes, FulfilledByIdentified

LEMMA WaitStep == WaitInv /\ [RemotePeersNext]_remotePeersVars => WaitInv'
<1> SUFFICES ASSUME WaitInv, [RemotePeersNext]_remotePeersVars
             PROVE  WaitInv'
    OBVIOUS
<1>1. CASE UNCHANGED <<waiting, wanted, listening, fulfilled, handshaking, unchecked, identified>>
      BY <1>1 DEF WaitInv, WaitTypes, FulfilledByIdentified, ResolvedByAll, AllFulfilled,
           Fulfils
<1>2. CASE MeshReady
      <2>1. /\ waiting # "no" /\ fulfilled' = fulfilled \cup {"relay"}
            /\ UNCHANGED <<waiting, wanted, listening, handshaking, unchecked, identified>>
            BY <1>2 DEF MeshReady
      <2> QED
          BY <2>1, FulfilledMore DEF WaitInv, WaitTypes, FulfilledByIdentified
<1> QED
    BY <1>1, <1>2, CallKeeps, EndKeepsWait, NodeMovesKeep, HandshakeKeeps
       DEF RemotePeersNext, remotePeersVars, PeerAsked

\* A wait without a look through the connections ends well only when each of its
\* protocols was served by a node identified since it began, or by the mesh, whatever
\* comes of the handshakes and whoever comes and goes.
THEOREM WaitEndsByEvents == RemotePeersSpec => []ResolvedByEvents
<1>1. WaitInv => ResolvedByEvents
      <2> SUFFICES ASSUME WaitInv, waiting = "resolved", unchecked = Unset
                   PROVE  /\ \A q \in wanted : Served(q, identified)
                          /\ "relay" \in wanted => "relay" \in fulfilled
          BY DEF ResolvedByEvents
      <2>1. \A q \in wanted : Fulfils(q)
            BY DEF WaitInv, ResolvedByAll, AllFulfilled
      <2>2. \A q : "relay" \notin Codecs(q)
            BY DEF Codecs
      <2>3. \A q \in wanted : Served(q, identified)
            BY <2>1, <2>2 DEF Served, Fulfils, WaitInv, FulfilledByIdentified
      <2> QED
          BY <2>1, <2>3 DEF Fulfils
<1> QED
    BY <1>1, WaitInitially, WaitStep, PTL DEF RemotePeersSpec

-----------------------------------------------------------------------------
(* WireExchange: the schemas of the generated code. *)

\* A schema of fewer levels is one of more.
LEMMA DeeperSchema ==
  ASSUME NEW schema
  PROVE  /\ Schema1(schema) => Schema2(schema)
         /\ Schema2(schema) => Schema3(schema)
         /\ Schema3(schema) => Schema4(schema)
<1>1. \A s : Schema1(s) => Schema2(s)
  BY DEF Schema1, Schema2
<1>2. \A s : Schema2(s) => Schema3(s)
  BY <1>1 DEF Schema2, Schema3
<1>3. \A s : Schema3(s) => Schema4(s)
  BY <1>2 DEF Schema3, Schema4
<1> QED
  BY <1>1, <1>2, <1>3

\* The fields of a schema, one by one.
Fields(schema, n, ofs) ==
  /\ n \in Nat
  /\ schema = [i \in 1..n |-> schema[i]]
  /\ \A i \in 1..n :
       /\ schema[i].rule \in {"plain", "optional", "repeated"}
       /\ schema[i].rule = "plain" => schema[i].of = <<>>
       /\ schema[i].of \in ofs
  /\ \A i, j \in 1..n :
       i # j => schema[i].no # schema[j].no /\ schema[i].name # schema[j].name

\* From its fields one by one, that a schema is one of the generated code.
LEMMA FieldsGood ==
  ASSUME NEW schema, NEW n, NEW ofs, Fields(schema, n, ofs)
  PROVE  Good(schema) /\ \A i \in DOMAIN schema : schema[i].of \in ofs
<1>1. IsArray(schema) /\ DOMAIN schema = 1..n
  BY ArrayIs DEF Fields
<1> QED
  BY <1>1 DEF Fields, Good

\* The fields of its schema, each with a name and a number of its own.
LEMMA SchemaOfRateLimitProof == Schema1(RateLimitProof)
<1>1. Fields(RateLimitProof, 7, {<<>>})
  BY DEF Fields, RateLimitProof, Plain
<1> QED
  BY <1>1, FieldsGood DEF Schema1

LEMMA SchemaOfWakuMessage == Schema2(WakuMessage)
<1>1. Fields(WakuMessage, 7, {<<>>, RateLimitProof})
  BY DEF Fields, WakuMessage, Plain, Optional, Embedded
<1> QED
  BY <1>1, FieldsGood, SchemaOfRateLimitProof DEF Schema2

\* The five copies of the WakuMessage schema (message.ts and those of light push,
\* filter, store and the old filter) describe the same message.
LEMMA CopiesAreEqual ==
  /\ PushWakuMessage = WakuMessage /\ FilterWakuMessage = WakuMessage
  /\ StoreWakuMessage = WakuMessage /\ WakuMessageV1 = WakuMessage
<1>1. /\ PushRateLimitProof = RateLimitProof /\ FilterRateLimitProof = RateLimitProof
      /\ StoreRateLimitProof = RateLimitProof /\ RateLimitProofV1 = RateLimitProof
  BY DEF RateLimitProof, PushRateLimitProof, FilterRateLimitProof, StoreRateLimitProof,
         RateLimitProofV1
<1> QED
  BY <1>1 DEF WakuMessage, PushWakuMessage, FilterWakuMessage, StoreWakuMessage, WakuMessageV1

LEMMA SchemaOfContentFilter == Schema1(<< Plain(1, "contentTopic") >>)
<1>1. Fields(<< Plain(1, "contentTopic") >>, 1, {<<>>})
  BY DEF Fields, Plain
<1> QED
  BY <1>1, FieldsGood DEF Schema1

LEMMA SchemaOfPushRequest == Schema3(PushRequest)
<1>1. Fields(PushRequest, 2, {<<>>, WakuMessage})
  BY CopiesAreEqual DEF Fields, PushRequest, Plain, Embedded
<1> QED
  BY <1>1, FieldsGood, SchemaOfWakuMessage DEF Schema3

LEMMA SchemaOfPushResponse == Schema1(PushResponse)
<1>1. Fields(PushResponse, 5, {<<>>})
  BY DEF Fields, PushResponse, Plain, Optional
<1> QED
  BY <1>1, FieldsGood DEF Schema1

LEMMA SchemaOfPushRpc == Schema4(PushRpc)
<1>1. Fields(PushRpc, 3, {<<>>, PushRequest, PushResponse})
  BY DEF Fields, PushRpc, Plain, Embedded
<1> QED
  BY <1>1, FieldsGood, SchemaOfPushRequest, SchemaOfPushResponse, DeeperSchema DEF Schema4

LEMMA SchemaOfLightPushRequestV3 == Schema3(LightPushRequestV3)
<1>1. Fields(LightPushRequestV3, 3, {<<>>, WakuMessage})
  BY CopiesAreEqual DEF Fields, LightPushRequestV3, Plain, Optional, Embedded
<1> QED
  BY <1>1, FieldsGood, SchemaOfWakuMessage DEF Schema3

LEMMA SchemaOfLightPushResponseV3 == Schema1(LightPushResponseV3)
<1>1. Fields(LightPushResponseV3, 4, {<<>>})
  BY DEF Fields, LightPushResponseV3, Plain, Optional
<1> QED
  BY <1>1, FieldsGood DEF Schema1

LEMMA SchemaOfFilterSubscribeRequest == Schema1(FilterSubscribeRequest)
<1>1. Fields(FilterSubscribeRequest, 4, {<<>>})
  BY DEF Fields, FilterSubscribeRequest, Plain, Optional, Repeated
<1> QED
  BY <1>1, FieldsGood DEF Schema1

LEMMA SchemaOfFilterSubscribeResponse == Schema1(FilterSubscribeResponse)
<1>1. Fields(FilterSubscribeResponse, 3, {<<>>})
  BY DEF Fields, FilterSubscribeResponse, Plain, Optional
<1> QED
  BY <1>1, FieldsGood DEF Schema1

LEMMA SchemaOfMessagePush == Schema3(MessagePush)
<1>1. Fields(MessagePush, 2, {<<>>, WakuMessage})
  BY CopiesAreEqual DEF Fields, MessagePush, Optional, Embedded
<1> QED
  BY <1>1, FieldsGood, SchemaOfWakuMessage DEF Schema3

LEMMA SchemaOfMessagePushV1 == Schema3(MessagePushV1)
<1>1. Fields(MessagePushV1, 1, {<<>>, WakuMessage})
  BY CopiesAreEqual DEF Fields, MessagePushV1, Embeddeds
<1> QED
  BY <1>1, FieldsGood, SchemaOfWakuMessage DEF Schema3

LEMMA SchemaOfFilterRequest == Schema2(FilterRequest)
<1>1. Fields(FilterRequest, 3, {<<>>, << Plain(1, "contentTopic") >>})
  BY DEF Fields, FilterRequest, Plain, Embeddeds
<1> QED
  BY <1>1, FieldsGood, SchemaOfContentFilter DEF Schema2

LEMMA SchemaOfFilterRpc == Schema4(FilterRpc)
<1>1. Fields(FilterRpc, 3, {<<>>, FilterRequest, MessagePushV1})
  BY DEF Fields, FilterRpc, Plain, Embedded
<1> QED
  BY <1>1, FieldsGood, SchemaOfFilterRequest, SchemaOfMessagePushV1, DeeperSchema DEF Schema4

LEMMA SchemaOfWakuMessageKeyValue == Schema3(WakuMessageKeyValue)
<1>1. Fields(WakuMessageKeyValue, 3, {<<>>, WakuMessage})
  BY CopiesAreEqual DEF Fields, WakuMessageKeyValue, Optional, Embedded
<1> QED
  BY <1>1, FieldsGood, SchemaOfWakuMessage DEF Schema3

LEMMA SchemaOfStoreQueryRequest == Schema1(StoreQueryRequest)
<1>1. Fields(StoreQueryRequest, 10, {<<>>})
  BY DEF Fields, StoreQueryRequest, Plain, Optional, Repeated
<1> QED
  BY <1>1, FieldsGood DEF Schema1

LEMMA SchemaOfStoreQueryResponse == Schema4(StoreQueryResponse)
<1>1. Fields(StoreQueryResponse, 5, {<<>>, WakuMessageKeyValue})
  BY DEF Fields, StoreQueryResponse, Plain, Optional, Embeddeds
<1> QED
  BY <1>1, FieldsGood, SchemaOfWakuMessageKeyValue DEF Schema4

LEMMA SchemaOfWakuMetadataRequest == Schema1(WakuMetadataRequest)
<1>1. Fields(WakuMetadataRequest, 2, {<<>>})
  BY DEF Fields, WakuMetadataRequest, Optional, Repeated
<1> QED
  BY <1>1, FieldsGood DEF Schema1

LEMMA SchemaOfWakuMetadataResponse == Schema1(WakuMetadataResponse)
<1>1. Fields(WakuMetadataResponse, 2, {<<>>})
  BY DEF Fields, WakuMetadataResponse, Optional, Repeated
<1> QED
  BY <1>1, FieldsGood DEF Schema1

LEMMA SchemaOfPeerInfo == Schema1(PeerInfo)
<1>1. Fields(PeerInfo, 1, {<<>>})
  BY DEF Fields, PeerInfo, Optional
<1> QED
  BY <1>1, FieldsGood DEF Schema1

LEMMA SchemaOfPeerExchangeQuery == Schema1(PeerExchangeQuery)
<1>1. Fields(PeerExchangeQuery, 1, {<<>>})
  BY DEF Fields, PeerExchangeQuery, Optional
<1> QED
  BY <1>1, FieldsGood DEF Schema1

LEMMA SchemaOfPeerExchangeResponse == Schema2(PeerExchangeResponse)
<1>1. Fields(PeerExchangeResponse, 1, {<<>>, PeerInfo})
  BY DEF Fields, PeerExchangeResponse, Embeddeds
<1> QED
  BY <1>1, FieldsGood, SchemaOfPeerInfo DEF Schema2

LEMMA SchemaOfPeerExchangeRPC == Schema3(PeerExchangeRPC)
<1>1. Fields(PeerExchangeRPC, 2, {<<>>, PeerExchangeQuery, PeerExchangeResponse})
  BY DEF Fields, PeerExchangeRPC, Embedded
<1> QED
  BY <1>1, FieldsGood, SchemaOfPeerExchangeQuery, SchemaOfPeerExchangeResponse, DeeperSchema DEF Schema3

LEMMA SchemaOfHistoryEntry == Schema1(HistoryEntry)
<1>1. Fields(HistoryEntry, 3, {<<>>})
  BY DEF Fields, HistoryEntry, Plain, Optional
<1> QED
  BY <1>1, FieldsGood DEF Schema1

LEMMA SchemaOfSdsMessage == Schema2(SdsMessage)
<1>1. Fields(SdsMessage, 8, {<<>>, HistoryEntry})
  BY DEF Fields, SdsMessage, Plain, Optional, Embeddeds
<1> QED
  BY <1>1, FieldsGood, SchemaOfHistoryEntry DEF Schema2

\* So every kind of message of the packages has a schema of at most three levels
\* of embedded messages.
LEMMA SchemaOfMessageType ==
  ASSUME NEW t \in DOMAIN MessageTypes
  PROVE  Schema4(MessageTypes[t])
  BY CopiesAreEqual, DeeperSchema, SchemaOfRateLimitProof, SchemaOfWakuMessage,
     SchemaOfPushRpc, SchemaOfLightPushRequestV3, SchemaOfLightPushResponseV3,
     SchemaOfFilterSubscribeRequest, SchemaOfFilterSubscribeResponse, SchemaOfMessagePush,
     SchemaOfFilterRpc, SchemaOfStoreQueryRequest, SchemaOfStoreQueryResponse,
     SchemaOfWakuMetadataRequest, SchemaOfWakuMetadataResponse, SchemaOfPeerExchangeRPC,
     SchemaOfHistoryEntry, SchemaOfSdsMessage
     DEF MessageTypes

-----------------------------------------------------------------------------
(* WireExchange: the objects that are written. *)

\* The object without fields is one of any schema.
LEMMA EmptyObject ==
  ASSUME NEW schema
  PROVE  Object3(schema, [n \in {} |-> Zero])
<1> DEFINE none == [n \in {} |-> Zero]
<1>1. DOMAIN none = {} /\ none = [n \in DOMAIN none |-> none[n]]
  OBVIOUS
<1> HIDE DEF none
<1> QED
  BY <1>1 DEF Object3, Flat, none

\* An array of one item.
LEMMA OneItem ==
  ASSUME NEW x
  PROVE  IsArray(<<x>>) /\ DOMAIN <<x>> = 1..1 /\ <<x>>[1] = x
<1>1. <<x>> = [i \in 1..1 |-> <<x>>[i]] /\ 1 \in Nat /\ <<x>>[1] = x
  OBVIOUS
<1> QED
  BY <1>1, ArrayIs

\* The object with every field, before its embedded messages.
LEMMA FilledFacts ==
  ASSUME NEW schema, Good(schema)
  PROVE  /\ Flat(schema, Filled(schema))
         /\ \A i \in DOMAIN schema : schema[i].rule = "repeated" =>
              /\ DOMAIN Filled(schema)[schema[i].name] = 1..1
              /\ IsArray(Filled(schema)[schema[i].name])
<1> DEFINE value == CHOOSE v \in Scalars \ {Zero} : TRUE
           full == Filled(schema)
<1>1. full = [n \in FieldNames(schema) |->
                IF FieldOf(schema, n).rule = "repeated" THEN <<value>> ELSE value]
  BY DEF Filled, FieldNames
<1> HIDE DEF value, full
<1>2. DOMAIN full = FieldNames(schema) /\ full = [n \in DOMAIN full |-> full[n]]
  BY <1>1
<1>3. ASSUME NEW i \in DOMAIN schema, schema[i].rule = "repeated"
      PROVE  DOMAIN full[schema[i].name] = 1..1 /\ IsArray(full[schema[i].name])
  <2>1. FieldOf(schema, schema[i].name) = schema[i] /\ schema[i].name \in FieldNames(schema)
    BY FieldOfName DEF FieldNames
  <2>2. full[schema[i].name] = <<value>>
    BY <1>1, <1>3, <2>1
  <2> QED
    BY <2>2, OneItem
<1> QED
  BY <1>2, <1>3 DEF Flat, full

\* The object with every field, without embedded messages.
LEMMA ObjectOfFull1 ==
  ASSUME NEW schema, Schema1(schema), NEW value
  PROVE  Object1(schema, Full1(schema, value))
BY FilledFacts DEF Schema1, Object1, Full1

\* The object with every field, one level of embedded messages.
LEMMA ObjectOfFull2 ==
  ASSUME NEW schema, Schema2(schema), NEW value
  PROVE  Object2(schema, Full2(schema, value))
<1> DEFINE filled == Filled(schema)
           full == Full2(schema, value)
<1>1. Good(schema) /\ Flat(schema, filled)
      /\ \A i \in DOMAIN schema : schema[i].rule = "repeated" =>
           DOMAIN filled[schema[i].name] = 1..1 /\ IsArray(filled[schema[i].name])
  BY FilledFacts DEF Schema2
<1>2. DOMAIN full = DOMAIN filled /\ full = [n \in DOMAIN full |-> full[n]]
  <2>1. DOMAIN filled \cap FieldNames(schema) = DOMAIN filled
    BY <1>1 DEF Flat
  <2> HIDE DEF filled
  <2> QED
    BY <2>1 DEF Full2, WithEmbedded, filled
<1>3. ASSUME NEW i \in DOMAIN schema, schema[i].name \in DOMAIN full
      PROVE  LET f == schema[i]
                 a == filled[f.name]
             IN  full[f.name] = IF f.of = <<>> THEN a
                                ELSE IF f.rule = "repeated"
                                THEN [k \in DOMAIN a |-> Full1(f.of, a[k])]
                                ELSE Full1(f.of, a)
  <2>1. FieldOf(schema, schema[i].name) = schema[i]
    BY <1>1, FieldOfName
  <2> QED
    BY <1>2, <1>3, <2>1 DEF Full2, WithEmbedded
<1> HIDE DEF filled, full
<1>4. ASSUME NEW i \in DOMAIN schema, schema[i].rule = "repeated", schema[i].name \in DOMAIN full
      PROVE  /\ IsArray(full[schema[i].name])
             /\ schema[i].of # <<>> =>
                  \A k \in DOMAIN full[schema[i].name] :
                     Object1(schema[i].of, full[schema[i].name][k])
  <2> DEFINE f == schema[i]
             a == filled[f.name]
             b == full[f.name]
  <2>1. DOMAIN a = 1..1 /\ IsArray(a)
    BY <1>1, <1>4
  <2>2. (b = a /\ f.of = <<>>) \/ (b = [k \in DOMAIN a |-> Full1(f.of, a[k])] /\ f.of # <<>>)
    BY <1>3, <1>4
  <2>3. f.of # <<>> => \A v : Object1(f.of, Full1(f.of, v))
    BY ObjectOfFull1 DEF Schema2
  <2> HIDE DEF f, a, b
  <2>4. CASE b = a /\ f.of = <<>>
    BY <2>1, <2>4 DEF b, f
  <2>5. CASE b = [k \in DOMAIN a |-> Full1(f.of, a[k])] /\ f.of # <<>>
    <3>1. b = [k \in 1..1 |-> b[k]] /\ 1 \in Nat
      BY <2>1, <2>5
    <3>2. IsArray(b)
      BY <3>1, ArrayIs
    <3> QED
      BY <2>3, <2>5, <3>2 DEF b, f
  <2> QED
    BY <2>2, <2>4, <2>5
<1>5. ASSUME NEW i \in DOMAIN schema, schema[i].rule # "repeated", schema[i].of # <<>>,
             schema[i].name \in DOMAIN full
      PROVE  Object1(schema[i].of, full[schema[i].name])
  <2>1. Schema1(schema[i].of)
    BY <1>5 DEF Schema2
  <2> QED
    BY <1>3, <1>5, <2>1, ObjectOfFull1
<1>6. Flat(schema, full)
  BY <1>1, <1>2, <1>4 DEF Flat
<1> QED
  BY <1>4, <1>5, <1>6 DEF Object2, full

\* The object with every field, two levels of embedded messages.
LEMMA ObjectOfFull3 ==
  ASSUME NEW schema, Schema3(schema), NEW value
  PROVE  Object3(schema, Full(schema, value))
<1> DEFINE filled == Filled(schema)
           full == Full(schema, value)
<1>1. Good(schema) /\ Flat(schema, filled)
      /\ \A i \in DOMAIN schema : schema[i].rule = "repeated" =>
           DOMAIN filled[schema[i].name] = 1..1 /\ IsArray(filled[schema[i].name])
  BY FilledFacts DEF Schema3
<1>2. DOMAIN full = DOMAIN filled /\ full = [n \in DOMAIN full |-> full[n]]
  <2>1. DOMAIN filled \cap FieldNames(schema) = DOMAIN filled
    BY <1>1 DEF Flat
  <2> HIDE DEF filled
  <2> QED
    BY <2>1 DEF Full, WithEmbedded, filled
<1>3. ASSUME NEW i \in DOMAIN schema, schema[i].name \in DOMAIN full
      PROVE  LET f == schema[i]
                 a == filled[f.name]
             IN  full[f.name] = IF f.of = <<>> THEN a
                                ELSE IF f.rule = "repeated"
                                THEN [k \in DOMAIN a |-> Full2(f.of, a[k])]
                                ELSE Full2(f.of, a)
  <2>1. FieldOf(schema, schema[i].name) = schema[i]
    BY <1>1, FieldOfName
  <2> QED
    BY <1>2, <1>3, <2>1 DEF Full, WithEmbedded
<1> HIDE DEF filled, full
<1>4. ASSUME NEW i \in DOMAIN schema, schema[i].rule = "repeated", schema[i].name \in DOMAIN full
      PROVE  /\ IsArray(full[schema[i].name])
             /\ schema[i].of # <<>> =>
                  \A k \in DOMAIN full[schema[i].name] :
                     Object2(schema[i].of, full[schema[i].name][k])
  <2> DEFINE f == schema[i]
             a == filled[f.name]
             b == full[f.name]
  <2>1. DOMAIN a = 1..1 /\ IsArray(a)
    BY <1>1, <1>4
  <2>2. (b = a /\ f.of = <<>>) \/ (b = [k \in DOMAIN a |-> Full2(f.of, a[k])] /\ f.of # <<>>)
    BY <1>3, <1>4
  <2>3. f.of # <<>> => \A v : Object2(f.of, Full2(f.of, v))
    BY ObjectOfFull2 DEF Schema3
  <2> HIDE DEF f, a, b
  <2>4. CASE b = a /\ f.of = <<>>
    BY <2>1, <2>4 DEF b, f
  <2>5. CASE b = [k \in DOMAIN a |-> Full2(f.of, a[k])] /\ f.of # <<>>
    <3>1. b = [k \in 1..1 |-> b[k]] /\ 1 \in Nat
      BY <2>1, <2>5
    <3>2. IsArray(b)
      BY <3>1, ArrayIs
    <3> QED
      BY <2>3, <2>5, <3>2 DEF b, f
  <2> QED
    BY <2>2, <2>4, <2>5
<1>5. ASSUME NEW i \in DOMAIN schema, schema[i].rule # "repeated", schema[i].of # <<>>,
             schema[i].name \in DOMAIN full
      PROVE  Object2(schema[i].of, full[schema[i].name])
  <2>1. Schema2(schema[i].of)
    BY <1>5 DEF Schema3
  <2> QED
    BY <1>3, <1>5, <2>1, ObjectOfFull2
<1>6. Flat(schema, full)
  BY <1>1, <1>2, <1>4 DEF Flat
<1> QED
  BY <1>4, <1>5, <1>6 DEF Object3, full

\* Every object that WireExchange writes is one of its schema.
LEMMA ObjectOfType ==
  ASSUME NEW schema, Schema4(schema), NEW obj \in Objects(schema)
  PROVE  Object4(schema, obj)
<1> DEFINE name(i) == schema[i].name
<1>1. Good(schema)
  BY DEF Schema4
<1>2. PICK is \in SUBSET (DOMAIN schema) :
        /\ obj \in [{name(i) : i \in is} -> UNION {FieldValues(schema[i]) : i \in is}]
        /\ \A i \in is : obj[name(i)] \in FieldValues(schema[i])
  BY DEF Objects
<1>3. obj = [n \in DOMAIN obj |-> obj[n]] /\ DOMAIN obj = {name(i) : i \in is}
  BY <1>2
<1>4. ASSUME NEW i \in DOMAIN schema, name(i) \in DOMAIN obj
      PROVE  obj[name(i)] \in FieldValues(schema[i])
  <2>1. i \in is
    BY <1>1, <1>3, <1>4 DEF Good
  <2> QED
    BY <1>2, <2>1
<1>5. ASSUME NEW i \in DOMAIN schema, name(i) \in DOMAIN obj
      PROVE  /\ schema[i].rule = "repeated" => IsArray(obj[name(i)])
             /\ schema[i].of # <<>> =>
                  IF schema[i].rule = "repeated"
                  THEN \A k \in DOMAIN obj[name(i)] : Object3(schema[i].of, obj[name(i)][k])
                  ELSE Object3(schema[i].of, obj[name(i)])
  <2> DEFINE f == schema[i]
             one == IF f.of = <<>> THEN Scalars ELSE {Full(f.of, Zero), [n \in {} |-> Zero]}
             a == obj[name(i)]
  <2>1. /\ f.rule = "repeated" => \E v, w \in one : a = <<v, w>>
        /\ f.rule # "repeated" => a \in one
    <3>1. a \in FieldValues(f)
      BY <1>4, <1>5
    <3> HIDE DEF a, f
    <3> QED
      BY <3>1 DEF FieldValues
  <2>2. f.of # <<>> => \A v \in one : Object3(f.of, v)
    BY EmptyObject, ObjectOfFull3 DEF Schema4
  <2> HIDE DEF one, a, f
  <2>3. CASE f.rule = "repeated"
    <3>1. PICK v \in one, w \in one : a = <<v, w>>
      BY <2>1, <2>3
    <3>2. a = [k \in 1..2 |-> a[k]] /\ 2 \in Nat /\ a[1] = v /\ a[2] = w
      BY <3>1
    <3>3. IsArray(a) /\ DOMAIN a = 1..2
      BY <3>2, ArrayIs
    <3>4. \A k \in 1..2 : a[k] \in one
      BY <3>2
    <3> QED
      BY <2>2, <2>3, <3>3, <3>4 DEF a, f
  <2>4. CASE f.rule # "repeated"
    BY <2>1, <2>2, <2>4 DEF a, f
  <2> QED
    BY <2>3, <2>4
<1>6. Flat(schema, obj)
  BY <1>3, <1>5 DEF Flat, FieldNames
<1> QED
  BY <1>5, <1>6 DEF Object4

-----------------------------------------------------------------------------
(* WireExchange: a wire on its way. *)

\* w is wire with e in the place i, and the rest one place further.
Inserted(w, wire, i, e) ==
  /\ IsArray(w) /\ Len(w) = Len(wire) + 1
  /\ \A k \in 1..(Len(wire) + 1) :
       w[k] = IF k < i THEN wire[k] ELSE IF k = i THEN e ELSE wire[k - 1]

\* Inserting an entry moves those from its place on by one.
LEMMA InsertAtFacts ==
  ASSUME NEW wire, IsArray(wire), NEW i \in 1..(Len(wire) + 1), NEW e
  PROVE  Inserted(InsertAt(wire, i, e), wire, i, e)
<1> DEFINE n == Len(wire)
           a == SubSeq(wire, 1, i - 1)
           b == SubSeq(wire, i, n)
<1>1. n \in Nat /\ DOMAIN wire = 1..n
  BY ArrayFacts
<1> HIDE DEF n
<1>2. i \in Int /\ n \in Int /\ 1 \in Int /\ i - 1 \in Int /\ i - 1 \in Nat /\ i - 1 =< n
  BY <1>1 DEF n
<1>3. /\ a \in Seq(Range(wire)) /\ Len(a) = i - 1 /\ \A k \in 1..(i - 1) : a[k] = wire[k]
  <2>0. \A k \in 1..(i - 1) : k \in 1..n
    BY <1>2
  <2>1. \A k \in 1..(i - 1) : wire[k] \in Range(wire)
    BY <1>1, <2>0 DEF Range
  <2>2. /\ a \in Seq(Range(wire))
        /\ Len(a) = IF 1 <= i - 1 THEN (i - 1) - 1 + 1 ELSE 0
        /\ \A k \in 1 .. ((i - 1) - 1 + 1) : a[k] = wire[1 + k - 1]
    BY <1>2, <2>1, SubSeqProperties
  <2> HIDE DEF a
  <2>3. /\ (i - 1) - 1 + 1 = i - 1 /\ (1 <= i - 1 \/ i - 1 = 0)
        /\ \A k \in 1..(i - 1) : 1 + k - 1 = k
    BY <1>2
  <2>4. Len(a) = i - 1
    BY <2>2, <2>3
  <2> QED
    BY <2>2, <2>3, <2>4
<1>4. /\ b \in Seq(Range(wire)) /\ Len(b) = n - i + 1 /\ \A k \in 1..(n - i + 1) : b[k] = wire[i + k - 1]
  <2>1. \A k \in i..n : wire[k] \in Range(wire)
    BY <1>1, <1>2 DEF Range
  <2>2. /\ b \in Seq(Range(wire))
        /\ Len(b) = IF i <= n THEN n - i + 1 ELSE 0
        /\ \A k \in 1 .. (n - i + 1) : b[k] = wire[i + k - 1]
    BY <1>2, <2>1, SubSeqProperties
  <2> HIDE DEF b
  <2>3. i <= n \/ n - i + 1 = 0
    <3>1. i \in 1..(n + 1)
      BY DEF n
    <3> QED
      BY <1>2, <3>1
  <2>4. Len(b) = n - i + 1
    BY <2>2, <2>3
  <2> QED
    BY <2>2, <2>4
<1> HIDE DEF a, b
<1>5. IsArray(a) /\ IsArray(b)
  <2>1. a = [k \in 1..Len(a) |-> a[k]] /\ Len(a) \in Nat
    BY <1>3, LenProperties
  <2>2. b = [k \in 1..Len(b) |-> b[k]] /\ Len(b) \in Nat
    BY <1>4, LenProperties
  <2> QED
    BY <2>1, <2>2, ArrayIs
<1>6. IsArray(<<e>>) /\ Len(<<e>>) = 1 /\ <<e>>[1] = e
  <2>1. <<e>> = [k \in 1..1 |-> <<e>>[k]] /\ 1 \in Nat /\ <<e>>[1] = e
    OBVIOUS
  <2> QED
    BY <2>1, ArrayIs
<1> DEFINE c == <<e>>
           ac == a \o c
           w == ac \o b
<1>7. c[1] = e /\ Len(c) = 1 /\ IsArray(c)
  BY <1>6
<1> HIDE DEF c
<1>8. /\ IsArray(ac) /\ Len(ac) = i /\ \A k \in 1..(i - 1) : ac[k] = wire[k]
      /\ ac[i] = e
  <2>1. Joined(ac, a, c)
    BY <1>5, <1>7, JoinFacts
  <2> HIDE DEF ac
  <2> QED
    BY <1>2, <1>3, <1>7, <2>1 DEF Joined
<1> HIDE DEF ac
<1>9. /\ IsArray(w) /\ Len(w) = n + 1
      /\ \A k \in 1..i : w[k] = ac[k]
      /\ \A k \in 1..(n - i + 1) : w[i + k] = wire[i + k - 1]
  <2>1. Joined(w, ac, b)
    BY <1>5, <1>8, JoinFacts
  <2> HIDE DEF w
  <2>2. /\ IsArray(w) /\ Len(w) = i + Len(b)
        /\ \A k \in 1..i : w[k] = ac[k]
        /\ \A k \in 1..Len(b) : w[i + k] = b[k]
    BY <1>8, <2>1 DEF Joined
  <2>3. i + (n - i + 1) = n + 1
    BY <1>2
  <2> QED
    BY <1>4, <2>2, <2>3
<1> DEFINE it == InsertAt(wire, i, e)
<1>10. it = w
  BY DEF InsertAt, w, ac, c, a, b, n
<1> HIDE DEF w, it
<1>11. ASSUME NEW k \in 1..(n + 1)
       PROVE  w[k] = IF k < i THEN wire[k] ELSE IF k = i THEN e ELSE wire[k - 1]
  <2>1. CASE k < i
    BY <1>2, <1>8, <1>9, <2>1
  <2>2. CASE k = i
    BY <1>2, <1>8, <1>9, <2>2
  <2>3. CASE k > i
    <3>1. k - i \in 1..(n - i + 1) /\ i + (k - i) = k /\ i + (k - i) - 1 = k - 1 /\ ~(k < i) /\ k # i
      BY <1>2, <2>3
    <3>2. w[i + (k - i)] = wire[i + (k - i) - 1]
      BY <1>9, <3>1
    <3> QED
      BY <3>1, <3>2
  <2> QED
    BY <1>2, <2>1, <2>2, <2>3
<1>12. Inserted(w, wire, i, e)
  BY <1>9, <1>11 DEF Inserted, n
<1>13. Inserted(it, wire, i, e)
  BY <1>10, <1>12
<1> QED
  BY <1>13 DEF it

\* A field that is none of the schema's changes nothing for it.
LEMMA CarriesUnknown ==
  ASSUME NEW schema, NEW obj, NEW wire, Carries(wire, schema, obj),
         NEW i \in 1..(Len(wire) + 1), NEW e,
         \A j \in DOMAIN schema : schema[j].no # e[1]
  PROVE  Carries(InsertAt(wire, i, e), schema, obj)
<1> DEFINE n == Len(wire)
           w == InsertAt(wire, i, e)
<1>1. IsArray(wire) /\ n \in Nat /\ DOMAIN wire = 1..n
  BY ArrayFacts DEF Carries
<1>2. /\ IsArray(w) /\ Len(w) = n + 1
      /\ \A k \in 1..(n + 1) :
           w[k] = IF k < i THEN wire[k] ELSE IF k = i THEN e ELSE wire[k - 1]
  <2>1. Inserted(w, wire, i, e)
    BY <1>1, InsertAtFacts
  <2> HIDE DEF w
  <2> QED
    BY <2>1 DEF Inserted
<1> HIDE DEF w
<1>3. DOMAIN w = 1..(n + 1)
  BY <1>2, ArrayFacts
<1>4. i \in 1..(n + 1)
  OBVIOUS
<1> HIDE DEF n
<1>5. ASSUME NEW j \in DOMAIN schema
      PROVE  At(w, Where(w, schema[j].no)) = At(wire, Where(wire, schema[j].no))
  <2> DEFINE no == schema[j].no
             F == Where(wire, no)
             T == Where(w, no)
             move == [k \in F |-> IF k < i THEN k ELSE k + 1]
  <2>1. no # e[1]
    OBVIOUS
  <2> HIDE DEF no
  <2>2. \A k \in F : k \in 1..n /\ wire[k][1] = no
    BY <1>1 DEF Where
  <2>3. ASSUME NEW k \in F
        PROVE  move[k] \in T /\ w[move[k]] = wire[k]
    <3>1. CASE k < i
      BY <1>1, <1>2, <1>3, <1>4, <2>2, <3>1 DEF Where
    <3>2. CASE ~(k < i)
      <4>1. move[k] = k + 1 /\ k + 1 \in 1..(n + 1) /\ ~(k + 1 < i) /\ k + 1 # i /\ (k + 1) - 1 = k
        BY <1>1, <1>4, <2>2, <3>2
      <4>2. w[k + 1] = wire[k]
        BY <1>2, <4>1
      <4> QED
        BY <1>3, <2>2, <4>1, <4>2 DEF Where
    <3> QED
      BY <3>1, <3>2
  <2>4. \A k, l \in F : k < l => move[k] < move[l]
    BY <1>1, <1>4, <2>2
  <2>5. ASSUME NEW k \in T
        PROVE  \E l \in F : move[l] = k
    <3>1. k \in 1..(n + 1) /\ w[k][1] = no
      BY <1>3 DEF Where
    <3>2. k # i
      BY <1>2, <1>4, <2>1, <3>1
    <3>3. CASE k < i
      <4>1. k \in 1..n /\ w[k] = wire[k]
        BY <1>1, <1>2, <1>4, <3>1, <3>3
      <4>2. k \in F
        BY <1>1, <3>1, <4>1 DEF Where
      <4> QED
        BY <3>3, <4>2
    <3>4. CASE k > i
      <4>1. k - 1 \in 1..n /\ w[k] = wire[k - 1] /\ ~(k - 1 < i) /\ (k - 1) + 1 = k
        BY <1>1, <1>2, <1>4, <3>1, <3>4
      <4>2. k - 1 \in F
        BY <1>1, <3>1, <4>1 DEF Where
      <4> QED
        BY <4>1, <4>2
    <3> QED
      BY <1>1, <1>4, <3>1, <3>2, <3>3, <3>4
  <2>6. F \in SUBSET (1..n) /\ T \in SUBSET (1..(n + 1)) /\ n + 1 \in Nat
    BY <1>1, <1>3 DEF Where
  <2>7. move \in [F -> T]
    BY <2>3
  <2> HIDE DEF move, F, T
  <2>8. Moves(move, F, T) /\ SameItems(move, wire, F, w)
    BY <2>3, <2>4, <2>5, <2>7 DEF Moves, SameItems
  <2>9. Positions(F) /\ Positions(T)
    BY <1>1, <2>6 DEF Positions
  <2>10. At(w, T) = At(wire, F)
    BY <2>8, <2>9, AtMoved
  <2> QED
    BY <2>10 DEF F, T, no
<1> QED
  BY <1>2, <1>5 DEF Carries, w

\* One entry of each number: their order does not matter.
LEMMA CarriesReversed ==
  ASSUME NEW schema, NEW obj, NEW wire, Carries(wire, schema, obj),
         \A i, j \in DOMAIN wire : i # j => wire[i][1] # wire[j][1]
  PROVE  Carries(Reverse(wire), schema, obj)
<1> DEFINE n == Len(wire)
           w == Reverse(wire)
<1>1. IsArray(wire) /\ n \in Nat /\ DOMAIN wire = 1..n
  BY ArrayFacts DEF Carries
<1>2. w = [k \in 1..n |-> wire[(n - k) + 1]]
  BY DEF Reverse
<1> HIDE DEF n, w
<1>3. IsArray(w) /\ DOMAIN w = 1..n
  <2>1. w = [k \in 1..n |-> w[k]]
    BY <1>2
  <2> QED
    BY <1>1, <2>1, ArrayIs
<1>4. ASSUME NEW j \in DOMAIN schema
      PROVE  At(w, Where(w, schema[j].no)) = At(wire, Where(wire, schema[j].no))
  <2> DEFINE no == schema[j].no
             F == Where(wire, no)
             T == Where(w, no)
             move == [k \in F |-> (n - k) + 1]
  <2> HIDE DEF no
  <2>1. \A k \in F : k \in 1..n /\ wire[k][1] = no
    BY <1>1 DEF Where
  <2>2. ASSUME NEW k \in F
        PROVE  move[k] \in T /\ w[move[k]] = wire[k]
    <3>1. k \in 1..n /\ move[k] = (n - k) + 1 /\ (n - k) + 1 \in 1..n /\ (n - ((n - k) + 1)) + 1 = k
      BY <1>1, <2>1
    <3>2. w[(n - k) + 1] = wire[k]
      BY <1>2, <3>1
    <3> QED
      BY <1>3, <2>1, <3>1, <3>2 DEF Where
  <2>3. \A k, l \in F : k = l
    BY <1>1, <2>1
  <2>4. \A k, l \in F : k < l => move[k] < move[l]
    <3> SUFFICES ASSUME NEW k \in F, NEW l \in F, k < l PROVE FALSE
      OBVIOUS
    <3> QED
      BY <1>1, <2>1, <2>3
  <2>5. ASSUME NEW k \in T
        PROVE  \E l \in F : move[l] = k
    <3>1. k \in 1..n /\ w[k][1] = no
      BY <1>3 DEF Where
    <3>2. (n - k) + 1 \in 1..n /\ w[k] = wire[(n - k) + 1] /\ (n - ((n - k) + 1)) + 1 = k
      BY <1>1, <1>2, <3>1
    <3>3. (n - k) + 1 \in F
      BY <1>1, <3>1, <3>2 DEF Where
    <3> QED
      BY <3>2, <3>3
  <2>6. F \in SUBSET (1..n) /\ T \in SUBSET (1..n)
    BY <1>1, <1>3 DEF Where
  <2>7. move \in [F -> T]
    BY <2>2
  <2> HIDE DEF move, F, T
  <2>8. Moves(move, F, T) /\ SameItems(move, wire, F, w)
    BY <2>2, <2>4, <2>5, <2>7 DEF Moves, SameItems
  <2>9. Positions(F) /\ Positions(T)
    BY <1>1, <2>6 DEF Positions
  <2>10. At(w, T) = At(wire, F)
    BY <2>8, <2>9, AtMoved
  <2> QED
    BY <2>10 DEF F, T, no
<1> QED
  BY <1>3, <1>4 DEF Carries, w

-----------------------------------------------------------------------------

\* Every reader knows some fields of the message, or all.
LEMMA ReaderReads ==
  ASSUME NEW t \in DOMAIN MessageTypes, NEW r \in Readers(t)
  PROVE  Reads(r, MessageTypes[t])
<1>1. Good(MessageTypes[t])
  BY SchemaOfMessageType DEF Schema4
<1>2. CASE r = MessageTypes[t]
  BY <1>1, <1>2 DEF Reads
<1>3. CASE t \in Copies /\ r \in {MessageTypes[c] : c \in Copies} \cup {TopicOnlyMessage}
  <2>1. \A c \in Copies : MessageTypes[c] = WakuMessage
    BY CopiesAreEqual DEF Copies, MessageTypes
  <2>2. CASE r = WakuMessage
    BY <1>1, <1>3, <2>1, <2>2 DEF Reads
  <2>3. CASE r = TopicOnlyMessage
    <3>1. Fields(TopicOnlyMessage, 1, {<<>>})
      BY DEF Fields, TopicOnlyMessage, Plain
    <3>2. Good(TopicOnlyMessage)
      BY <3>1, FieldsGood
    <3>3. /\ DOMAIN TopicOnlyMessage = 1..1 /\ TopicOnlyMessage[1] = WakuMessage[2]
          /\ 2 \in DOMAIN WakuMessage
      BY DEF TopicOnlyMessage, WakuMessage
    <3>4. \A i \in DOMAIN TopicOnlyMessage : TopicOnlyMessage[i] = WakuMessage[2]
      BY <3>3
    <3> QED
      BY <1>3, <2>1, <2>3, <3>2, <3>3, <3>4 DEF Reads
  <2> QED
    BY <1>3, <2>1, <2>2, <2>3
<1> QED
  BY <1>2, <1>3 DEF Readers

\* The wire carries the object that was written, whatever it met on its way.
WireInv ==
  /\ exWire # Zero =>
       /\ exType \in DOMAIN MessageTypes
       /\ Object4(MessageTypes[exType], exObject)
       /\ Carries(exWire, MessageTypes[exType],
                  WithEmbedded(MessageTypes[exType], exObject, Encode3))
  /\ exRead # Zero =>
       /\ exWire # Zero
       /\ Faithful(exRead, Completed(MessageTypes[exType], exObject), exReader)

\* No step leaves WireInv.
LEMMA WireStep ==
  ASSUME WireInv, [ExNext]_exVars
  PROVE  WireInv'
<1>1. CASE Write
  <2>1. exRead = Zero /\ exRead' = exRead
    BY <1>1 DEF Write, WireInv
  <2>0. PICK t \in DOMAIN MessageTypes :
          \E obj \in Objects(MessageTypes[t]) :
             exType' = t /\ exObject' = obj /\ exWire' = Encode(MessageTypes[t], obj)
    BY <1>1 DEF Write
  <2>2. PICK obj \in Objects(MessageTypes[t]) :
          exType' = t /\ exObject' = obj /\ exWire' = Encode(MessageTypes[t], obj)
    BY <2>0
  <2>3. Schema4(MessageTypes[t]) /\ Object4(MessageTypes[t], obj)
    BY SchemaOfMessageType, ObjectOfType
  <2> DEFINE x == WithEmbedded(MessageTypes[t], obj, Encode3)
  <2>4. Good(MessageTypes[t]) /\ Flat(MessageTypes[t], x)
    BY <2>3, Embeds4
  <2>5. Carries(exWire', MessageTypes[t], x)
    <3> HIDE DEF x
    <3>1. Carries(EncodeFields(MessageTypes[t], x), MessageTypes[t], x)
      BY <2>4, EncodeCarries
    <3> QED
      BY <2>2, <3>1 DEF Encode, x
  <2> QED
    BY <2>1, <2>2, <2>3, <2>5 DEF WireInv
<1>2. CASE WriteUnknown
  <2>1. /\ exWire # Zero /\ exRead = Zero /\ exRead' = exRead
        /\ exType' = exType /\ exObject' = exObject
    BY <1>2 DEF WriteUnknown
  <2>2. PICK i \in 1..(Len(exWire) + 1) : exWire' = InsertAt(exWire, i, <<Unknown, Zero>>)
    BY <1>2 DEF WriteUnknown
  <2>3. \A j \in DOMAIN MessageTypes[exType] : MessageTypes[exType][j].no # <<Unknown, Zero>>[1]
    BY <2>1, UnknownAssumption DEF WireInv
  <2> DEFINE e == <<Unknown, Zero>>
             x == WithEmbedded(MessageTypes[exType], exObject, Encode3)
  <2>4. Carries(exWire, MessageTypes[exType], x)
    BY <2>1 DEF WireInv
  <2>5. Carries(exWire', MessageTypes[exType], x)
    <3> HIDE DEF x, e
    <3> QED
      BY <2>2, <2>3, <2>4, CarriesUnknown DEF e
  <2> QED
    BY <2>1, <2>5 DEF WireInv
<1>3. CASE WriteReversed
  <2>1. /\ exWire # Zero /\ exRead = Zero /\ exRead' = exRead /\ exWire' = Reverse(exWire)
        /\ exType' = exType /\ exObject' = exObject
        /\ \A i, j \in DOMAIN exWire : i # j => exWire[i][1] # exWire[j][1]
    BY <1>3 DEF WriteReversed
  <2> DEFINE x == WithEmbedded(MessageTypes[exType], exObject, Encode3)
  <2>2. Carries(exWire, MessageTypes[exType], x)
    BY <2>1 DEF WireInv
  <2>3. Carries(exWire', MessageTypes[exType], x)
    <3> HIDE DEF x
    <3> QED
      BY <2>1, <2>2, CarriesReversed
  <2> QED
    BY <2>1, <2>3 DEF WireInv
<1>4. CASE Read
  <2>1. exWire # Zero /\ exType' = exType /\ exObject' = exObject /\ exWire' = exWire
    BY <1>4 DEF Read
  <2>2. PICK r \in Readers(exType) : exReader' = r /\ exRead' = Decode(r, exWire)
    BY <1>4 DEF Read
  <2>3. /\ exType \in DOMAIN MessageTypes
        /\ Schema4(MessageTypes[exType]) /\ Object4(MessageTypes[exType], exObject)
        /\ Carries(exWire, MessageTypes[exType],
                   WithEmbedded(MessageTypes[exType], exObject, Encode3))
    BY <2>1, SchemaOfMessageType DEF WireInv
  <2>4. Reads(r, MessageTypes[exType])
    BY <2>3, ReaderReads
  <2>5. Faithful(exRead', Completed(MessageTypes[exType], exObject), r)
    BY <2>2, <2>3, <2>4, Decodes4
  <2> QED
    BY <2>1, <2>2, <2>3, <2>5 DEF WireInv
<1>5. CASE UNCHANGED exVars
  BY <1>5 DEF exVars, WireInv
<1> QED
  BY <1>1, <1>2, <1>3, <1>4, <1>5 DEF ExNext

\* Whatever is encoded by the generated code of the packages is found by its
\* reader: every field that the reader knows, the defaults for those not given,
\* with unknown fields in between and in whatever order the fields came
\* (encode and decode of every namespace of packages/proto/src/generated).
THEOREM WireKeepsAll == ExSpec => []NothingLost
<1>1. ExInit => WireInv
  BY DEF ExInit, WireInv
<1>2. WireInv => NothingLost
  BY DEF WireInv, NothingLost, Faithful, FieldNames
<1> QED
  BY <1>1, <1>2, WireStep, PTL DEF ExSpec

-----------------------------------------------------------------------------
(* MessageFlow: a field of what an object stands for. *)

\* Each field of what an object stands for.
LEMMA Completes2 ==
  ASSUME NEW schema, Schema2(schema), NEW obj, Object2(schema, obj), NEW i \in DOMAIN schema
  PROVE  /\ schema[i].name \in DOMAIN Completed2(schema, obj) <=>
              schema[i].name \in DOMAIN obj \/ schema[i].rule # "optional"
         /\ schema[i].name \in DOMAIN obj =>
              Completed2(schema, obj)[schema[i].name] =
                IF schema[i].of = <<>> THEN obj[schema[i].name]
                ELSE IF schema[i].rule = "repeated"
                THEN [k \in DOMAIN obj[schema[i].name] |->
                        Completed1(schema[i].of, obj[schema[i].name][k])]
                ELSE Completed1(schema[i].of, obj[schema[i].name])
         /\ schema[i].name \notin DOMAIN obj /\ schema[i].rule = "plain" =>
              Completed2(schema, obj)[schema[i].name] = Zero
<1> DEFINE f == schema[i]
           all == WithDefaults(schema, obj)
           sent == Completed2(schema, obj)
<1>1. Good(schema) /\ Flat(schema, obj)
  BY DEF Schema2, Object2
<1>2. FieldOf(schema, f.name) = f
  BY <1>1, FieldOfName
<1>3. DOMAIN sent = DOMAIN all
  <2>1. DOMAIN all \cap FieldNames(schema) = DOMAIN all
    <3>1. DOMAIN all \subseteq FieldNames(schema)
      BY <1>1, DefaultsFacts
    <3> QED
      BY <3>1
  <2> QED
    BY <2>1 DEF Completed2, WithEmbedded
<1>4. f.name \in DOMAIN all =>
        sent[f.name] = IF f.of = <<>> THEN all[f.name]
                       ELSE IF f.rule = "repeated"
                       THEN [k \in DOMAIN all[f.name] |-> Completed1(f.of, all[f.name][k])]
                       ELSE Completed1(f.of, all[f.name])
  <2>1. f.name \in FieldNames(schema)
    BY DEF FieldNames
  <2> HIDE DEF all
  <2> QED
    BY <1>2, <2>1 DEF Completed2, WithEmbedded, all
<1> HIDE DEF sent
<1>5. /\ f.name \in DOMAIN all <=> f.name \in DOMAIN obj \/ f.rule # "optional"
      /\ f.name \in DOMAIN obj => all[f.name] = obj[f.name]
      /\ f.name \notin DOMAIN obj /\ f.rule # "optional" =>
           all[f.name] = IF f.rule = "plain" THEN Zero ELSE <<>>
  BY <1>1, DefaultsFacts
<1> HIDE DEF all
<1>6. f.rule = "plain" => f.of = <<>> /\ f.rule # "optional"
  BY <1>1 DEF Good
<1>7. /\ f.name \in DOMAIN sent <=> f.name \in DOMAIN obj \/ f.rule # "optional"
      /\ f.name \in DOMAIN obj =>
           sent[f.name] = IF f.of = <<>> THEN obj[f.name]
                          ELSE IF f.rule = "repeated"
                          THEN [k \in DOMAIN obj[f.name] |-> Completed1(f.of, obj[f.name][k])]
                          ELSE Completed1(f.of, obj[f.name])
      /\ f.name \notin DOMAIN obj /\ f.rule = "plain" => sent[f.name] = Zero
  BY <1>3, <1>4, <1>5, <1>6
<1> QED
  BY <1>7 DEF sent

\* Each field of what an object stands for.
LEMMA Completes3 ==
  ASSUME NEW schema, Schema3(schema), NEW obj, Object3(schema, obj), NEW i \in DOMAIN schema
  PROVE  /\ schema[i].name \in DOMAIN Completed3(schema, obj) <=>
              schema[i].name \in DOMAIN obj \/ schema[i].rule # "optional"
         /\ schema[i].name \in DOMAIN obj =>
              Completed3(schema, obj)[schema[i].name] =
                IF schema[i].of = <<>> THEN obj[schema[i].name]
                ELSE IF schema[i].rule = "repeated"
                THEN [k \in DOMAIN obj[schema[i].name] |->
                        Completed2(schema[i].of, obj[schema[i].name][k])]
                ELSE Completed2(schema[i].of, obj[schema[i].name])
         /\ schema[i].name \notin DOMAIN obj /\ schema[i].rule = "plain" =>
              Completed3(schema, obj)[schema[i].name] = Zero
<1> DEFINE f == schema[i]
           all == WithDefaults(schema, obj)
           sent == Completed3(schema, obj)
<1>1. Good(schema) /\ Flat(schema, obj)
  BY DEF Schema3, Object3
<1>2. FieldOf(schema, f.name) = f
  BY <1>1, FieldOfName
<1>3. DOMAIN sent = DOMAIN all
  <2>1. DOMAIN all \cap FieldNames(schema) = DOMAIN all
    <3>1. DOMAIN all \subseteq FieldNames(schema)
      BY <1>1, DefaultsFacts
    <3> QED
      BY <3>1
  <2> QED
    BY <2>1 DEF Completed3, WithEmbedded
<1>4. f.name \in DOMAIN all =>
        sent[f.name] = IF f.of = <<>> THEN all[f.name]
                       ELSE IF f.rule = "repeated"
                       THEN [k \in DOMAIN all[f.name] |-> Completed2(f.of, all[f.name][k])]
                       ELSE Completed2(f.of, all[f.name])
  <2>1. f.name \in FieldNames(schema)
    BY DEF FieldNames
  <2> HIDE DEF all
  <2> QED
    BY <1>2, <2>1 DEF Completed3, WithEmbedded, all
<1> HIDE DEF sent
<1>5. /\ f.name \in DOMAIN all <=> f.name \in DOMAIN obj \/ f.rule # "optional"
      /\ f.name \in DOMAIN obj => all[f.name] = obj[f.name]
      /\ f.name \notin DOMAIN obj /\ f.rule # "optional" =>
           all[f.name] = IF f.rule = "plain" THEN Zero ELSE <<>>
  BY <1>1, DefaultsFacts
<1> HIDE DEF all
<1>6. f.rule = "plain" => f.of = <<>> /\ f.rule # "optional"
  BY <1>1 DEF Good
<1>7. /\ f.name \in DOMAIN sent <=> f.name \in DOMAIN obj \/ f.rule # "optional"
      /\ f.name \in DOMAIN obj =>
           sent[f.name] = IF f.of = <<>> THEN obj[f.name]
                          ELSE IF f.rule = "repeated"
                          THEN [k \in DOMAIN obj[f.name] |-> Completed2(f.of, obj[f.name][k])]
                          ELSE Completed2(f.of, obj[f.name])
      /\ f.name \notin DOMAIN obj /\ f.rule = "plain" => sent[f.name] = Zero
  BY <1>3, <1>4, <1>5, <1>6
<1> QED
  BY <1>7 DEF sent

\* A field without a message stands for itself (two levels).
LEMMA Scalar3 ==
  ASSUME NEW schema, Schema3(schema), NEW obj, Object3(schema, obj), NEW i \in DOMAIN schema,
         NEW n, schema[i].name = n, n \in DOMAIN obj, schema[i].of = <<>>
  PROVE  Completed3(schema, obj)[n] = obj[n]
BY Completes3

\* An embedded message stands for what it stands for by itself (two levels).
LEMMA Single3 ==
  ASSUME NEW schema, Schema3(schema), NEW obj, Object3(schema, obj), NEW i \in DOMAIN schema,
         NEW n, schema[i].name = n, n \in DOMAIN obj,
         NEW of, schema[i].of = of, of # <<>>, schema[i].rule # "repeated"
  PROVE  Completed3(schema, obj)[n] = Completed2(of, obj[n])
BY Completes3

\* Each field of what an object stands for.
LEMMA Completes4 ==
  ASSUME NEW schema, Schema4(schema), NEW obj, Object4(schema, obj), NEW i \in DOMAIN schema
  PROVE  /\ schema[i].name \in DOMAIN Completed(schema, obj) <=>
              schema[i].name \in DOMAIN obj \/ schema[i].rule # "optional"
         /\ schema[i].name \in DOMAIN obj =>
              Completed(schema, obj)[schema[i].name] =
                IF schema[i].of = <<>> THEN obj[schema[i].name]
                ELSE IF schema[i].rule = "repeated"
                THEN [k \in DOMAIN obj[schema[i].name] |->
                        Completed3(schema[i].of, obj[schema[i].name][k])]
                ELSE Completed3(schema[i].of, obj[schema[i].name])
         /\ schema[i].name \notin DOMAIN obj /\ schema[i].rule = "plain" =>
              Completed(schema, obj)[schema[i].name] = Zero
<1> DEFINE f == schema[i]
           all == WithDefaults(schema, obj)
           sent == Completed(schema, obj)
<1>1. Good(schema) /\ Flat(schema, obj)
  BY DEF Schema4, Object4
<1>2. FieldOf(schema, f.name) = f
  BY <1>1, FieldOfName
<1>3. DOMAIN sent = DOMAIN all
  <2>1. DOMAIN all \cap FieldNames(schema) = DOMAIN all
    <3>1. DOMAIN all \subseteq FieldNames(schema)
      BY <1>1, DefaultsFacts
    <3> QED
      BY <3>1
  <2> QED
    BY <2>1 DEF Completed, WithEmbedded
<1>4. f.name \in DOMAIN all =>
        sent[f.name] = IF f.of = <<>> THEN all[f.name]
                       ELSE IF f.rule = "repeated"
                       THEN [k \in DOMAIN all[f.name] |-> Completed3(f.of, all[f.name][k])]
                       ELSE Completed3(f.of, all[f.name])
  <2>1. f.name \in FieldNames(schema)
    BY DEF FieldNames
  <2> HIDE DEF all
  <2> QED
    BY <1>2, <2>1 DEF Completed, WithEmbedded, all
<1> HIDE DEF sent
<1>5. /\ f.name \in DOMAIN all <=> f.name \in DOMAIN obj \/ f.rule # "optional"
      /\ f.name \in DOMAIN obj => all[f.name] = obj[f.name]
      /\ f.name \notin DOMAIN obj /\ f.rule # "optional" =>
           all[f.name] = IF f.rule = "plain" THEN Zero ELSE <<>>
  BY <1>1, DefaultsFacts
<1> HIDE DEF all
<1>6. f.rule = "plain" => f.of = <<>> /\ f.rule # "optional"
  BY <1>1 DEF Good
<1>7. /\ f.name \in DOMAIN sent <=> f.name \in DOMAIN obj \/ f.rule # "optional"
      /\ f.name \in DOMAIN obj =>
           sent[f.name] = IF f.of = <<>> THEN obj[f.name]
                          ELSE IF f.rule = "repeated"
                          THEN [k \in DOMAIN obj[f.name] |-> Completed3(f.of, obj[f.name][k])]
                          ELSE Completed3(f.of, obj[f.name])
      /\ f.name \notin DOMAIN obj /\ f.rule = "plain" => sent[f.name] = Zero
  BY <1>3, <1>4, <1>5, <1>6
<1> QED
  BY <1>7 DEF sent

\* A field without a message stands for itself (three levels).
LEMMA Scalar4 ==
  ASSUME NEW schema, Schema4(schema), NEW obj, Object4(schema, obj), NEW i \in DOMAIN schema,
         NEW n, schema[i].name = n, n \in DOMAIN obj, schema[i].of = <<>>
  PROVE  Completed(schema, obj)[n] = obj[n]
BY Completes4

\* An embedded message stands for what it stands for by itself (three levels).
LEMMA Single4 ==
  ASSUME NEW schema, Schema4(schema), NEW obj, Object4(schema, obj), NEW i \in DOMAIN schema,
         NEW n, schema[i].name = n, n \in DOMAIN obj,
         NEW of, schema[i].of = of, of # <<>>, schema[i].rule # "repeated"
  PROVE  Completed(schema, obj)[n] = Completed3(of, obj[n])
BY Completes4

\* Each message of a repeated field stands for what it stands for by itself (three levels).
LEMMA Several4 ==
  ASSUME NEW schema, Schema4(schema), NEW obj, Object4(schema, obj), NEW i \in DOMAIN schema,
         NEW n, schema[i].name = n, n \in DOMAIN obj,
         NEW of, schema[i].of = of, of # <<>>, schema[i].rule = "repeated",
         NEW k \in DOMAIN obj[n]
  PROVE  Completed(schema, obj)[n][k] = Completed3(of, obj[n][k])
<1> DEFINE all == WithDefaults(schema, obj)
<1>1. Good(schema) /\ Flat(schema, obj)
  BY DEF Schema4, Object4
<1>2. FieldOf(schema, n) = schema[i]
  BY <1>1, FieldOfName
<1>3. n \in DOMAIN all \cap FieldNames(schema) /\ all[n] = obj[n]
  <2>1. n \in DOMAIN all /\ all[n] = obj[n]
    BY <1>1, DefaultsFacts
  <2> QED
    BY <2>1 DEF FieldNames
<1> HIDE DEF all
<1>4. Completed(schema, obj)[n] = [j \in DOMAIN all[n] |-> Completed3(of, all[n][j])]
  BY <1>2, <1>3 DEF Completed, WithEmbedded, all
<1> QED
  BY <1>3, <1>4

\* An optional field that is not given stays so (three levels).
LEMMA Absent4 ==
  ASSUME NEW schema, Schema4(schema), NEW obj, Object4(schema, obj), NEW i \in DOMAIN schema,
         NEW n, schema[i].name = n, schema[i].rule = "optional"
  PROVE  n \in DOMAIN Completed(schema, obj) <=> n \in DOMAIN obj
BY Completes4

-----------------------------------------------------------------------------
(* MessageFlow: WakuMessage on the wire. *)

\* An IProtoMessage with every field that is not optional: the objects of toProtoObj.
IsProto(proto) ==
  /\ proto = [n \in DOMAIN proto |-> proto[n]]
  /\ {"payload", "version", "contentTopic", "timestamp", "ephemeral"} \subseteq DOMAIN proto
  /\ DOMAIN proto \subseteq
       {"payload", "version", "contentTopic", "timestamp", "ephemeral", "meta"}

\* Such an object is one of the WakuMessage schema, at whatever level it is embedded.
LEMMA ProtoIsObject ==
  ASSUME NEW proto, IsProto(proto)
  PROVE  /\ Object2(WakuMessage, proto) /\ Object3(WakuMessage, proto)
         /\ Object4(WakuMessage, proto)
<1>1. /\ DOMAIN WakuMessage = 1..7
      /\ WakuMessage[1].name = "payload" /\ WakuMessage[2].name = "contentTopic"
      /\ WakuMessage[3].name = "version" /\ WakuMessage[4].name = "timestamp"
      /\ WakuMessage[5].name = "meta" /\ WakuMessage[6].name = "rateLimitProof"
      /\ WakuMessage[7].name = "ephemeral"
      /\ \A i \in 1..7 : WakuMessage[i].rule # "repeated"
      /\ \A i \in 1..7 : WakuMessage[i].of # <<>> => WakuMessage[i].name = "rateLimitProof"
  BY DEF WakuMessage, Plain, Optional, Embedded
<1>2. "rateLimitProof" \notin DOMAIN proto
  BY DEF IsProto
<1>3. \A n \in {"payload", "version", "contentTopic", "timestamp", "ephemeral", "meta"} :
         \E i \in DOMAIN WakuMessage : WakuMessage[i].name = n
  BY <1>1
<1>4. DOMAIN proto \subseteq FieldNames(WakuMessage)
  BY <1>3 DEF IsProto, FieldNames
<1>5. Flat(WakuMessage, proto)
  BY <1>1, <1>4 DEF Flat, IsProto
<1>6. \A i \in DOMAIN WakuMessage :
         ~(WakuMessage[i].name \in DOMAIN proto /\ WakuMessage[i].of # <<>>)
  BY <1>1, <1>2
<1> QED
  BY <1>5, <1>6 DEF Object2, Object3, Object4

\* And it has nothing that a default could fill.
LEMMA ProtoIsComplete ==
  ASSUME NEW proto, IsProto(proto)
  PROVE  /\ Completed2(WakuMessage, proto) = proto /\ Completed3(WakuMessage, proto) = proto
         /\ Completed(WakuMessage, proto) = proto
<1>1. /\ DOMAIN WakuMessage = 1..7
      /\ WakuMessage[1].name = "payload" /\ WakuMessage[2].name = "contentTopic"
      /\ \A i \in 1..7 : WakuMessage[i].rule # "optional" => i = 1 \/ i = 2
      /\ \A i \in 1..7 : WakuMessage[i].of # <<>> => WakuMessage[i].name = "rateLimitProof"
  BY DEF WakuMessage, Plain, Optional, Embedded
<1>2. Good(WakuMessage) /\ Flat(WakuMessage, proto)
  BY ProtoIsObject, SchemaOfWakuMessage DEF Schema2, Object2
<1>3. /\ "rateLimitProof" \notin DOMAIN proto /\ "payload" \in DOMAIN proto
      /\ "contentTopic" \in DOMAIN proto /\ proto = [n \in DOMAIN proto |-> proto[n]]
  BY DEF IsProto
<1> DEFINE all == WithDefaults(WakuMessage, proto)
<1>4. all = proto
  <2>1. DOMAIN all = DOMAIN proto
    <3>1. \A i \in DOMAIN WakuMessage :
            WakuMessage[i].name \in DOMAIN all <=>
              WakuMessage[i].name \in DOMAIN proto \/ WakuMessage[i].rule # "optional"
      BY <1>2, DefaultsFacts
    <3>2. DOMAIN proto \subseteq DOMAIN all /\ DOMAIN all \subseteq FieldNames(WakuMessage)
      BY <1>2, DefaultsFacts
    <3> HIDE DEF all
    <3>3. ASSUME NEW n \in DOMAIN all PROVE n \in DOMAIN proto
      <4>1. PICK i \in DOMAIN WakuMessage : WakuMessage[i].name = n
        BY <3>2 DEF FieldNames
      <4>2. n \in DOMAIN proto \/ i = 1 \/ i = 2
        BY <1>1, <3>1, <4>1
      <4> QED
        BY <1>1, <1>3, <4>1, <4>2
    <3> QED
      BY <3>2, <3>3
  <2>2. /\ \A n \in DOMAIN proto : all[n] = proto[n]
        /\ all = [n \in DOMAIN all |-> all[n]]
    BY <1>2, DefaultsFacts
  <2> HIDE DEF all
  <2> QED
    BY <1>3, <2>1, <2>2
<1>5. ASSUME NEW n \in DOMAIN proto PROVE FieldOf(WakuMessage, n).of = <<>>
  <2>1. PICK i \in DOMAIN WakuMessage : WakuMessage[i].name = n
    BY <1>2 DEF Flat, FieldNames
  <2>2. FieldOf(WakuMessage, n) = WakuMessage[i]
    BY <1>2, <2>1, FieldOfName
  <2> QED
    BY <1>1, <1>3, <2>1, <2>2
<1> HIDE DEF all
<1>6. DOMAIN all \cap FieldNames(WakuMessage) = DOMAIN proto
  BY <1>2, <1>4 DEF Flat
<1>7. Completed2(WakuMessage, proto) = [n \in DOMAIN proto |-> proto[n]]
  BY <1>4, <1>5, <1>6 DEF Completed2, WithEmbedded, all
<1>8. Completed3(WakuMessage, proto) = [n \in DOMAIN proto |-> proto[n]]
  BY <1>4, <1>5, <1>6 DEF Completed3, WithEmbedded, all
<1>9. Completed(WakuMessage, proto) = [n \in DOMAIN proto |-> proto[n]]
  BY <1>4, <1>5, <1>6 DEF Completed, WithEmbedded, all
<1> QED
  BY <1>3, <1>7, <1>8, <1>9

\* So it is decoded as it was encoded.
LEMMA ProtoOnTheWire ==
  ASSUME NEW proto, IsProto(proto)
  PROVE  Decode(WakuMessage, Encode(WakuMessage, proto)) = proto
BY ProtoIsObject, ProtoIsComplete, SchemaOfWakuMessage, DeeperSchema, RoundTrip4

-----------------------------------------------------------------------------
(* MessageFlow: what a server or a client reads of it. *)

\* The server of light push v2 reads the message and the topic of the request.
LEMMA ServedByV2 ==
  ASSUME NEW proto, IsProto(proto), NEW topic, NEW id
  PROVE  Decode(PushRpc, Encode(PushRpc, createV2Rpc(id, proto, topic))).request.message = proto
         /\ Decode(PushRpc, Encode(PushRpc, createV2Rpc(id, proto, topic))).request.pubsubTopic = topic
<1> DEFINE inner == [message |-> proto, pubsubTopic |-> topic]
           rpc == [requestId |-> id, request |-> inner]
<1>1. createV2Rpc(id, proto, topic) = rpc
  BY DEF createV2Rpc
<1>2. /\ DOMAIN PushRequest = 1..2
      /\ PushRequest[1].name = "pubsubTopic" /\ PushRequest[1].of = <<>>
      /\ PushRequest[2].name = "message" /\ PushRequest[2].of = WakuMessage
      /\ PushRequest[1].rule # "repeated" /\ PushRequest[2].rule # "repeated"
  BY CopiesAreEqual DEF PushRequest, Plain, Embedded
<1>3. /\ DOMAIN PushRpc = 1..3
      /\ PushRpc[1].name = "requestId" /\ PushRpc[1].of = <<>>
      /\ PushRpc[2].name = "request" /\ PushRpc[2].of = PushRequest /\ PushRpc[3].name = "response"
      /\ \A i \in 1..3 : PushRpc[i].rule # "repeated"
  BY DEF PushRpc, Plain, Embedded
<1>4. PushRequest # <<>> /\ WakuMessage # <<>>
  BY DEF PushRequest, WakuMessage
<1>5. /\ DOMAIN inner = {"message", "pubsubTopic"} /\ inner = [n \in DOMAIN inner |-> inner[n]]
      /\ inner["message"] = proto /\ inner["pubsubTopic"] = topic
  OBVIOUS
<1> HIDE DEF inner
<1>6. /\ DOMAIN rpc = {"requestId", "request"} /\ rpc = [n \in DOMAIN rpc |-> rpc[n]]
      /\ rpc["request"] = inner
  OBVIOUS
<1> HIDE DEF rpc
<1>7. Object3(PushRequest, inner)
  <2>1. Flat(PushRequest, inner)
    BY <1>2, <1>5 DEF Flat, FieldNames
  <2>2. Object2(WakuMessage, proto)
    BY ProtoIsObject
  <2> QED
    BY <1>2, <1>5, <2>1, <2>2 DEF Object3
<1>8. Object4(PushRpc, rpc)
  <2>1. Flat(PushRpc, rpc)
    BY <1>3, <1>6 DEF Flat, FieldNames
  <2> QED
    BY <1>3, <1>6, <1>7, <2>1 DEF Object4
<1>9. Schema3(PushRequest) /\ Schema4(PushRpc)
  BY SchemaOfPushRequest, SchemaOfPushRpc
<1>10. Decode(PushRpc, Encode(PushRpc, rpc)) = Completed(PushRpc, rpc)
  BY <1>8, <1>9, RoundTrip4
<1>11. Completed(PushRpc, rpc)["request"] = Completed3(PushRequest, inner)
  BY <1>3, <1>4, <1>6, <1>8, <1>9, Single4
<1>12. Completed3(PushRequest, inner)["message"] = Completed2(WakuMessage, proto)
  BY <1>2, <1>4, <1>5, <1>7, <1>9, Single3
<1>13. Completed3(PushRequest, inner)["pubsubTopic"] = topic
  BY <1>2, <1>5, <1>7, <1>9, Scalar3
<1> QED
  BY <1>1, <1>10, <1>11, <1>12, <1>13, ProtoIsComplete

\* The server of light push v3 reads the message and the topic of the request.
LEMMA ServedByV3 ==
  ASSUME NEW proto, IsProto(proto), NEW topic, NEW id,
         NEW rpc, rpc = [requestId |-> id, pubsubTopic |-> topic, message |-> proto]
  PROVE  /\ Decode(LightPushRequestV3, Encode(LightPushRequestV3, rpc)).message = proto
         /\ Decode(LightPushRequestV3, Encode(LightPushRequestV3, rpc)).pubsubTopic = topic
<1> DEFINE S == LightPushRequestV3
<1>1. /\ DOMAIN S = 1..3
      /\ S[1].name = "requestId" /\ S[1].of = <<>>
      /\ S[2].name = "pubsubTopic" /\ S[2].of = <<>>
      /\ S[3].name = "message" /\ S[3].of = WakuMessage
      /\ \A i \in 1..3 : S[i].rule # "repeated"
  BY CopiesAreEqual DEF LightPushRequestV3, Plain, Optional, Embedded
<1>2. WakuMessage # <<>>
  BY DEF WakuMessage
<1>3. /\ DOMAIN rpc = {"requestId", "pubsubTopic", "message"}
      /\ rpc = [n \in DOMAIN rpc |-> rpc[n]]
      /\ rpc["message"] = proto /\ rpc["pubsubTopic"] = topic
  OBVIOUS
<1> HIDE DEF S
<1>4. Schema3(S) /\ Schema4(S)
  BY SchemaOfLightPushRequestV3, DeeperSchema DEF S
<1>5. Flat(S, rpc)
  BY <1>1, <1>3 DEF Flat, FieldNames
<1>6. Object4(S, rpc)
  BY <1>1, <1>3, <1>5, ProtoIsObject DEF Object4
<1>7. Decode(S, Encode(S, rpc)) = Completed(S, rpc)
  BY <1>4, <1>6, RoundTrip4
<1>8. Completed(S, rpc)["message"] = Completed3(WakuMessage, proto)
  BY <1>1, <1>2, <1>3, <1>4, <1>6, Single4
<1>9. Completed(S, rpc)["pubsubTopic"] = topic
  BY <1>1, <1>3, <1>4, <1>6, Scalar4
<1> QED
  BY <1>7, <1>8, <1>9, ProtoIsComplete DEF S

\* The client of filter reads the message and the topic of the push.
LEMMA PushedByFilter ==
  ASSUME NEW proto, IsProto(proto), NEW topic,
         NEW push, push = [wakuMessage |-> proto, pubsubTopic |-> topic]
  PROVE  /\ Decode(MessagePush, Encode(MessagePush, push)).wakuMessage = proto
         /\ Decode(MessagePush, Encode(MessagePush, push)).pubsubTopic = topic
<1> DEFINE S == MessagePush
<1>1. /\ DOMAIN S = 1..2
      /\ S[1].name = "wakuMessage" /\ S[1].of = WakuMessage
      /\ S[2].name = "pubsubTopic" /\ S[2].of = <<>>
      /\ \A i \in 1..2 : S[i].rule # "repeated"
  BY CopiesAreEqual DEF MessagePush, Optional, Embedded
<1>2. WakuMessage # <<>>
  BY DEF WakuMessage
<1>3. /\ DOMAIN push = {"wakuMessage", "pubsubTopic"}
      /\ push = [n \in DOMAIN push |-> push[n]]
      /\ push["wakuMessage"] = proto /\ push["pubsubTopic"] = topic
  OBVIOUS
<1> HIDE DEF S
<1>4. Schema4(S)
  BY SchemaOfMessagePush, DeeperSchema DEF S
<1>5. Flat(S, push)
  BY <1>1, <1>3 DEF Flat, FieldNames
<1>6. Object4(S, push)
  BY <1>1, <1>3, <1>5, ProtoIsObject DEF Object4
<1>7. Decode(S, Encode(S, push)) = Completed(S, push)
  BY <1>4, <1>6, RoundTrip4
<1>8. Completed(S, push)["wakuMessage"] = Completed3(WakuMessage, proto)
  BY <1>1, <1>2, <1>3, <1>4, <1>6, Single4
<1>9. Completed(S, push)["pubsubTopic"] = topic
  BY <1>1, <1>3, <1>4, <1>6, Scalar4
<1> QED
  BY <1>7, <1>8, <1>9, ProtoIsComplete DEF S

\* The client of store reads the message and the topic of the first entry.
LEMMA AnsweredByStore ==
  ASSUME NEW proto, IsProto(proto), NEW topic, NEW hash, NEW code,
         NEW entry, entry = [messageHash |-> hash, pubsubTopic |-> topic, message |-> proto],
         NEW response, response = [statusCode |-> code, messages |-> <<entry>>]
  PROVE  LET first == Decode(StoreQueryResponse, Encode(StoreQueryResponse, response)).messages[1]
         IN  first.message = proto /\ first.pubsubTopic = topic
<1> DEFINE S == StoreQueryResponse
           E == WakuMessageKeyValue
<1>1. /\ DOMAIN S = 1..5
      /\ S[2].name = "statusCode" /\ S[4].name = "messages" /\ S[4].of = E
      /\ S[4].rule = "repeated" /\ \A i \in 1..5 : i # 4 => S[i].of = <<>> /\ S[i].rule # "repeated"
  BY DEF StoreQueryResponse, Plain, Optional, Embeddeds
<1>2. /\ DOMAIN E = 1..3
      /\ E[1].name = "messageHash" /\ E[1].of = <<>>
      /\ E[2].name = "message" /\ E[2].of = WakuMessage
      /\ E[3].name = "pubsubTopic" /\ E[3].of = <<>>
      /\ \A i \in 1..3 : E[i].rule # "repeated"
  BY CopiesAreEqual DEF WakuMessageKeyValue, Optional, Embedded
<1>3. WakuMessage # <<>> /\ E # <<>>
  BY DEF WakuMessage, WakuMessageKeyValue
<1>4. /\ DOMAIN entry = {"messageHash", "pubsubTopic", "message"}
      /\ entry = [n \in DOMAIN entry |-> entry[n]]
      /\ entry["message"] = proto /\ entry["pubsubTopic"] = topic
  OBVIOUS
<1>5. /\ DOMAIN response = {"statusCode", "messages"}
      /\ response = [n \in DOMAIN response |-> response[n]]
      /\ response["messages"] = <<entry>>
  OBVIOUS
<1>6. IsArray(<<entry>>) /\ DOMAIN <<entry>> = 1..1 /\ <<entry>>[1] = entry
  BY OneItem
<1>7. Schema3(E) /\ Schema4(S)
  BY SchemaOfWakuMessageKeyValue, SchemaOfStoreQueryResponse
<1> HIDE DEF S, E
<1>8. Flat(E, entry)
  BY <1>2, <1>4 DEF Flat, FieldNames
<1>9. Object3(E, entry)
  BY <1>2, <1>4, <1>8, ProtoIsObject DEF Object3
<1>10. Flat(S, response)
  <2>1. DOMAIN response \subseteq FieldNames(S)
    BY <1>1, <1>5 DEF FieldNames
  <2>2. ASSUME NEW i \in DOMAIN S, S[i].rule = "repeated"
        PROVE  IsArray(response[S[i].name])
    BY <1>1, <1>5, <1>6, <2>2
  <2> QED
    BY <1>5, <2>1, <2>2 DEF Flat
<1>11. Object4(S, response)
  <2>1. ASSUME NEW i \in DOMAIN S, S[i].of # <<>>
        PROVE  /\ S[i].rule = "repeated" /\ S[i].of = E
               /\ \A k \in DOMAIN response[S[i].name] : Object3(E, response[S[i].name][k])
    BY <1>1, <1>5, <1>6, <1>9, <2>1
  <2> QED
    BY <1>10, <2>1 DEF Object4
<1>12. Decode(S, Encode(S, response)) = Completed(S, response)
  BY <1>7, <1>11, RoundTrip4
<1>13. Completed(S, response)["messages"][1] = Completed3(E, entry)
  <2>1. 1 \in DOMAIN response["messages"] /\ response["messages"][1] = entry
    BY <1>5, <1>6
  <2> QED
    BY <1>1, <1>3, <1>5, <1>7, <1>11, <2>1, Several4
<1>14. Completed3(E, entry)["message"] = Completed2(WakuMessage, proto)
  BY <1>2, <1>3, <1>4, <1>7, <1>9, Single3
<1>15. Completed3(E, entry)["pubsubTopic"] = topic
  BY <1>2, <1>4, <1>7, <1>9, Scalar3
<1> QED
  BY <1>12, <1>13, <1>14, <1>15, ProtoIsComplete DEF S

-----------------------------------------------------------------------------
(* MessageFlow: answers to a push, and SDS messages. *)

\* Whatever a node answers to what it refused, the sender reports no success.
LEMMA RefusalsOfV2 ==
  ASSUME NEW a \in AnswersV2(FALSE)
  PROVE  handleResponse(a, "v2", SUCCESS, RlnErrors) # "success"
<1>1. /\ DOMAIN PushRpc = 1..3
      /\ PushRpc[1].name = "requestId" /\ PushRpc[1].of = <<>>
      /\ PushRpc[2].name = "request"
      /\ PushRpc[3].name = "response" /\ PushRpc[3].of = PushResponse
      /\ PushRpc[3].rule = "optional"
      /\ \A i \in 1..3 : PushRpc[i].rule # "repeated"
  BY DEF PushRpc, Plain, Embedded
<1>2. /\ DOMAIN PushResponse = 1..5
      /\ PushResponse[1].name = "isSuccess" /\ PushResponse[2].name = "info"
      /\ \A i \in 1..5 : PushResponse[i].of = <<>> /\ PushResponse[i].rule # "repeated"
      /\ PushResponse # <<>>
  BY DEF PushResponse, Plain, Optional
<1>3. Schema3(PushResponse) /\ Schema4(PushRpc)
  BY SchemaOfPushResponse, SchemaOfPushRpc, DeeperSchema
<1>4. CASE a = <<>>
  BY <1>4 DEF handleResponse
<1>5. CASE a = Encode(PushRpc, [requestId |-> "id"])
  <2> DEFINE o == [requestId |-> "id"]
             rpc == Decode(PushRpc, a)
  <2>1. DOMAIN o = {"requestId"} /\ o = [n \in DOMAIN o |-> o[n]]
    OBVIOUS
  <2> HIDE DEF o
  <2>2. Flat(PushRpc, o)
    BY <1>1, <2>1 DEF Flat, FieldNames
  <2>3. Object4(PushRpc, o)
    BY <1>1, <2>1, <2>2 DEF Object4
  <2>4. rpc = Completed(PushRpc, o)
    BY <1>3, <1>5, <2>3, RoundTrip4 DEF o
  <2>5. "response" \notin DOMAIN Completed(PushRpc, o)
    BY <1>1, <1>3, <2>1, <2>3, Absent4
  <2> HIDE DEF rpc
  <2>6. ~HasField(rpc, "response")
    BY <2>4, <2>5 DEF HasField
  <2> QED
    BY <2>6 DEF handleResponse, handleV2Response, rpc
<1>6. ASSUME NEW i, a = Encode(PushRpc, [requestId |-> "id",
                                        response |-> [isSuccess |-> Zero, info |-> i]])
      PROVE  handleResponse(a, "v2", SUCCESS, RlnErrors) # "success"
  <2> DEFINE x == [isSuccess |-> Zero, info |-> i]
             o == [requestId |-> "id", response |-> x]
             rpc == Decode(PushRpc, a)
  <2>1. /\ DOMAIN x = {"isSuccess", "info"} /\ x = [n \in DOMAIN x |-> x[n]]
        /\ x["isSuccess"] = Zero
    OBVIOUS
  <2> HIDE DEF x
  <2>2. /\ DOMAIN o = {"requestId", "response"} /\ o = [n \in DOMAIN o |-> o[n]]
        /\ o["response"] = x
    OBVIOUS
  <2>3. a = Encode(PushRpc, o)
    BY <1>6 DEF x
  <2> HIDE DEF o
  <2>4. Object3(PushResponse, x)
    <3>1. Flat(PushResponse, x)
      BY <1>2, <2>1 DEF Flat, FieldNames
    <3> QED
      BY <1>2, <3>1 DEF Object3
  <2>5. Object4(PushRpc, o)
    <3>1. Flat(PushRpc, o)
      BY <1>1, <2>2 DEF Flat, FieldNames
    <3> QED
      BY <1>1, <2>2, <2>4, <3>1 DEF Object4
  <2>6. rpc = Completed(PushRpc, o)
    BY <1>3, <2>3, <2>5, RoundTrip4
  <2>7. Completed(PushRpc, o)["response"] = Completed3(PushResponse, x)
    BY <1>1, <1>2, <1>3, <2>2, <2>5, Single4
  <2>8. Completed3(PushResponse, x)["isSuccess"] = Zero
    BY <1>2, <1>3, <2>1, <2>4, Scalar3
  <2> HIDE DEF rpc
  <2>9. rpc.response.isSuccess = Zero
    BY <2>6, <2>7, <2>8
  <2> QED
    BY <2>9 DEF handleResponse, handleV2Response, rpc
<1> QED
  BY <1>4, <1>5, <1>6 DEF AnswersV2

\* The same of version 3, whose answer tells success by its status code.
LEMMA RefusalsOfV3 ==
  ASSUME NEW a \in AnswersV3(FALSE)
  PROVE  handleResponse(a, "v3", SUCCESS, RlnErrors) # "success"
<1> DEFINE S == LightPushResponseV3
<1>1. /\ DOMAIN S = 1..4
      /\ S[2].name = "statusCode" /\ S[3].name = "statusDesc"
      /\ \A i \in 1..4 : S[i].of = <<>> /\ S[i].rule # "repeated"
  BY DEF LightPushResponseV3, Plain, Optional
<1>2. Schema4(S)
  BY SchemaOfLightPushResponseV3, DeeperSchema
<1> HIDE DEF S
<1>3. CASE a = <<>>
  BY <1>3 DEF handleResponse
<1>4. ASSUME NEW c, c # SUCCESS, a = Encode(S, [statusCode |-> c, statusDesc |-> "refused"])
      PROVE  handleResponse(a, "v3", SUCCESS, RlnErrors) # "success"
  <2> DEFINE o == [statusCode |-> c, statusDesc |-> "refused"]
  <2>1. /\ DOMAIN o = {"statusCode", "statusDesc"} /\ o = [n \in DOMAIN o |-> o[n]]
        /\ o["statusCode"] = c
    OBVIOUS
  <2>2. a = Encode(S, o)
    BY <1>4
  <2> HIDE DEF o
  <2>3. Object4(S, o)
    <3>1. Flat(S, o)
      BY <1>1, <2>1 DEF Flat, FieldNames
    <3> QED
      BY <1>1, <3>1 DEF Object4
  <2>4. Decode(S, a) = Completed(S, o)
    BY <1>2, <2>2, <2>3, RoundTrip4
  <2>5. Completed(S, o)["statusCode"] = c
    BY <1>1, <1>2, <2>1, <2>3, Scalar4
  <2> QED
    BY <1>4, <2>4, <2>5 DEF handleResponse, handleV3Response, S
<1> QED
  BY <1>3, <1>4, ValuesAssumption DEF AnswersV3, S

-----------------------------------------------------------------------------
(* SDS messages. *)

\* What a channel sends is an object of the schema SdsMessage.
LEMMA SdsIsObject ==
  ASSUME NEW m \in SdsMessages
  PROVE  Object4(SdsMessage, m.sds)
<1> DEFINE S == SdsMessage
           o == m.sds
<1>1. /\ DOMAIN S = 1..8
      /\ S[5].name = "causalHistory" /\ S[7].name = "repairRequest"
      /\ \A i \in 1..8 : S[i].rule = "repeated" <=> i \in {5, 7}
      /\ \A i \in 1..8 : S[i].of # <<>> => i \in {5, 7}
      /\ S[5].of = HistoryEntry /\ S[7].of = HistoryEntry
  BY DEF SdsMessage, Plain, Optional, Embeddeds
<1>2. /\ DOMAIN HistoryEntry = 1..3
      /\ \A i \in 1..3 : HistoryEntry[i].rule # "repeated" /\ HistoryEntry[i].of = <<>>
  BY DEF HistoryEntry, Plain, Optional
<1>3. /\ o = [n \in DOMAIN o |-> o[n]] /\ DOMAIN o \subseteq FieldNames(S)
  BY SdsMessagesAssumption DEF IsObject, FieldNames
<1>4. ASSUME NEW n \in {"causalHistory", "repairRequest"}, n \in DOMAIN o
      PROVE  IsArray(o[n]) /\ \A k \in DOMAIN o[n] : Object3(HistoryEntry, o[n][k])
  <2>1. /\ Len(o[n]) \in Nat /\ o[n] = [i \in 1..Len(o[n]) |-> o[n][i]]
        /\ \A i \in 1..Len(o[n]) : IsObject(HistoryEntry, o[n][i])
    BY <1>4, SdsMessagesAssumption
  <2>2. IsArray(o[n]) /\ DOMAIN o[n] = 1..Len(o[n])
    BY <2>1, ArrayIs
  <2>3. ASSUME NEW e, IsObject(HistoryEntry, e)
        PROVE  Object3(HistoryEntry, e)
    BY <1>2, <2>3 DEF IsObject, Object3, Flat, FieldNames
  <2> QED
    BY <2>1, <2>2, <2>3
<1> HIDE DEF S, o
<1>5. Flat(S, o)
  <2>1. ASSUME NEW i \in DOMAIN S, S[i].rule = "repeated", S[i].name \in DOMAIN o
        PROVE  IsArray(o[S[i].name])
    BY <1>1, <1>4, <2>1
  <2> QED
    BY <1>3, <2>1 DEF Flat
<1>6. ASSUME NEW i \in DOMAIN S, S[i].name \in DOMAIN o, S[i].of # <<>>
      PROVE  /\ S[i].rule = "repeated"
             /\ \A k \in DOMAIN o[S[i].name] : Object3(S[i].of, o[S[i].name][k])
  BY <1>1, <1>4, <1>6
<1>7. Object4(S, o)
  BY <1>5, <1>6 DEF Object4
<1> QED
  BY <1>7 DEF S, o

\* The reader of an SDS message finds its kind and its fields.
LEMMA SdsUnwrapped ==
  ASSUME NEW m \in SdsMessages
  PROVE  SdsDecode(Encode(SdsMessage, m.sds)) =
           [kind |-> KindOf(m.sds), message |-> Completed(SdsMessage, m.sds)]
<1> DEFINE S == SdsMessage
           o == m.sds
           obj == Completed(S, o)
<1>1. /\ DOMAIN S = 1..8
      /\ S[4].name = "lamportTimestamp" /\ S[4].rule = "optional"
      /\ S[8].name = "content" /\ S[8].rule = "optional" /\ S[8].of = <<>>
  BY DEF SdsMessage, Plain, Optional, Embeddeds
<1>2. Schema4(S)
  BY SchemaOfSdsMessage, DeeperSchema
<1>3. Object4(S, o)
  BY SdsIsObject
<1>4. IF "content" \in DOMAIN o THEN o["content"] # Zero ELSE "lamportTimestamp" \in DOMAIN o
  BY SdsMessagesAssumption DEF HasField
<1>5. Decode(S, Encode(S, o)) = obj
  BY <1>2, <1>3, RoundTrip4
<1>6. obj = [n \in DOMAIN obj |-> obj[n]]
  BY DEF Completed, WithEmbedded
<1>10. KindOf(m.sds) = IF "content" \notin DOMAIN o THEN "sync"
                      ELSE IF "lamportTimestamp" \in DOMAIN o THEN "content" ELSE "ephemeral"
  BY DEF KindOf, HasField
<1>11. SdsDecode(Encode(SdsMessage, m.sds)) =
         LET x == Decode(S, Encode(S, o))
         IN  CASE testContentMessage(x)   -> [kind |-> "content", message |-> x]
               [] testEphemeralMessage(x) -> [kind |-> "ephemeral",
                                              message |-> Without(x, {"lamportTimestamp"})]
               [] testSyncMessage(x)      -> [kind |-> "sync",
                                              message |-> Without(x, {"content"})]
               [] OTHER                   -> Undefined
  BY DEF SdsDecode
<1> HIDE DEF S, o
<1>7. "lamportTimestamp" \in DOMAIN obj <=> "lamportTimestamp" \in DOMAIN o
  BY <1>1, <1>2, <1>3, Absent4
<1>8. "content" \in DOMAIN obj <=> "content" \in DOMAIN o
  BY <1>1, <1>2, <1>3, Absent4
<1>9. "content" \in DOMAIN o => obj["content"] = o["content"]
  BY <1>1, <1>2, <1>3, Scalar4
<1> HIDE DEF obj
<1>12. \A f : f \notin DOMAIN obj => Without(obj, {f}) = obj
  BY <1>6 DEF Without
<1>13. CASE "content" \in DOMAIN o /\ "lamportTimestamp" \in DOMAIN o
  <2>1. testContentMessage(obj) /\ ~testEphemeralMessage(obj) /\ ~testSyncMessage(obj)
    BY <1>4, <1>7, <1>8, <1>9, <1>13
       DEF testContentMessage, testEphemeralMessage, testSyncMessage, HasField, NonEmpty
  <2> QED
    BY <1>5, <1>10, <1>11, <1>13, <2>1 DEF obj, S, o
<1>14. CASE "content" \in DOMAIN o /\ "lamportTimestamp" \notin DOMAIN o
  <2>1. ~testContentMessage(obj) /\ testEphemeralMessage(obj) /\ ~testSyncMessage(obj)
    BY <1>4, <1>7, <1>8, <1>9, <1>14
       DEF testContentMessage, testEphemeralMessage, testSyncMessage, HasField, NonEmpty
  <2>2. Without(obj, {"lamportTimestamp"}) = obj
    BY <1>7, <1>12, <1>14
  <2> QED
    BY <1>5, <1>10, <1>11, <1>14, <2>1, <2>2 DEF obj, S, o
<1>15. CASE "content" \notin DOMAIN o
  <2>1. ~testContentMessage(obj) /\ ~testEphemeralMessage(obj) /\ testSyncMessage(obj)
    BY <1>4, <1>7, <1>8, <1>9, <1>15
       DEF testContentMessage, testEphemeralMessage, testSyncMessage, HasField, NonEmpty
  <2>2. Without(obj, {"content"}) = obj
    BY <1>8, <1>12, <1>15
  <2> QED
    BY <1>5, <1>10, <1>11, <1>15, <2>1, <2>2 DEF obj, S, o
<1> QED
  BY <1>13, <1>14, <1>15

-----------------------------------------------------------------------------
(* MessageFlow: encoders and decoders. *)

\* What an encoder makes of the message o was handed with.
Carried(proto, o) ==
  /\ IsProto(proto)
  /\ o.message.payload.size <= MegaByte
  /\ IF o.encoder.scheme = "none"
     THEN proto["version"] = Zero /\ proto["payload"] = o.message.payload
     ELSE /\ proto["version"] = Version1
          /\ proto["payload"].data.scheme = o.encoder.scheme
          /\ proto["payload"].data.key = o.encoder.key
          /\ proto["payload"].data.text = preCipher(o.message.payload, o.encoder.signer)

\* What an application handed to be sent.
Handed(o) ==
  /\ o.encoder \in Encoders
  /\ \E m \in SdsMessages : o.sds = m.sds /\ o.message.payload = Wrapped(m).payload

\* The object an encoder makes has the payload, or its signed envelope under the
\* scheme and key of the encoder.
LEMMA EncoderMakes ==
  ASSUME NEW o, Handed(o), isMessageSizeUnderCap(o.encoder, o.message), NEW stamp, NEW r
  PROVE  Carried(toProtoObj(o.encoder, o.message, stamp, r), o)
<1> DEFINE e == o.encoder
           p == o.message.payload
           time == IF HasField(o.message, "timestamp") THEN o.message.timestamp ELSE stamp
           meta == IF e.meta = Undefined THEN <<>> ELSE [meta |-> e.meta]
           fields(payload, version) ==
             [payload |-> payload, version |-> version, contentTopic |-> e.contentTopic,
              timestamp |-> time, ephemeral |-> e.ephemeral]
           made(payload, version) == With(fields(payload, version), meta)
<1>1. e.scheme \in {"none", "symmetric", "ecies"} /\ p.size <= MegaByte
  <2>1. PICK m \in SdsMessages : p = Wrapped(m).payload
    BY DEF Handed
  <2>2. p.size = m.size /\ m.size \in Nat
    BY <2>1, SdsMessagesAssumption DEF Wrapped
  <2>3. /\ EncodedSize(e, p.size) \in Nat /\ EncodedSize(e, p.size) >= p.size
        /\ EncodedSize(e, p.size) <= MegaByte
    BY <2>2, EncodedSizeAssumption DEF Handed, isMessageSizeUnderCap
  <2>4. p.size <= MegaByte
    BY <2>2, <2>3 DEF MegaByte
  <2> QED
    BY <2>4, SchemesAssumption DEF Handed
<1>2. \A payload, version :
         protoMessage(e, o.message, payload, version, stamp) = made(payload, version)
  BY DEF protoMessage
<1>3. DOMAIN meta \subseteq {"meta"}
  <2>1. DOMAIN <<>> = {} /\ DOMAIN [meta |-> e.meta] = {"meta"}
    OBVIOUS
  <2> QED
    BY <2>1
<1> HIDE DEF e, p, time, meta
<1>4. ASSUME NEW payload, NEW version
      PROVE  /\ IsProto(made(payload, version))
             /\ made(payload, version)["payload"] = payload
             /\ made(payload, version)["version"] = version
  <2> DEFINE f == fields(payload, version)
             x == made(payload, version)
  <2>1. /\ DOMAIN f = {"payload", "version", "contentTopic", "timestamp", "ephemeral"}
        /\ f["payload"] = payload /\ f["version"] = version
    OBVIOUS
  <2> HIDE DEF f, fields
  <2>2. x = [n \in DOMAIN f \cup DOMAIN meta |-> IF n \in DOMAIN meta THEN meta[n] ELSE f[n]]
    BY DEF With, f
  <2> HIDE DEF x, made
  <2>3. x["payload"] = payload /\ x["version"] = version
    BY <1>3, <2>1, <2>2
  <2>4. DOMAIN x = DOMAIN f \cup DOMAIN meta /\ x = [n \in DOMAIN x |-> x[n]]
    BY <2>2
  <2>5. IsProto(x)
    BY <1>3, <2>1, <2>4 DEF IsProto
  <2> QED
    BY <2>3, <2>5 DEF x
<1> HIDE DEF made
<1>5. CASE e.scheme = "none"
  <2>1. toProtoObj(e, o.message, stamp, r) = made(p, Zero)
    BY <1>2, <1>5 DEF toProtoObj, plainToProtoObj, Version0, p
  <2> QED
    BY <1>1, <1>4, <1>5, <2>1 DEF Carried, e, p
<1>6. ASSUME e.scheme # "none", NEW payload,
             toProtoObj(e, o.message, stamp, r) = made(payload, Version1),
             payload = Encrypt(e.scheme, preCipher(p, e.signer), e.key, r)
      PROVE  Carried(toProtoObj(e, o.message, stamp, r), o)
  <2>1. /\ payload.data.scheme = e.scheme /\ payload.data.key = e.key
        /\ payload.data.text = preCipher(p, e.signer)
    BY <1>6 DEF Encrypt
  <2> QED
    BY <1>1, <1>4, <1>6, <2>1 DEF Carried, e, p
<1>7. CASE e.scheme = "symmetric"
  <2>1. toProtoObj(e, o.message, stamp, r)
          = made(Encrypt(e.scheme, preCipher(p, e.signer), e.key, r), Version1)
    BY <1>2, <1>7 DEF toProtoObj, symmetricToProtoObj, encryptSymmetric, p
  <2> QED
    BY <1>6, <1>7, <2>1 DEF e
<1>8. CASE e.scheme = "ecies"
  <2>1. toProtoObj(e, o.message, stamp, r)
          = made(Encrypt(e.scheme, preCipher(p, e.signer), e.key, r), Version1)
    BY <1>2, <1>8 DEF toProtoObj, eciesToProtoObj, encryptAsymmetric, p
  <2> QED
    BY <1>6, <1>8, <2>1 DEF e
<1> QED
  BY <1>1, <1>5, <1>7, <1>8 DEF e

\* A time of its own changes nothing of what a decoder reads.
LEMMA TimeIsKept ==
  ASSUME NEW o, NEW proto, Carried(proto, o), NEW stamp
  PROVE  Carried(With(proto, [timestamp |-> stamp]), o)
<1> DEFINE t == [timestamp |-> stamp]
           x == With(proto, t)
<1>1. DOMAIN t = {"timestamp"}
  OBVIOUS
<1> HIDE DEF t
<1>2. x = [n \in DOMAIN proto \cup DOMAIN t |-> IF n \in DOMAIN t THEN t[n] ELSE proto[n]]
  BY DEF With
<1> HIDE DEF x
<1>3. IsProto(proto)
  BY DEF Carried
<1>4. x["payload"] = proto["payload"] /\ x["version"] = proto["version"]
  BY <1>1, <1>2, <1>3 DEF IsProto
<1>5. IsProto(x)
  <2>1. DOMAIN x = DOMAIN proto /\ x = [n \in DOMAIN x |-> x[n]]
    BY <1>1, <1>2, <1>3 DEF IsProto
  <2> QED
    BY <1>3, <2>1 DEF IsProto
<1>6. Carried(x, o)
  BY <1>4, <1>5 DEF Carried
<1> QED
  BY <1>6 DEF x, t

\* The size field of a message that is sent has a length, so its envelope is read.
LEMMA EnvelopeIsRead ==
  ASSUME NEW p, p.size \in Nat, p.size <= MegaByte, NEW signer
  PROVE  postCipher(preCipher(p, signer)) = [payload |-> p, signer |-> signer]
<1>1. SizeFieldLength(p.size) \in 1..3
  BY DEF SizeFieldLength, MegaByte
<1> DEFINE flags == addPayloadSizeField(p)
           all == IF signer # Undefined /\ flags < 4 THEN flags + 4 ELSE flags
           env == preCipher(p, signer)
<1>2. flags \in 1..3
  BY <1>1 DEF addPayloadSizeField
<1> HIDE DEF flags
<1>3. all = IF signer # Undefined THEN flags + 4 ELSE flags
  BY <1>2
<1> HIDE DEF all
<1>4. env = [flags |-> all, payload |-> p, signature |-> signer]
  BY DEF preCipher, all, flags
<1>5. all % 4 # 0 /\ (all \div 4 = 1 <=> signer # Undefined)
  <2>1. \A n \in 1..3 : n % 4 # 0 /\ (n + 4) % 4 # 0 /\ n \div 4 = 0 /\ (n + 4) \div 4 = 1
    OBVIOUS
  <2> QED
    BY <1>2, <1>3, <2>1
<1>6. /\ env.flags = all /\ env.payload = p /\ env.signature = signer
  BY <1>4
<1> HIDE DEF env
<1>7. postCipher(env) = [payload |-> p,
                         signer |-> IF all \div 4 = 1 THEN signer ELSE Undefined]
  BY <1>5, <1>6 DEF postCipher, getSizeOfPayloadSizeField, isMessageSigned
<1>8. (IF all \div 4 = 1 THEN signer ELSE Undefined) = signer
  BY <1>5
<1>9. postCipher(env) = [payload |-> p, signer |-> signer]
  BY <1>7, <1>8
<1> QED
  BY <1>9 DEF env

\* A decoder that fits finds the SDS message and its signer, any other finds nothing
\* (fromProtoObj of version 0, of ECIES and of symmetric encryption).
LEMMA DecoderReads ==
  ASSUME NEW o, Handed(o), NEW proto, Carried(proto, o), NEW d \in Decoders
  PROVE  IF Fits(d, o.encoder)
         THEN /\ Unwrapped(fromProtoObj(d, proto)) =
                   [kind |-> KindOf(o.sds), message |-> Completed(SdsMessage, o.sds)]
              /\ Signer(fromProtoObj(d, proto)) = o.encoder.signer
         ELSE Unwrapped(fromProtoObj(d, proto)) = Undefined
<1> DEFINE e == o.encoder
           p == o.message.payload
           decoded == fromProtoObj(d, proto)
<1>1. PICK m \in SdsMessages : o.sds = m.sds /\ p = Wrapped(m).payload
  BY DEF Handed
<1>2. /\ e \in Encoders /\ e.scheme \in {"none", "symmetric", "ecies"}
      /\ e.scheme = "none" => e.signer = Undefined
      /\ d.scheme \in {"none", "symmetric", "ecies"}
  BY SchemesAssumption DEF Handed
<1>3. /\ preCipher(p, e.signer) # Undefined
      /\ [payload |-> p, signer |-> e.signer] # Undefined
  BY <1>1, <1>2, UndefinedAssumption
<1>4. p.data = Encode(SdsMessage, m.sds) /\ p.size = m.size
  BY <1>1 DEF Wrapped
<1>5. SdsDecode(p.data) = [kind |-> KindOf(o.sds), message |-> Completed(SdsMessage, o.sds)]
  BY <1>1, <1>4, SdsUnwrapped
<1>6. p.size \in Nat /\ p.size <= MegaByte
  BY <1>4, SdsMessagesAssumption DEF Carried
<1>7. /\ "version" \in DOMAIN proto
      /\ IF e.scheme = "none"
         THEN proto["version"] = Zero /\ proto["payload"] = p
         ELSE /\ proto["version"] = Version1
              /\ proto["payload"].data.scheme = e.scheme
              /\ proto["payload"].data.key = e.key
              /\ proto["payload"].data.text = preCipher(p, e.signer)
  BY DEF Carried, IsProto
<1> DEFINE text == preCipher(p, e.signer)
<1>8. postCipher(text) = [payload |-> p, signer |-> e.signer]
  BY <1>6, EnvelopeIsRead
<1>9. ASSUME decoded = [payload |-> p, signer |-> e.signer]
      PROVE  /\ Unwrapped(decoded) =
                  [kind |-> KindOf(o.sds), message |-> Completed(SdsMessage, o.sds)]
             /\ Signer(decoded) = e.signer
  <2>1. decoded # Undefined /\ decoded.payload = p /\ decoded.signer = e.signer
    BY <1>3, <1>9
  <2> HIDE DEF decoded, e, p
  <2> QED
    BY <1>5, <2>1 DEF Unwrapped, Signer
<1>10. decoded = Undefined => Unwrapped(decoded) = Undefined
  BY DEF Unwrapped
<1>13. fromProtoObj(d, proto) =
         CASE d.scheme = "none"      -> plainFromProtoObj(proto)
           [] d.scheme = "symmetric" -> symmetricFromProtoObj(d, proto)
           [] d.scheme = "ecies"     -> eciesFromProtoObj(d, proto)
  BY DEF fromProtoObj
<1>14. Fits(d, e) <=> d.scheme = e.scheme /\ (d.scheme # "none" => d.key = e.key)
  BY DEF Fits
<1> HIDE DEF e, p, text, decoded
<1>11. CASE d.scheme = "none"
  <2>1. decoded = plainFromProtoObj(proto)
    BY <1>11, <1>13 DEF decoded
  <2>2. CASE e.scheme = "none"
    <3>1. ~NonEmpty(proto, "version")
      BY <1>7, <2>2 DEF NonEmpty, HasField
    <3>2. decoded = [payload |-> p, signer |-> e.signer]
      BY <1>2, <1>7, <2>1, <2>2, <3>1 DEF plainFromProtoObj
    <3> QED
      BY <1>9, <1>11, <1>14, <2>2, <3>2 DEF e, decoded
  <2>3. CASE e.scheme # "none"
    <3>1. NonEmpty(proto, "version")
      BY <1>7, <2>3, ValuesAssumption DEF NonEmpty, HasField
    <3>2. decoded = Undefined
      BY <2>1, <3>1 DEF plainFromProtoObj
    <3> QED
      BY <1>10, <1>11, <1>14, <2>3, <3>2 DEF e, decoded
  <2> QED
    BY <2>2, <2>3
<1>12. CASE d.scheme # "none"
  <2> DEFINE c == proto["payload"]
             plain == IF c.data.scheme = d.scheme /\ c.data.key = d.key
                       THEN c.data.text ELSE Undefined
  <2>1. decoded = IF ~HasVersion1(proto) \/ plain = Undefined
                  THEN Undefined ELSE postCipher(plain)
    <3>1. CASE d.scheme = "symmetric"
      <4>1. decoded = symmetricFromProtoObj(d, proto)
        BY <1>13, <3>1 DEF decoded
      <4> QED
        BY <3>1, <4>1 DEF symmetricFromProtoObj, decryptSymmetric, Decrypt
    <3>2. CASE d.scheme = "ecies"
      <4>1. decoded = eciesFromProtoObj(d, proto)
        BY <1>13, <3>2 DEF decoded
      <4> QED
        BY <3>2, <4>1 DEF eciesFromProtoObj, decryptAsymmetric, Decrypt
    <3> QED
      BY <1>2, <1>12, <3>1, <3>2
  <2>2. CASE e.scheme = "none"
    <3>1. ~HasVersion1(proto)
      BY <1>7, <2>2, ValuesAssumption DEF HasVersion1
    <3>2. decoded = Undefined
      BY <2>1, <3>1
    <3> QED
      BY <1>10, <1>12, <1>14, <2>2, <3>2 DEF e, decoded
  <2>3. CASE e.scheme # "none" /\ ~(d.scheme = e.scheme /\ d.key = e.key)
    <3>1. plain = Undefined
      BY <1>7, <2>3
    <3>2. decoded = Undefined
      BY <2>1, <3>1
    <3> QED
      BY <1>10, <1>12, <1>14, <2>3, <3>2 DEF e, decoded
  <2>4. CASE e.scheme # "none" /\ d.scheme = e.scheme /\ d.key = e.key
    <3>1. plain = text /\ HasVersion1(proto)
      BY <1>7, <2>4 DEF HasVersion1, HasField, text
    <3>2. decoded = [payload |-> p, signer |-> e.signer]
      <4>1. text # Undefined
        BY <1>3 DEF text
      <4> HIDE DEF plain
      <4> QED
        BY <1>8, <2>1, <3>1, <4>1
    <3> QED
      BY <1>9, <1>12, <1>14, <2>4, <3>2 DEF e, decoded
  <2> QED
    BY <2>2, <2>3, <2>4
<1> QED
  BY <1>11, <1>12

-----------------------------------------------------------------------------
(* MessageFlow: the inductive invariant. *)

\* One more item of an array.
LEMMA AppendArray ==
  ASSUME NEW a, IsArray(a), NEW e
  PROVE  /\ IsArray(Append(a, e)) /\ DOMAIN Append(a, e) = 1..(Len(a) + 1)
         /\ \A i \in DOMAIN a : i \in DOMAIN Append(a, e) /\ Append(a, e)[i] = a[i]
         /\ \A i \in DOMAIN Append(a, e) : i \in DOMAIN a \/ Append(a, e)[i] = e
<1> DEFINE S == Range(a) \cup {e}
           b == Append(a, e)
<1>1. a \in Seq(S) /\ e \in S
  <2>1. a \in Seq(Range(a)) /\ Range(a) \subseteq S
    BY DEF IsArray
  <2> QED
    BY <2>1, SeqMonotonic
<1>2. Len(a) \in Nat /\ DOMAIN a = 1..Len(a)
  BY ArrayFacts
<1> HIDE DEF S
<1>3. /\ b \in Seq(S) /\ Len(b) = Len(a) + 1
      /\ \A i \in 1..Len(a) : b[i] = a[i]
      /\ b[Len(a) + 1] = e
  BY <1>1, AppendProperties
<1> HIDE DEF b
<1>4. b \in [1..Len(b) -> S] /\ Len(b) \in Nat
  BY <1>3, LenProperties
<1>5. b = [i \in 1..Len(b) |-> b[i]]
  BY <1>4
<1>6. IsArray(b) /\ DOMAIN b = 1..Len(b)
  BY <1>4, <1>5, ArrayIs
<1> QED
  BY <1>2, <1>3, <1>6 DEF b

\* What is on the network is what the encoder of its sender makes.
FlowInv ==
  /\ IsArray(handed) /\ IsArray(network)
  /\ \A i \in DOMAIN handed : Handed(handed[i])
  /\ \A k \in DOMAIN network :
       /\ network[k].of \in DOMAIN handed
       /\ network[k].wire = Encode(WakuMessage, network[k].proto)
       /\ Carried(network[k].proto, handed[network[k].of])
  /\ seen # Undefined /\ seen.via # "push" => seen.k \in DOMAIN network
  /\ WhatIsSentIsReceived /\ HashesAgree /\ SuccessMeansAccepted

\* A message that is handed changes nothing of what was.
LEMMA HandedStep ==
  ASSUME FlowInv, NEW o, Handed(o), handed' = Append(handed, o), UNCHANGED <<network, seen>>
  PROVE  FlowInv'
<1>1. /\ IsArray(handed')
      /\ \A i \in DOMAIN handed : i \in DOMAIN handed' /\ handed'[i] = handed[i]
      /\ \A i \in DOMAIN handed' : i \in DOMAIN handed \/ handed'[i] = o
  BY AppendArray DEF FlowInv
<1>2. \A i \in DOMAIN handed' : Handed(handed'[i])
  BY <1>1 DEF FlowInv
<1>3. \A k \in DOMAIN network :
        /\ network[k].of \in DOMAIN handed' /\ handed'[network[k].of] = handed[network[k].of]
        /\ network[k].wire = Encode(WakuMessage, network[k].proto)
        /\ Carried(network[k].proto, handed'[network[k].of])
  BY <1>1 DEF FlowInv
<1>4. WhatIsSentIsReceived'
  <2> SUFFICES ASSUME seen # Undefined, seen.via # "push"
               PROVE  LET m == handed'[network[seen.k].of]
                      IN  IF Fits(seen.decoder, m.encoder)
                          THEN /\ seen.sds = [kind |-> KindOf(m.sds),
                                               message |-> Completed(SdsMessage, m.sds)]
                               /\ seen.signer = m.encoder.signer
                          ELSE seen.sds = Undefined
    BY DEF WhatIsSentIsReceived
  <2>1. handed'[network[seen.k].of] = handed[network[seen.k].of]
    BY <1>3 DEF FlowInv
  <2> QED
    BY <2>1 DEF FlowInv, WhatIsSentIsReceived
<1>5. HashesAgree' /\ SuccessMeansAccepted'
  BY DEF FlowInv, HashesAgree, SuccessMeansAccepted
<1> QED
  BY <1>1, <1>2, <1>3, <1>4, <1>5 DEF FlowInv

\* A message that is relayed changes nothing of what was, nor does what is
\* reported of it.
LEMMA NetworkStep ==
  ASSUME FlowInv, UNCHANGED handed,
         NEW entry, \/ network' = network
                    \/ /\ entry.of \in DOMAIN handed
                       /\ entry.wire = Encode(WakuMessage, entry.proto)
                       /\ Carried(entry.proto, handed[entry.of])
                       /\ network' = Append(network, entry),
         seen' = seen \/ (seen'.via = "push" /\ (seen'.reported = "success" => seen'.accepted))
  PROVE  FlowInv'
<1>1. /\ IsArray(network')
      /\ \A k \in DOMAIN network : k \in DOMAIN network' /\ network'[k] = network[k]
      /\ \A k \in DOMAIN network' :
           \/ k \in DOMAIN network
           \/ /\ network'[k].of \in DOMAIN handed
              /\ network'[k].wire = Encode(WakuMessage, network'[k].proto)
              /\ Carried(network'[k].proto, handed[network'[k].of])
  <2>1. CASE network' = network
    BY <2>1 DEF FlowInv
  <2>2. CASE network' = Append(network, entry)
    BY <2>2, AppendArray DEF FlowInv
  <2> QED
    BY <2>1, <2>2
<1>2. \A k \in DOMAIN network' :
        /\ network'[k].of \in DOMAIN handed
        /\ network'[k].wire = Encode(WakuMessage, network'[k].proto)
        /\ Carried(network'[k].proto, handed[network'[k].of])
  BY <1>1 DEF FlowInv
<1>3. seen' # Undefined /\ seen'.via # "push" =>
        seen' = seen /\ seen.k \in DOMAIN network /\ network'[seen.k] = network[seen.k]
  BY <1>1 DEF FlowInv
<1>4. WhatIsSentIsReceived'
  BY <1>3 DEF FlowInv, WhatIsSentIsReceived
<1>5. HashesAgree'
  BY <1>3 DEF FlowInv, HashesAgree
<1>6. SuccessMeansAccepted'
  BY DEF FlowInv, SuccessMeansAccepted
<1> QED
  BY <1>1, <1>2, <1>3, <1>4, <1>5, <1>6 DEF FlowInv

\* A node that takes a push, or refuses it: FlowInv holds after it.
LEMMA PushStep ==
  ASSUME FlowInv, NEW i \in DOMAIN handed, NEW codec \in {"v2", "v3"},
         NEW accepted \in BOOLEAN, PushMessage(i, codec, accepted)
  PROVE  FlowInv'
<1> DEFINE o == handed[i]
           prep == preparePushMessage(o.encoder, o.message, codec, "id", clock, encodings + 1)
           served == ServedRequest(prep.wire, codec)
           entry == [pubsubTopic |-> served.pubsubTopic, of |-> i, proto |-> prep.proto,
                     wire |-> Encode(WakuMessage, served.message)]
           proto == toProtoObj(o.encoder, o.message, clock, encodings + 1)
           topic == o.encoder.pubsubTopic
           rpc == createV3Rpc("id", proto, topic, clock)
<1>1. Handed(o) /\ handed' = handed
  BY DEF FlowInv, PushMessage
<1>2. /\ codec = "v2" \/ codec = "v3"
      /\ "v2" # "v3"
  OBVIOUS
<1>3. CASE o.message.payload.size = 0 \/ ~isMessageSizeUnderCap(o.encoder, o.message)
  <2>1. prep.error \in {"empty payload", "size too big"}
    BY <1>3 DEF preparePushMessage
  <2>2. prep.error # Undefined /\ prep.error # "success"
    BY <2>1, ValuesAssumption
  <2>3. network' = network /\ seen' = Reported(FALSE, prep.error)
    BY <2>2 DEF PushMessage
  <2>4. seen'.via = "push" /\ seen'.reported # "success"
    BY <2>2, <2>3 DEF Reported
  <2> QED
    BY <1>1, <2>3, <2>4, NetworkStep
<1>4. CASE ~(o.message.payload.size = 0) /\ isMessageSizeUnderCap(o.encoder, o.message)
  <2>1. /\ prep.error = Undefined
        /\ prep.proto = IF codec = "v2" THEN proto ELSE rpc.message
        /\ prep.wire = IF codec = "v2" THEN Encode(PushRpc, createV2Rpc("id", proto, topic))
                       ELSE Encode(LightPushRequestV3, rpc)
    BY <1>4 DEF preparePushMessage
  <2>2. /\ network' = IF ~accepted THEN network ELSE Append(network, entry)
        /\ \E a \in IF codec = "v2" THEN AnswersV2(accepted) ELSE AnswersV3(accepted) :
             seen' = Reported(accepted, handleResponse(a, codec, SUCCESS, RlnErrors))
    BY <2>1 DEF PushMessage
  <2>3. entry.of = i /\ entry.proto = prep.proto /\ entry.wire = Encode(WakuMessage, served.message)
    OBVIOUS
  <2>4. served.message = IF codec = "v2" THEN Decode(PushRpc, prep.wire).request.message
                         ELSE Decode(LightPushRequestV3, prep.wire).message
    BY DEF ServedRequest
  <2>5. /\ rpc.message = IF NonEmpty(proto, "timestamp") THEN proto
                         ELSE With(proto, [timestamp |-> clock])
        /\ rpc = [requestId |-> "id", pubsubTopic |-> topic, message |-> rpc.message]
    BY DEF createV3Rpc
  <2>6. Carried(proto, o)
    BY <1>1, <1>4, EncoderMakes
  <2> HIDE DEF o, prep, served, entry, proto, topic, rpc
  <2>7. Carried(rpc.message, o)
    BY <2>5, <2>6, TimeIsKept
  <2>8. served.message = prep.proto /\ Carried(prep.proto, o)
    <3>1. CASE codec = "v2"
      BY <2>1, <2>4, <2>6, <3>1, ServedByV2 DEF Carried
    <3>2. CASE codec = "v3"
      <4>1. IsProto(rpc.message)
        BY <2>7 DEF Carried
      <4>2. Decode(LightPushRequestV3, Encode(LightPushRequestV3, rpc)).message = rpc.message
        BY <2>5, <4>1, ServedByV3
      <4> QED
        BY <1>2, <2>1, <2>4, <2>7, <3>2, <4>2
    <3> QED
      BY <1>2, <3>1, <3>2
  <2>9. seen'.via = "push" /\ (seen'.reported = "success" => seen'.accepted)
    <3>1. PICK a \in IF codec = "v2" THEN AnswersV2(accepted) ELSE AnswersV3(accepted) :
             seen' = Reported(accepted, handleResponse(a, codec, SUCCESS, RlnErrors))
      BY <2>2
    <3>2. /\ seen'.via = "push" /\ seen'.accepted = accepted
          /\ seen'.reported = handleResponse(a, codec, SUCCESS, RlnErrors)
      BY <3>1 DEF Reported
    <3>3. CASE accepted = TRUE
      BY <3>2, <3>3
    <3>4. CASE accepted = FALSE
      <4>1. handleResponse(a, codec, SUCCESS, RlnErrors) # "success"
        <5>1. CASE codec = "v2"
          BY <3>1, <3>4, <5>1, RefusalsOfV2
        <5>2. CASE codec = "v3"
          <6>1. a \in AnswersV3(FALSE)
            BY <1>2, <3>1, <3>4, <5>2
          <6> QED
            BY <5>2, <6>1, RefusalsOfV3
        <5> QED
          BY <1>2, <5>1, <5>2
      <4> QED
        BY <3>2, <4>1
    <3> QED
      BY <3>3, <3>4
  <2>10. \/ network' = network
         \/ /\ entry.of \in DOMAIN handed
            /\ entry.wire = Encode(WakuMessage, entry.proto)
            /\ Carried(entry.proto, handed[entry.of])
            /\ network' = Append(network, entry)
    BY <2>2, <2>3, <2>8 DEF o
  <2> QED
    BY <1>1, <2>9, <2>10, NetworkStep
<1> QED
  BY <1>3, <1>4

\* A message that is published by relay or by light push: FlowInv holds after it.
LEMMA PublishStep ==
  ASSUME FlowInv, NEW i \in DOMAIN handed, Publish(i)
  PROVE  FlowInv'
<1> DEFINE o == handed[i]
           wire == toWire(o.encoder, o.message, clock, encodings)
           proto == toProtoObj(o.encoder, o.message, clock, encodings)
           entry == [pubsubTopic |-> o.encoder.pubsubTopic, of |-> i, wire |-> wire,
                     proto |-> proto]
<1>1. /\ Handed(o) /\ handed' = handed /\ seen' = seen /\ isMessageSizeUnderCap(o.encoder, o.message)
      /\ network' = Append(network, entry)
  BY DEF FlowInv, Publish
<1>2. wire = Encode(WakuMessage, proto)
  BY DEF toWire
<1>3. entry.of = i /\ entry.proto = proto /\ entry.wire = wire
  OBVIOUS
<1>4. Carried(proto, o)
  BY <1>1, EncoderMakes
<1> HIDE DEF wire, proto, entry
<1>5. /\ entry.of \in DOMAIN handed /\ entry.wire = Encode(WakuMessage, entry.proto)
      /\ Carried(entry.proto, handed[entry.of])
  BY <1>2, <1>3, <1>4
<1> QED
  BY <1>1, <1>5, NetworkStep

\* What a reader makes of a relayed message: FlowInv holds after it.
LEMMA ObservedStep ==
  ASSUME FlowInv, NEW k \in DOMAIN network, NEW d \in Decoders, NEW via, via # "push",
         seen' = Observed(via, k, d, fromProtoObj(d, network[k].proto),
                          messageHash(network[k].pubsubTopic, network[k].proto)),
         UNCHANGED <<handed, network>>
  PROVE  FlowInv'
<1> DEFINE proto == network[k].proto
           o == handed[network[k].of]
           sds == Unwrapped(fromProtoObj(d, proto))
           signer == Signer(fromProtoObj(d, proto))
           hash == messageHash(network[k].pubsubTopic, proto)
           made == [kind |-> KindOf(o.sds), message |-> Completed(SdsMessage, o.sds)]
<1>1. Handed(o) /\ Carried(proto, o)
  BY DEF FlowInv
<1>2. seen' = [via |-> via, k |-> k, decoder |-> d, sds |-> sds, signer |-> signer, hash |-> hash]
  BY DEF Observed
<1>3. IF Fits(d, o.encoder) THEN sds = made /\ signer = o.encoder.signer ELSE sds = Undefined
  BY <1>1, DecoderReads
<1> HIDE DEF sds, signer, hash, proto, made
<1>4. /\ seen'.via = via /\ seen'.k = k /\ seen'.decoder = d /\ seen'.sds = sds
      /\ seen'.signer = signer /\ seen'.hash = hash
  BY <1>2
<1>5. WhatIsSentIsReceived'
  <2>1. Fits(d, o.encoder) => seen'.sds = made /\ seen'.signer = o.encoder.signer
    BY <1>3, <1>4
  <2>2. ~Fits(d, o.encoder) => seen'.sds = Undefined
    BY <1>3, <1>4
  <2>3. handed'[network'[seen'.k].of] = o
    BY <1>4
  <2> QED
    BY <1>4, <2>1, <2>2, <2>3 DEF WhatIsSentIsReceived, made
<1>6. HashesAgree'
  BY <1>4 DEF HashesAgree, hash, proto
<1>7. SuccessMeansAccepted'
  BY <1>4 DEF SuccessMeansAccepted
<1> QED
  BY <1>4, <1>5, <1>6, <1>7 DEF FlowInv

\* A message received by filter, store or relay: FlowInv holds after it.
LEMMA ReceiveStep ==
  ASSUME FlowInv, Receive
  PROVE  FlowInv'
<1>1. PICK k \in DOMAIN network, d \in Decoders :
        ReceiveByFilter(k, d) \/ ReceiveByStore(k, d) \/ ReceiveByRelay(k, d)
  BY DEF Receive
<1>2. handed' = handed /\ network' = network
  BY DEF Receive
<1> DEFINE proto == network[k].proto
           topic == network[k].pubsubTopic
<1>3. Carried(proto, handed[network[k].of]) /\ network[k].wire = Encode(WakuMessage, proto)
  BY DEF FlowInv
<1>4. IsProto(proto)
  BY <1>3 DEF Carried
<1>5. Decode(WakuMessage, network[k].wire) = proto
  BY <1>3, <1>4, ProtoOnTheWire
<1>6. CASE ReceiveByFilter(k, d)
  <2> DEFINE push == [wakuMessage |-> proto, pubsubTopic |-> topic]
             read == Decode(MessagePush, Encode(MessagePush, push))
  <2>1. read.wakuMessage = proto /\ read.pubsubTopic = topic
    BY <1>4, PushedByFilter
  <2>2. seen' = Observed("filter", k, d, fromProtoObj(d, read.wakuMessage),
                         messageHash(read.pubsubTopic, read.wakuMessage))
    BY <1>5, <1>6 DEF ReceiveByFilter
  <2> QED
    BY <1>2, <2>1, <2>2, ObservedStep
<1>7. CASE ReceiveByStore(k, d)
  <2> DEFINE entry == [messageHash |-> "hash", pubsubTopic |-> topic, message |-> proto]
             response == [statusCode |-> SUCCESS, messages |-> <<entry>>]
             read == Decode(StoreQueryResponse, Encode(StoreQueryResponse, response)).messages[1]
  <2>1. read.message = proto /\ read.pubsubTopic = topic
    BY <1>4, AnsweredByStore
  <2>2. seen' = Observed("store", k, d, fromProtoObj(d, read.message),
                         messageHash(read.pubsubTopic, read.message))
    BY <1>5, <1>7 DEF ReceiveByStore
  <2> QED
    BY <1>2, <2>1, <2>2, ObservedStep
<1>8. CASE ReceiveByRelay(k, d)
  <2> DEFINE none == [ephemeral |-> Zero]
  <2>1. With(none, proto) = proto
    <3>1. DOMAIN none = {"ephemeral"}
      OBVIOUS
    <3> HIDE DEF none
    <3>2. DOMAIN none \cup DOMAIN proto = DOMAIN proto /\ proto = [n \in DOMAIN proto |-> proto[n]]
      BY <1>4, <3>1 DEF IsProto
    <3> HIDE DEF proto
    <3> QED
      BY <3>2 DEF With
  <2>2. fromWireToProtoObj(network[k].wire) = proto
    BY <1>5, <2>1 DEF fromWireToProtoObj
  <2>3. seen' = Observed("relay", k, d, fromProtoObj(d, proto), messageHash(topic, proto))
    BY <1>8, <2>2 DEF ReceiveByRelay
  <2> QED
    BY <1>2, <2>3, ObservedStep
<1> QED
  BY <1>1, <1>6, <1>7, <1>8

\* No step leaves FlowInv.
LEMMA FlowStep ==
  ASSUME FlowInv, [FlowNext]_flowVars
  PROVE  FlowInv'
<1>1. CASE ClockTick \/ UNCHANGED flowVars
  <2>1. UNCHANGED <<handed, network, seen>>
    BY <1>1 DEF ClockTick, flowVars
  <2> QED
    BY <2>1 DEF FlowInv, WhatIsSentIsReceived, HashesAgree, SuccessMeansAccepted
<1>2. ASSUME NEW m \in SdsMessages, NEW e \in Encoders, WrapAndSend(m, e)
      PROVE  FlowInv'
  <2> DEFINE o == [sds |-> m.sds, message |-> Wrapped(m), encoder |-> e,
                   hint |-> messageHash(e.pubsubTopic,
                              toProtoObj(e, Wrapped(m), clock, encodings))]
  <2>1. handed' = Append(handed, o) /\ UNCHANGED <<network, seen>>
    BY <1>2 DEF WrapAndSend
  <2>2. o.encoder = e /\ o.sds = m.sds /\ o.message = Wrapped(m)
    OBVIOUS
  <2> HIDE DEF o
  <2>3. Handed(o)
    BY <2>2 DEF Handed
  <2> QED
    BY <2>1, <2>3, HandedStep
<1>3. ASSUME NEW m \in SdsMessages, NEW e \in Encoders, SendWithTimestamp(m, e, Zero)
      PROVE  FlowInv'
  <2> DEFINE t == [timestamp |-> Zero]
             message == With(Wrapped(m), t)
             o == [sds |-> m.sds, message |-> message, encoder |-> e, hint |-> Undefined]
  <2>1. handed' = Append(handed, o) /\ UNCHANGED <<network, seen>>
    BY <1>3 DEF SendWithTimestamp
  <2>2. o.encoder = e /\ o.sds = m.sds /\ o.message = message
    OBVIOUS
  <2>3. message.payload = Wrapped(m).payload
    <3>1. DOMAIN t = {"timestamp"} /\ "payload" \in DOMAIN Wrapped(m)
      BY DEF Wrapped
    <3> HIDE DEF t
    <3> QED
      BY <3>1 DEF With
  <2> HIDE DEF o, message
  <2>4. Handed(o)
    BY <2>2, <2>3 DEF Handed
  <2> QED
    BY <2>1, <2>4, HandedStep
<1>4. ASSUME NEW i \in DOMAIN handed, NEW codec \in {"v2", "v3"}, NEW accepted \in BOOLEAN,
             PushMessage(i, codec, accepted)
      PROVE  FlowInv'
  BY <1>4, PushStep
<1>5. ASSUME NEW i \in DOMAIN handed, Publish(i)
      PROVE  FlowInv'
  BY <1>5, PublishStep
<1> QED
  BY <1>1, <1>2, <1>3, <1>4, <1>5, ReceiveStep DEF FlowNext

\* FlowInv holds always.
LEMMA FlowInvariant == FlowSpec => []FlowInv
<1>1. FlowInit => FlowInv
  <2> SUFFICES ASSUME FlowInit PROVE FlowInv
    OBVIOUS
  <2>1. handed = <<>> /\ network = <<>> /\ seen = Undefined
    BY DEF FlowInit
  <2>2. IsArray(<<>>) /\ DOMAIN <<>> = {}
    <3>1. <<>> = [k \in 1..0 |-> <<>>[k]] /\ 0 \in Nat
      OBVIOUS
    <3>2. DOMAIN <<>> = {}
      OBVIOUS
    <3>3. IsArray(<<>>)
      BY <3>1, ArrayIs
    <3> QED
      BY <3>2, <3>3
  <2> QED
    BY <2>1, <2>2 DEF FlowInv, WhatIsSentIsReceived, HashesAgree, SuccessMeansAccepted
<1> QED
  BY <1>1, FlowStep, PTL DEF FlowSpec

\* What an application hands to be sent is what an application receives, whichever
\* of relay, light push, filter and store it takes, for a decoder that fits its
\* encoder, and no decoder reads another's messages (the encoders and decoders of
\* core and message-encryption, the codecs of light push, filter and store).
THEOREM MessagesAreReceived == FlowSpec => []WhatIsSentIsReceived
<1>1. FlowInv => WhatIsSentIsReceived
  BY DEF FlowInv
<1> QED
  BY <1>1, FlowInvariant, PTL

\* The hash of a message is the same for whoever computes it, of the object that
\* was sent and of what the codecs keep of it (messageHash).
THEOREM HashesAreEqual == FlowSpec => []HashesAgree
<1>1. FlowInv => HashesAgree
  BY DEF FlowInv
<1> QED
  BY <1>1, FlowInvariant, PTL

\* A push that the sender reports as successful was relayed by the node that
\* answered (handleV2Response, handleV3Response).
THEOREM SuccessIsAcceptance == FlowSpec => []SuccessMeansAccepted
<1>1. FlowInv => SuccessMeansAccepted
  BY DEF FlowInv
<1> QED
  BY <1>1, FlowInvariant, PTL

=============================================================================
