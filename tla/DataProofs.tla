------------------------------ MODULE DataProofs ------------------------------
(***************************************************************************)
(* Lemmas about data: selecting items of an array, loops over an array,    *)
(* the buffers of the repair manager, and what encode and decode of the    *)
(* generated code do to the fields of a message.                           *)
(***************************************************************************)
EXTENDS RepairBuffers, ProtoWire, FiniteSetTheorems, SequenceTheorems, WellFoundedInduction, TLAPS

-----------------------------------------------------------------------------
(* Arrays. *)

\* Among some numbers one is the least.
LEMMA LeastExists ==
  ASSUME NEW S \in SUBSET Nat, S # {}
  PROVE  \E m \in S : \A x \in S : m =< x
<1>1. PICK m \in S : \A x \in S : ~ (<<x, m>> \in OpToRel(<, Nat))
  BY NatLessThanWellFounded, WFMin
<1>2. \A x \in S : ~ (x < m)
  BY <1>1 DEF OpToRel
<1> QED
  BY <1>2

\* The numbers after a up to b.
LEMMA Interval ==
  \A a, b \in Nat : a =< b => IsFiniteSet((a + 1)..b) /\ Cardinality((a + 1)..b) = b - a
<1> SUFFICES ASSUME NEW a \in Nat, NEW b \in Nat, a =< b
             PROVE  IsFiniteSet((a + 1)..b) /\ Cardinality((a + 1)..b) = b - a
  OBVIOUS
<1> DEFINE numbers == (a + 1)..b
<1>1. a + 1 \in Int /\ b \in Int
  OBVIOUS
<1>2. /\ IsFiniteSet(numbers)
      /\ Cardinality(numbers) = IF a + 1 > b THEN 0 ELSE b - (a + 1) + 1
  BY <1>1, FS_Interval, SMT
<1> HIDE DEF numbers
<1>3. Cardinality(numbers) = b - a
  BY <1>2
<1> QED
  BY <1>2, <1>3 DEF numbers

\* below[i] are the members of S before i, in a total order.
Ordered(S, below) ==
  /\ below \in [S -> SUBSET S]
  /\ \A i \in S : i \notin below[i]
  /\ \A i, j \in S : i # j => i \in below[j] \/ j \in below[i]
  /\ \A i, j \in S : i \in below[j] => below[i] \subseteq below[j]

\* The ranks of a finite set in an order are 0, 1, 2 and so on, each once.
LEMMA Ranks ==
  ASSUME NEW S, IsFiniteSet(S), NEW below, Ordered(S, below)
  PROVE  /\ Cardinality(S) \in Nat
         /\ \A i \in S : Cardinality(below[i]) \in 0..(Cardinality(S) - 1)
         /\ \A i, j \in S :
              i \in below[j] <=> Cardinality(below[i]) < Cardinality(below[j])
         /\ \A k \in 1..Cardinality(S) : \E i \in S : Cardinality(below[i]) = k - 1
<1> DEFINE n == Cardinality(S)
           rank == [i \in S |-> Cardinality(below[i])]
<1>1. n \in Nat
  BY FS_CardinalityType
<1>2. ASSUME NEW i \in S
      PROVE  IsFiniteSet(below[i]) /\ Cardinality(below[i]) \in 0..(n - 1)
  <2>1. below[i] \in SUBSET S /\ i \notin below[i]
    BY DEF Ordered
  <2>2. IsFiniteSet(below[i]) /\ Cardinality(below[i]) =< n /\ (n = Cardinality(below[i]) => S = below[i])
    BY <2>1, FS_Subset
  <2>3. Cardinality(below[i]) \in Nat /\ Cardinality(below[i]) # n
    BY <2>1, <2>2, FS_CardinalityType
  <2> HIDE DEF n
  <2> QED
    BY <1>1, <2>2, <2>3
<1>3. ASSUME NEW i \in S, NEW j \in S, i \in below[j]
      PROVE  rank[i] < rank[j]
  <2>1. below[i] \in SUBSET below[j] /\ i \notin below[i]
    BY <1>3 DEF Ordered
  <2>2. /\ Cardinality(below[i]) =< Cardinality(below[j])
        /\ Cardinality(below[j]) = Cardinality(below[i]) => below[j] = below[i]
    BY <1>2, <2>1, FS_Subset
  <2>3. Cardinality(below[i]) # Cardinality(below[j])
    BY <1>3, <2>1, <2>2
  <2>4. Cardinality(below[i]) \in Nat /\ Cardinality(below[j]) \in Nat
    BY <1>2, FS_CardinalityType
  <2>5. rank[i] = Cardinality(below[i]) /\ rank[j] = Cardinality(below[j])
    OBVIOUS
  <2> HIDE DEF rank
  <2> QED
    BY <2>2, <2>3, <2>4, <2>5
<1>4. \A i, j \in S : i # j => rank[i] < rank[j] \/ rank[j] < rank[i]
  <2> HIDE DEF rank
  <2> QED
    BY <1>3 DEF Ordered
<1>5. rank \in [S -> 0..(n - 1)]
  <2> HIDE DEF n
  <2> QED
    BY <1>2
<1>6. \A i, j \in S : rank[i] \in Int /\ (rank[i] = rank[j] => i = j)
  <2> HIDE DEF rank, n
  <2>1. \A i \in S : rank[i] \in Int
    BY <1>1, <1>5
  <2> QED
    BY <1>4, <2>1
<1>7. rank \in Injection(S, 0..(n - 1))
  <2> HIDE DEF rank
  <2> QED
    BY <1>5, <1>6 DEF Injection, IsInjective
<1>8. IsFiniteSet(0..(n - 1)) /\ Cardinality(0..(n - 1)) = n
  <2> HIDE DEF n
  <2>1. 0 \in Int /\ n - 1 \in Int
    BY <1>1
  <2>2. /\ IsFiniteSet(0..(n - 1))
        /\ Cardinality(0..(n - 1)) = IF 0 > n - 1 THEN 0 ELSE (n - 1) - 0 + 1
    BY <2>1, FS_Interval, SMT
  <2>3. \A m \in Nat : (IF 0 > m - 1 THEN 0 ELSE (m - 1) - 0 + 1) = m
    OBVIOUS
  <2> QED
    BY <1>1, <2>2, <2>3, Zenon
<1>9. rank \in Surjection(S, 0..(n - 1))
  <2> HIDE DEF rank
  <2> QED
    BY <1>7, <1>8, FS_Injection
<1>10. ASSUME NEW k \in 1..n
       PROVE  \E i \in S : rank[i] = k - 1
  <2> HIDE DEF rank, n
  <2>1. k - 1 \in 0..(n - 1)
    BY <1>1
  <2> QED
    BY <1>9, <2>1 DEF Surjection
<1>11. ASSUME NEW i \in S, NEW j \in S, rank[i] < rank[j]
       PROVE  i \in below[j]
  <2>1. i # j /\ ~(rank[j] < rank[i])
    <3> HIDE DEF rank
    <3> QED
      BY <1>6, <1>11
  <2> QED
    BY <1>3, <2>1 DEF Ordered
<1> QED
  BY <1>1, <1>2, <1>3, <1>10, <1>11

\* What At returns: the item at[k] of the array is its k-th.
Picks(at, array, positions) ==
  /\ Cardinality(positions) \in Nat
  /\ at \in [1..Cardinality(positions) -> positions]
  /\ At(array, positions) = [k \in 1..Cardinality(positions) |-> array[at[k]]]
  /\ \A k, l \in 1..Cardinality(positions) : k < l => at[k] < at[l]
  /\ \A i \in positions : \E k \in 1..Cardinality(positions) : at[k] = i

LEMMA AtPicks ==
  ASSUME NEW array, NEW n \in Nat, NEW positions \in SUBSET (1..n)
  PROVE  \E at : Picks(at, array, positions)
<1> DEFINE below == [i \in positions |-> {j \in positions : j < i}]
           at == [k \in 1..Cardinality(positions) |->
             CHOOSE i \in positions : Cardinality({j \in positions : j < i}) = k - 1]
<1>1. IsFiniteSet(positions)
  <2>1. IsFiniteSet(1..n)
    BY FS_Interval
  <2> QED
    BY <2>1, FS_Subset
<1>2. Ordered(positions, below)
  <2>1. \A i, j \in positions : i # j => i < j \/ j < i
    OBVIOUS
  <2>2. \A h, i, j \in positions : h < i /\ i < j => h < j
    OBVIOUS
  <2>3. \A i \in positions : ~(i < i)
    OBVIOUS
  <2> QED
    BY <2>1, <2>2, <2>3, Zenon DEF Ordered
<1>3. /\ Cardinality(positions) \in Nat
      /\ \A i \in positions : Cardinality(below[i]) \in 0..(Cardinality(positions) - 1)
      /\ \A i, j \in positions : i \in below[j] <=> Cardinality(below[i]) < Cardinality(below[j])
      /\ \A k \in 1..Cardinality(positions) : \E i \in positions : Cardinality(below[i]) = k - 1
  <2> HIDE DEF below
  <2> QED
    BY <1>1, <1>2, Ranks
<1>4. ASSUME NEW k \in 1..Cardinality(positions)
      PROVE  at[k] \in positions /\ Cardinality(below[at[k]]) = k - 1
  <2>1. \E i \in positions : Cardinality({j \in positions : j < i}) = k - 1
    BY <1>3
  <2>2. at[k] = CHOOSE i \in positions : Cardinality({j \in positions : j < i}) = k - 1
    OBVIOUS
  <2>3. at[k] \in positions /\ Cardinality({j \in positions : j < at[k]}) = k - 1
    <3> HIDE DEF at
    <3> QED
      BY <2>1, <2>2
  <2> HIDE DEF at
  <2> QED
    BY <2>3
<1>5. At(array, positions) = [k \in 1..Cardinality(positions) |-> array[at[k]]]
  BY DEF At
<1>6. at \in [1..Cardinality(positions) -> positions]
  BY <1>4
<1> HIDE DEF at
<1>7. ASSUME NEW k \in 1..Cardinality(positions), NEW l \in 1..Cardinality(positions), k < l
      PROVE  at[k] < at[l]
  <2>1. Cardinality(below[at[k]]) < Cardinality(below[at[l]])
    <3> HIDE DEF below
    <3> QED
      BY <1>3, <1>4, <1>7
  <2>2. at[k] \in below[at[l]]
    BY <1>3, <1>4, <2>1
  <2> QED
    BY <1>4, <2>2
<1>8. ASSUME NEW i \in positions
      PROVE  \E k \in 1..Cardinality(positions) : at[k] = i
  <2> DEFINE k == Cardinality(below[i]) + 1
  <2> HIDE DEF below
  <2>1. k \in 1..Cardinality(positions) /\ k - 1 = Cardinality(below[i])
    BY <1>3
  <2> HIDE DEF k
  <2>2. at[k] \in positions /\ Cardinality(below[at[k]]) = Cardinality(below[i])
    BY <1>4, <2>1
  <2>3. at[k] = i
    <3>1. Cardinality(below[i]) \in Int
      <4>1. Cardinality(below[i]) \in 0..(Cardinality(positions) - 1)
        BY <1>3
      <4> QED
        BY <1>3, <4>1
    <3>2. /\ at[k] \in below[i] <=> Cardinality(below[at[k]]) < Cardinality(below[i])
          /\ i \in below[at[k]] <=> Cardinality(below[i]) < Cardinality(below[at[k]])
      BY <1>3, <2>2
    <3>3. ~(at[k] \in below[i]) /\ ~(i \in below[at[k]])
      BY <2>2, <3>1, <3>2
    <3> QED
      BY <1>2, <2>2, <3>3 DEF Ordered
  <2> QED
    BY <2>1, <2>3
<1> QED
  BY <1>3, <1>5, <1>6, <1>7, <1>8 DEF Picks

\* A selection of the items of an array, in their order.
LEMMA AtFacts ==
  ASSUME NEW S, NEW array \in Seq(S), NEW T,
         NEW positions \in SUBSET (DOMAIN array), \A i \in positions : array[i] \in T
  PROVE  At(array, positions) \in Seq(T)
<1>1. positions \in SUBSET (1..Len(array)) /\ Len(array) \in Nat
  BY LenProperties
<1>2. PICK at : Picks(at, array, positions)
  BY <1>1, AtPicks
<1>3. \A k \in 1..Cardinality(positions) : array[at[k]] \in T
  BY <1>2 DEF Picks
<1>4. [k \in 1..Cardinality(positions) |-> array[at[k]]] \in Seq(T)
  <2>1. Cardinality(positions) \in Nat
    BY <1>2 DEF Picks
  <2> QED
    BY <1>3, <2>1
<1> QED
  BY <1>2, <1>4 DEF Picks

\* A selection is not longer than the array.
LEMMA AtLength ==
  ASSUME NEW array, NEW n \in Nat, NEW positions \in SUBSET (1..n)
  PROVE  /\ DOMAIN At(array, positions) = 1..Cardinality(positions)
         /\ Len(At(array, positions)) = Cardinality(positions)
         /\ Cardinality(positions) =< n
<1>1. IsFiniteSet((0 + 1)..n) /\ Cardinality((0 + 1)..n) = n - 0
  <2>1. 0 \in Nat /\ 0 =< n
    OBVIOUS
  <2> QED
    BY <2>1, Interval
<1>2. (0 + 1)..n = 1..n /\ n - 0 = n
  OBVIOUS
<1>3. IsFiniteSet(1..n) /\ Cardinality(1..n) = n
  BY <1>1, <1>2
<1>4. Cardinality(positions) \in Nat /\ Cardinality(positions) =< n
  BY <1>3, FS_Subset, FS_CardinalityType
<1> QED
  BY <1>4 DEF At

\* After n rounds of a loop over seq there is f[n].
Rounds(f, start, step, seq) ==
  /\ f[0] = start
  /\ \A n \in 1..Len(seq) : f[n] = step[<<f[n - 1], seq[n]>>]

\* A loop over a sequence has, after each of its steps, what the step makes of what
\* it had before.
LEMMA LoopExists ==
  ASSUME NEW S, NEW T, NEW start \in T, NEW seq \in Seq(S),
         NEW step \in [T \X S -> T]
  PROVE  \E f \in [0..Len(seq) -> T] : Rounds(f, start, step, seq)
<1> DEFINE Loop(f, last) == \A n \in 0..last :
             f[n] = IF n = 0 THEN start ELSE step[<<f[n - 1], seq[n]>>]
           Stuck == {last \in 0..Len(seq) : ~ \E f \in [0..last -> T] : Loop(f, last)}
<1>0. Len(seq) \in Nat /\ \A n \in 1..Len(seq) : seq[n] \in S
  BY LenProperties, ElementOfSeq
<1>1. 0 \notin Stuck
  <2>1. [n \in 0..0 |-> start] \in [0..0 -> T] /\ Loop([n \in 0..0 |-> start], 0)
    OBVIOUS
  <2> QED
    BY <2>1
<1>2. ASSUME NEW last \in 1..Len(seq), last - 1 \notin Stuck
      PROVE  last \notin Stuck
  <2>1. last - 1 \in 0..Len(seq)
    BY <1>0
  <2>2. PICK f \in [0..(last - 1) -> T] : Loop(f, last - 1)
    BY <1>2, <2>1
  <2>3. seq[last] \in S /\ f[last - 1] \in T
    BY <1>0
  <2>4. step[<<f[last - 1], seq[last]>>] \in T
    BY <2>3
  <2> DEFINE g == [n \in 0..last |-> IF n = last THEN step[<<f[last - 1], seq[last]>>]
                                     ELSE f[n]]
  <2>5. g \in [0..last -> T]
    BY <1>0, <2>4
  <2>6. ASSUME NEW n \in 0..last
        PROVE  g[n] = IF n = 0 THEN start ELSE step[<<g[n - 1], seq[n]>>]
    <3>1. CASE n = last
      <4>1. n # 0 /\ last - 1 \in 0..last /\ last - 1 # last
        BY <1>0, <3>1
      <4>2. g[last - 1] = f[last - 1]
        BY <4>1
      <4> QED
        BY <3>1, <4>1, <4>2
    <3>2. CASE n # last
      <4>1. n \in 0..(last - 1)
        BY <1>0, <3>2
      <4>2. f[n] = IF n = 0 THEN start ELSE step[<<f[n - 1], seq[n]>>]
        BY <2>2, <4>1
      <4>3. g[n] = f[n] /\ (n # 0 => g[n - 1] = f[n - 1])
        BY <1>0, <3>2, <4>1
      <4> HIDE DEF g
      <4> QED
        BY <4>2, <4>3
    <3> QED
      BY <3>1, <3>2
  <2> HIDE DEF g
  <2>7. \E h \in [0..last -> T] : Loop(h, last)
    BY <2>5, <2>6
  <2> QED
    BY <2>7
<1>3. Stuck = {}
  <2> SUFFICES ASSUME Stuck # {} PROVE FALSE
    OBVIOUS
  <2>1. Stuck \in SUBSET Nat
    BY <1>0
  <2>2. PICK last \in Stuck : \A x \in Stuck : last =< x
    <3> HIDE DEF Stuck
    <3> QED
      BY <2>1, LeastExists
  <2>3. last \in 0..Len(seq)
    BY <2>2
  <2> HIDE DEF Stuck
  <2>4. last \in 1..Len(seq) /\ last - 1 \notin Stuck
    BY <1>0, <1>1, <2>1, <2>2, <2>3
  <2> QED
    BY <1>2, <2>2, <2>4
<1>4. PICK f \in [0..Len(seq) -> T] : Loop(f, Len(seq))
  BY <1>0, <1>3
<1>5. f[0] = start
  <2>1. 0 \in 0..Len(seq)
    BY <1>0
  <2> QED
    BY <1>4, <2>1
<1>6. ASSUME NEW n \in 1..Len(seq)
      PROVE  f[n] = step[<<f[n - 1], seq[n]>>]
  <2>1. n \in 0..Len(seq) /\ n # 0
    BY <1>0
  <2> QED
    BY <1>4, <2>1
<1> QED
  BY <1>4, <1>5, <1>6 DEF Rounds

\* What every step of a loop keeps, the loop keeps.
LEMMA LoopKeeps ==
  ASSUME NEW len \in Nat, NEW T, NEW f, f[0] \in T,
         \A n \in 1..len : f[n - 1] \in T => f[n] \in T
  PROVE  f[len] \in T
<1> DEFINE Lost == {n \in 0..len : f[n] \notin T}
<1> SUFFICES ASSUME Lost # {} PROVE FALSE
  OBVIOUS
<1>1. PICK n \in Lost : \A x \in Lost : n =< x
  <2>1. Lost \in SUBSET Nat
    OBVIOUS
  <2> HIDE DEF Lost
  <2> QED
    BY <2>1, LeastExists
<1>2. n \in 1..len
  BY <1>1
<1>3. n - 1 \in 0..len /\ ~ (n =< n - 1)
  BY <1>2
<1>4. f[n - 1] \in T
  BY <1>1, <1>3
<1> QED
  BY <1>1, <1>2, <1>4

-----------------------------------------------------------------------------
(* Buffers of items with a due time. *)

\* Dropping leaves no item of the id, and all others.
LEMMA DropFacts ==
  ASSUME NEW S, NEW buffer \in Seq(S), NEW id
  PROVE  /\ Drop(buffer, id) \in Seq(S)
         /\ Drop(buffer, id) \in Seq({item \in S : item.entry.id # id})
         /\ Len(Drop(buffer, id)) =< Len(buffer)
         /\ \A other : other # id /\ Has(buffer, other) => Has(Drop(buffer, id), other)
<1> DEFINE others == {i \in DOMAIN buffer : buffer[i].entry.id # id}
<1>1. /\ Len(buffer) \in Nat /\ DOMAIN buffer = 1..Len(buffer)
      /\ \A i \in DOMAIN buffer : buffer[i] \in S
  BY ElementOfSeq, LenProperties
<1>2. Drop(buffer, id) = At(buffer, others) /\ others \in SUBSET (1..Len(buffer))
  BY <1>1 DEF Drop
<1>3. /\ Drop(buffer, id) \in Seq(S)
      /\ Drop(buffer, id) \in Seq({item \in S : item.entry.id # id})
  BY <1>1, AtFacts DEF Drop
<1> HIDE DEF others
<1>4. Len(At(buffer, others)) =< Len(buffer) /\ DOMAIN At(buffer, others) = 1..Cardinality(others)
  BY <1>1, <1>2, AtLength
<1>5. PICK at : Picks(at, buffer, others)
  BY <1>1, <1>2, AtPicks
<1>6. ASSUME NEW other, other # id, Has(buffer, other)
      PROVE  Has(Drop(buffer, id), other)
  <2>1. PICK i \in DOMAIN buffer : buffer[i].entry.id = other
    BY <1>6 DEF Has
  <2>2. i \in others
    BY <1>6, <2>1 DEF others
  <2>3. PICK k \in 1..Cardinality(others) : at[k] = i
    BY <1>5, <2>2 DEF Picks
  <2>4. k \in DOMAIN Drop(buffer, id) /\ Drop(buffer, id)[k] = buffer[i]
    BY <1>2, <1>5, <2>3 DEF Picks
  <2> QED
    BY <2>1, <2>4 DEF Has
<1> QED
  BY <1>2, <1>3, <1>4, <1>6

\* A new item is inserted among the items of a buffer, which all stay.
LEMMA InsertFacts ==
  ASSUME NEW S, NEW b \in Seq(S), NEW item \in S
  PROVE  /\ Insert(b, item) \in Seq(S)
         /\ Len(Insert(b, item)) = Len(b) + 1
         /\ \A i \in DOMAIN b : \E j \in DOMAIN Insert(b, item) : Insert(b, item)[j] = b[i]
<1> DEFINE earlier == {i \in DOMAIN b : b[i].t =< item.t}
           at == Cardinality(earlier) + 1
           new == [j \in 1..(Len(b) + 1) |->
                     IF j < at THEN b[j] ELSE IF j = at THEN item ELSE b[j - 1]]
<1>1. /\ DOMAIN b = 1..Len(b) /\ Len(b) \in Nat
      /\ \A i \in DOMAIN b : b[i] \in S
  BY LenProperties, ElementOfSeq
<1>2. IsFiniteSet(1..Len(b)) /\ Cardinality(1..Len(b)) = Len(b)
  <2>1. IsFiniteSet((0 + 1)..Len(b)) /\ Cardinality((0 + 1)..Len(b)) = Len(b) - 0
    <3>1. 0 \in Nat /\ 0 =< Len(b)
      BY <1>1
    <3> QED
      BY <1>1, <3>1, Interval
  <2>2. (0 + 1)..Len(b) = 1..Len(b) /\ Len(b) - 0 = Len(b)
    BY <1>1
  <2> QED
    BY <2>1, <2>2
<1>3. earlier \in SUBSET (1..Len(b))
  BY <1>1
<1> HIDE DEF earlier
<1>4. Cardinality(earlier) \in Nat /\ Cardinality(earlier) =< Len(b)
  BY <1>2, <1>3, FS_Subset, FS_CardinalityType
<1>5. at \in 1..(Len(b) + 1)
  BY <1>1, <1>4
<1>6. Insert(b, item) = SubSeq(b, 1, at - 1) \o <<item>> \o SubSeq(b, at, Len(b))
  BY DEF Insert, InsertAt, earlier
<1> HIDE DEF at
<1>7. SubSeq(b, 1, at - 1) = [j \in 1..(at - 1) |-> b[j]]
  <2>1. at - 1 \in Nat /\ \A j \in 1..(at - 1) : 1 + j - 1 = j
    BY <1>1, <1>5
  <2> QED
    BY <1>5, <2>1
<1>8. SubSeq(b, at, Len(b)) = [j \in 1..(Len(b) - at + 1) |-> b[at + j - 1]]
  BY <1>1, <1>5
<1>9. Insert(b, item) = new
  <2> DEFINE front == SubSeq(b, 1, at - 1)
             back == SubSeq(b, at, Len(b))
  <2>1. /\ front \in Seq(S) /\ Len(front) = at - 1
        /\ \A j \in 1..(at - 1) : front[j] = b[j]
    <3>1. \A j \in 1..(at - 1) : j \in DOMAIN b
      BY <1>1, <1>5
    <3>2. at - 1 \in Nat
      BY <1>1, <1>5
    <3>3. [j \in 1..(at - 1) |-> b[j]] \in [1..(at - 1) -> S]
      BY <1>1, <3>1
    <3> QED
      BY <1>7, <3>2, <3>3
  <2>2. /\ back \in Seq(S) /\ Len(back) = Len(b) - at + 1
        /\ \A j \in 1..(Len(b) - at + 1) : back[j] = b[at + j - 1]
    <3>1. \A j \in 1..(Len(b) - at + 1) : at + j - 1 \in DOMAIN b
      BY <1>1, <1>5
    <3>2. Len(b) - at + 1 \in Nat
      BY <1>1, <1>5
    <3>3. [j \in 1..(Len(b) - at + 1) |-> b[at + j - 1]] \in [1..(Len(b) - at + 1) -> S]
      BY <1>1, <3>1
    <3> QED
      BY <1>8, <3>2, <3>3
  <2> HIDE DEF front, back
  <2>3. <<item>> \in Seq(S) /\ Len(<<item>>) = 1
    OBVIOUS
  <2>4. /\ front \o <<item>> \in Seq(S)
        /\ Len(front \o <<item>>) = at
        /\ \A j \in 1..at : (front \o <<item>>)[j] = IF j < at THEN b[j] ELSE item
    BY <1>1, <1>5, <2>1, <2>3
  <2> DEFINE both == front \o <<item>>
  <2> HIDE DEF both
  <2>5. /\ both \o back \in Seq(S)
        /\ Len(both \o back) = Len(b) + 1
        /\ \A j \in 1..(Len(b) + 1) : (both \o back)[j] =
              IF j < at THEN b[j] ELSE IF j = at THEN item ELSE b[j - 1]
    <3>1. /\ both \in Seq(S) /\ Len(both) = at
          /\ \A j \in 1..at : both[j] = IF j < at THEN b[j] ELSE item
      BY <2>4 DEF both
    <3>2. Len(both \o back) = Len(b) + 1 /\ both \o back \in Seq(S)
      <4>1. Len(both \o back) = Len(both) + Len(back) /\ both \o back \in Seq(S)
        BY <2>2, <3>1, ConcatProperties
      <4>2. at + (Len(b) - at + 1) = Len(b) + 1
        BY <1>1, <1>5
      <4> QED
        BY <2>2, <3>1, <4>1, <4>2
    <3>3. \A j \in 1..(Len(b) + 1) :
            (both \o back)[j] = IF j =< at THEN both[j] ELSE back[j - at]
      BY <1>1, <1>5, <2>2, <3>1
    <3>4. \A j \in 1..(Len(b) + 1) : j > at =>
            j - at \in 1..(Len(b) - at + 1) /\ at + (j - at) - 1 = j - 1
      BY <1>1, <1>5
    <3>5. \A j \in 1..(Len(b) + 1) : j > at => back[j - at] = b[j - 1]
      BY <2>2, <3>4
    <3> QED
      BY <1>1, <1>5, <3>1, <3>2, <3>3, <3>5
  <2>6. Insert(b, item) = both \o back
    BY <1>6 DEF both, front, back
  <2>7. DOMAIN (both \o back) = 1..(Len(b) + 1)
    BY <2>5, LenProperties
  <2>8. \A j \in 1..(Len(b) + 1) : (both \o back)[j] = new[j]
    BY <2>5
  <2> DEFINE all == both \o back
  <2>9. all \in Seq(S) /\ DOMAIN all = 1..(Len(b) + 1)
    BY <2>5, <2>7
  <2> HIDE DEF all
  <2>10. all = [j \in 1..(Len(b) + 1) |-> all[j]]
    BY <2>9
  <2>11. \A j \in 1..(Len(b) + 1) : all[j] = new[j]
    BY <2>8 DEF all
  <2>12. new = [j \in 1..(Len(b) + 1) |-> new[j]]
    OBVIOUS
  <2> HIDE DEF new
  <2>13. all = new
    BY <2>10, <2>11, <2>12
  <2> QED
    BY <2>6, <2>13 DEF all
<1>10. new \in [1..(Len(b) + 1) -> S]
  <2> SUFFICES ASSUME NEW j \in 1..(Len(b) + 1)
               PROVE  (IF j < at THEN b[j] ELSE IF j = at THEN item ELSE b[j - 1]) \in S
    OBVIOUS
  <2>1. (j < at => j \in DOMAIN b) /\ (~(j < at) /\ j # at => j - 1 \in DOMAIN b)
    BY <1>1, <1>5
  <2> QED
    BY <1>1, <2>1
<1>11. new \in Seq(S) /\ Len(new) = Len(b) + 1 /\ DOMAIN new = 1..(Len(b) + 1)
  BY <1>1, <1>10
<1>12. ASSUME NEW i \in DOMAIN b
       PROVE  \E j \in DOMAIN new : new[j] = b[i]
  <2>1. i \in 1..(Len(b) + 1) /\ i + 1 \in 1..(Len(b) + 1) /\ (i + 1) - 1 = i
    BY <1>1
  <2>2. CASE i < at
    BY <1>11, <2>1, <2>2
  <2>3. CASE ~(i < at)
    <3>1. ~(i + 1 < at) /\ i + 1 # at
      BY <1>1, <1>5, <2>1, <2>3
    <3>2. new[i + 1] = b[i]
      BY <2>1, <3>1
    <3> QED
      BY <1>11, <2>1, <3>2
  <2> QED
    BY <2>2, <2>3
<1> QED
  BY <1>9, <1>11, <1>12

\* A buffer that is not full keeps what it has when an item is added, and a full one
\* stays full.
LEMMA AddFacts ==
  ASSUME NEW S, NEW buffer \in Seq(S), NEW item \in S
  PROVE  /\ Add(buffer, item) \in Seq(S)
         /\ Len(buffer) =< BufferSize => Len(Add(buffer, item)) =< BufferSize
         /\ Len(buffer) = BufferSize => Len(Add(buffer, item)) = BufferSize
         /\ Len(buffer) < BufferSize => \A id : Has(buffer, id) => Has(Add(buffer, item), id)
<1> DEFINE kept == IF Len(buffer) >= BufferSize THEN Front(buffer) ELSE buffer
<1>1. Len(buffer) \in Nat /\ \A i \in 1..Len(buffer) : buffer[i] \in S
  BY LenProperties, ElementOfSeq
<1>2. BufferSize \in Nat /\ BufferSize > 0
  BY BufferSizeAssumption
<1>3. Len(buffer) >= BufferSize =>
        Front(buffer) \in Seq(S) /\ Len(Front(buffer)) = Len(buffer) - 1
  <2> SUFFICES ASSUME Len(buffer) >= BufferSize
               PROVE  Front(buffer) \in Seq(S) /\ Len(Front(buffer)) = Len(buffer) - 1
    OBVIOUS
  <2>1. /\ 1 =< Len(buffer) - 1 \/ Len(buffer) - 1 = 0
        /\ \A i \in 1..(Len(buffer) - 1) : buffer[i] \in S
        /\ 1 \in Int /\ Len(buffer) - 1 \in Int
    <3>1. \A i \in 1..(Len(buffer) - 1) : i \in 1..Len(buffer)
      BY <1>1
    <3>2. Len(buffer) >= 1
      BY <1>1, <1>2
    <3>3. \A n \in Nat : n >= 1 => (1 =< n - 1 \/ n - 1 = 0)
      OBVIOUS
    <3>4. 1 =< Len(buffer) - 1 \/ Len(buffer) - 1 = 0
      BY <1>1, <3>2, <3>3, Zenon
    <3>5. 1 \in Int /\ Len(buffer) - 1 \in Int
      BY <1>1
    <3> QED
      BY <1>1, <3>1, <3>4, <3>5
  <2>2. /\ SubSeq(buffer, 1, Len(buffer) - 1) \in Seq(S)
        /\ Len(SubSeq(buffer, 1, Len(buffer) - 1)) =
             IF 1 =< Len(buffer) - 1 THEN (Len(buffer) - 1) - 1 + 1 ELSE 0
    BY <2>1, SubSeqProperties
  <2>3. (IF 1 =< Len(buffer) - 1 THEN (Len(buffer) - 1) - 1 + 1 ELSE 0) = Len(buffer) - 1
    BY <1>1, <2>1
  <2>4. Front(buffer) = SubSeq(buffer, 1, Len(buffer) - 1)
    BY DEF Front
  <2> QED
    BY <2>2, <2>3, <2>4
<1>4. /\ kept \in Seq(S)
      /\ Len(kept) = IF Len(buffer) >= BufferSize THEN Len(buffer) - 1 ELSE Len(buffer)
  BY <1>3
<1> HIDE DEF kept
<1>5. /\ Insert(kept, item) \in Seq(S) /\ Len(Insert(kept, item)) = Len(kept) + 1
      /\ \A i \in DOMAIN kept : \E j \in DOMAIN Insert(kept, item) : Insert(kept, item)[j] = kept[i]
  BY <1>4, InsertFacts
<1>6. Add(buffer, item) = IF Has(buffer, item.entry.id) THEN buffer ELSE Insert(kept, item)
  BY DEF Add, kept
<1>7. Add(buffer, item) \in Seq(S)
  BY <1>5, <1>6
<1>8. /\ Len(buffer) =< BufferSize => Len(Add(buffer, item)) =< BufferSize
      /\ Len(buffer) = BufferSize => Len(Add(buffer, item)) = BufferSize
  BY <1>1, <1>2, <1>4, <1>5, <1>6
<1>9. ASSUME Len(buffer) < BufferSize, NEW id, Has(buffer, id)
      PROVE  Has(Add(buffer, item), id)
  <2>1. kept = buffer
    BY <1>1, <1>2, <1>9 DEF kept
  <2>2. Has(Insert(kept, item), id)
    BY <1>5, <1>9, <2>1 DEF Has
  <2> QED
    BY <1>6, <1>9, <2>2
<1> QED
  BY <1>7, <1>8, <1>9

-----------------------------------------------------------------------------
(* The operations of the repair manager. *)

\* The items of the two buffers.
OutgoingItems(entries) == [entry : entries, t : Nat, requested : BOOLEAN]
IncomingItems(entries) == [entry : entries, t : Nat]

\* Repair buffers with outgoing items among `asked`.
Buffers(asked, entries) == [out : Seq(asked), in : Seq(IncomingItems(entries))]

\* What was promised is promised still, unless the buffer is full.
Promised(before, r) ==
  /\ Len(before.in) =< BufferSize => Len(r.in) =< BufferSize
  /\ Len(before.in) = BufferSize => Len(r.in) = BufferSize
  /\ Len(before.in) =< BufferSize =>
       \A id : Has(before.in, id) => Has(r.in, id) \/ Len(r.in) = BufferSize

\* A request to others may leave the buffers or be offered an answer: no other item
\* comes in.
LEMMA AfterRequestFacts ==
  ASSUME NEW S, NEW entries, NEW r \in Buffers(S, entries), NEW request \in entries,
         NEW messages, NEW p, NEW time \in Nat,
         request.sender # NoSender => RespDelay(p, request.sender, request.id) \in Nat
  PROVE  /\ AfterRequest(r, request, messages, p, time) \in Buffers(S, entries)
         /\ Promised(r, AfterRequest(r, request, messages, p, time))
<1> DEFINE item == IncomingItem(request, time + RespDelay(p, request.sender, request.id))
           answers == /\ request.id \in messages
                      /\ request.sender # NoSender
                      /\ SameGroup(p, request.sender, request.id)
           after == AfterRequest(r, request, messages, p, time)
<1>1. r.out \in Seq(S) /\ r.in \in Seq(IncomingItems(entries))
  BY DEF Buffers
<1>2. Drop(r.out, request.id) \in Seq(S)
  BY <1>1, DropFacts
<1>3. request.sender # NoSender => item \in IncomingItems(entries)
  BY DEF IncomingItem, IncomingItems
<1>4. after = [out |-> Drop(r.out, request.id), in |-> IF answers THEN Add(r.in, item) ELSE r.in]
  BY DEF AfterRequest
<1> HIDE DEF item
<1>5. answers => /\ Add(r.in, item) \in Seq(IncomingItems(entries))
                 /\ Len(r.in) =< BufferSize => Len(Add(r.in, item)) =< BufferSize
                 /\ Len(r.in) = BufferSize => Len(Add(r.in, item)) = BufferSize
                 /\ Len(r.in) < BufferSize => \A id : Has(r.in, id) => Has(Add(r.in, item), id)
  BY <1>1, <1>3, AddFacts
<1>6. Len(r.in) \in Nat /\ BufferSize \in Nat
  BY <1>1, LenProperties, BufferSizeAssumption
<1> HIDE DEF answers
<1>7. after.out \in Seq(S) /\ after.in \in Seq(IncomingItems(entries))
  BY <1>1, <1>2, <1>4, <1>5
<1>8. after \in Buffers(S, entries)
  BY <1>4, <1>7 DEF Buffers
<1>9. Promised(r, after)
  <2>1. CASE answers
    <3>1. after.in = Add(r.in, item)
      BY <1>4, <2>1
    <3> HIDE DEF after
    <3> QED
      BY <1>5, <1>6, <2>1, <3>1 DEF Promised
  <2>2. CASE ~answers
    <3>1. after.in = r.in
      BY <1>4, <2>2
    <3> HIDE DEF after
    <3> QED
      BY <3>1 DEF Promised
  <2> QED
    BY <2>1, <2>2
<1> QED
  BY <1>8, <1>9

\* processIncomingRepairRequests adds no outgoing item, and drops a promise only from
\* a full buffer.
LEMMA ProcessRequestsFacts ==
  ASSUME NEW S, NEW entries, NEW r \in Buffers(S, entries), NEW requests \in Seq(entries),
         NEW messages, NEW p, NEW time \in Nat,
         \A e \in entries : e.sender # NoSender => RespDelay(p, e.sender, e.id) \in Nat
  PROVE  /\ ProcessIncomingRepairRequests(r, requests, messages, p, time)
              \in Buffers(S, entries)
         /\ Promised(r, ProcessIncomingRepairRequests(r, requests, messages, p, time))
<1> DEFINE Body(f) == [n \in 0..Len(requests) |->
              IF n = 0 THEN r
              ELSE AfterRequest(f[n - 1], requests[n], messages, p, time)]
           step == [a \in Buffers(S, entries) \X entries |->
                      AfterRequest(a[1], a[2], messages, p, time)]
           kept == {x \in Buffers(S, entries) : Promised(r, x)}
<1>1. step \in [Buffers(S, entries) \X entries -> Buffers(S, entries)]
  BY AfterRequestFacts
<1>2. PICK g \in [0..Len(requests) -> Buffers(S, entries)] : Rounds(g, r, step, requests)
  <2> HIDE DEF step
  <2> QED
    BY <1>1, LoopExists
<1>3. Len(requests) \in Nat /\ \A n \in 1..Len(requests) : requests[n] \in entries
  BY LenProperties, ElementOfSeq
<1>4. ASSUME NEW n \in 1..Len(requests)
      PROVE  g[n] = AfterRequest(g[n - 1], requests[n], messages, p, time)
  <2>1. g[n - 1] \in Buffers(S, entries) /\ requests[n] \in entries
    BY <1>3
  <2> QED
    BY <1>2, <2>1 DEF Rounds
<1>5. g = Body(g)
  BY <1>2, <1>3, <1>4 DEF Rounds
<1>6. PICK f : f = (CHOOSE h : h = Body(h))
  OBVIOUS
<1>7. f = Body(f)
  <2> HIDE DEF Body
  <2> QED
    BY <1>5, <1>6
<1>8. ProcessIncomingRepairRequests(r, requests, messages, p, time) = f[Len(requests)]
  BY <1>6 DEF ProcessIncomingRepairRequests
<1>9. ASSUME NEW n \in 1..Len(requests), f[n - 1] \in kept
      PROVE  f[n] \in kept
  <2>1. f[n] = AfterRequest(f[n - 1], requests[n], messages, p, time)
    BY <1>3, <1>7
  <2>2. f[n] \in Buffers(S, entries) /\ Promised(f[n - 1], f[n])
    BY <1>3, <1>9, <2>1, AfterRequestFacts
  <2>3. Promised(r, f[n - 1])
    BY <1>9
  <2>4. Promised(r, f[n])
    <3>1. ASSUME Len(r.in) =< BufferSize, NEW id, Has(r.in, id)
          PROVE  Has(f[n].in, id) \/ Len(f[n].in) = BufferSize
      <4>1. Len(f[n - 1].in) =< BufferSize
        BY <2>3, <3>1 DEF Promised
      <4>2. CASE Has(f[n - 1].in, id)
        BY <2>2, <4>1, <4>2 DEF Promised
      <4>3. CASE Len(f[n - 1].in) = BufferSize
        BY <2>2, <4>3 DEF Promised
      <4> QED
        BY <2>3, <3>1, <4>2, <4>3 DEF Promised
    <3> QED
      BY <2>2, <2>3, <3>1 DEF Promised
  <2> QED
    BY <2>2, <2>4
<1>10. f[0] \in kept
  <2>1. f[0] = r
    BY <1>3, <1>7
  <2> QED
    BY <2>1 DEF Promised
<1>11. f[Len(requests)] \in kept
  <2> HIDE DEF kept
  <2> QED
    BY <1>3, <1>9, <1>10, LoopKeeps
<1> QED
  BY <1>8, <1>11

\* markDependenciesMissing adds items for the dependencies it is given only.
LEMMA MarkMissingFacts ==
  ASSUME NEW S, NEW entries, NEW r \in Buffers(S, entries), NEW missing, NEW named \in Seq(missing),
         NEW p, NEW time,
         \A e \in missing : OutgoingItem(e, time + ReqDelay(p, e.id)) \in S
  PROVE  MarkDependenciesMissing(r, named, p, time) \in Buffers(S, entries)
<1> DEFINE item(e) == OutgoingItem(e, time + ReqDelay(p, e.id))
           Body(f) == [n \in 0..Len(named) |->
              IF n = 0 THEN r.out ELSE Add(f[n - 1], item(named[n]))]
           step == [a \in Seq(S) \X missing |-> Add(a[1], item(a[2]))]
<1>0. r.out \in Seq(S) /\ r.in \in Seq(IncomingItems(entries))
  BY DEF Buffers
<1>1. step \in [Seq(S) \X missing -> Seq(S)]
  <2> HIDE DEF item
  <2>1. \A e \in missing : item(e) \in S
    BY DEF item
  <2> QED
    BY <2>1, AddFacts
<1>2. PICK g \in [0..Len(named) -> Seq(S)] : Rounds(g, r.out, step, named)
  <2> HIDE DEF step
  <2> QED
    BY <1>0, <1>1, LoopExists
<1>3. Len(named) \in Nat /\ \A n \in 1..Len(named) : named[n] \in missing
  BY LenProperties, ElementOfSeq
<1>4. ASSUME NEW n \in 1..Len(named)
      PROVE  g[n] = Add(g[n - 1], item(named[n]))
  <2>1. g[n - 1] \in Seq(S) /\ named[n] \in missing
    BY <1>3
  <2> HIDE DEF item
  <2> QED
    BY <1>2, <2>1 DEF Rounds
<1>5. g = Body(g)
  <2>1. g[0] = r.out
    BY <1>2 DEF Rounds
  <2>2. g = [n \in 0..Len(named) |-> g[n]]
    BY <1>2
  <2>3. \A n \in 0..Len(named) : n = 0 \/ n \in 1..Len(named)
    BY <1>3
  <2> HIDE DEF item
  <2>4. \A n \in 0..Len(named) : g[n] = IF n = 0 THEN r.out ELSE Add(g[n - 1], item(named[n]))
    BY <1>4, <2>1, <2>3
  <2> QED
    BY <2>2, <2>4
<1>6. PICK f : f = (CHOOSE h : h = Body(h))
  OBVIOUS
<1>7. f = Body(f)
  <2> HIDE DEF Body
  <2> QED
    BY <1>5, <1>6
<1>8. MarkDependenciesMissing(r, named, p, time) = [r EXCEPT !.out = f[Len(named)]]
  BY <1>6 DEF MarkDependenciesMissing
<1>9. ASSUME NEW n \in 1..Len(named), f[n - 1] \in Seq(S)
      PROVE  f[n] \in Seq(S)
  <2>1. f[n] = Add(f[n - 1], item(named[n]))
    BY <1>3, <1>7
  <2>2. item(named[n]) \in S
    BY <1>3
  <2> HIDE DEF item
  <2> QED
    BY <1>9, <2>1, <2>2, AddFacts
<1>10. f[0] \in Seq(S)
  BY <1>0, <1>3, <1>7
<1>11. f[Len(named)] \in Seq(S)
  BY <1>3, <1>9, <1>10, LoopKeeps
<1> QED
  BY <1>0, <1>8, <1>11 DEF Buffers

\* What a sweep leaves.
LEMMA AfterSweepFacts ==
  ASSUME NEW S, NEW entries, NEW r \in Buffers(S, entries), NEW time
  PROVE  AfterSweep(r, time) \in Buffers(S, entries) /\ AfterSweep(r, time).out = r.out
<1>1. r.in \in Seq(IncomingItems(entries)) /\ r.out \in Seq(S)
  BY DEF Buffers
<1>2. \A i \in DOMAIN r.in : r.in[i] \in IncomingItems(entries)
  BY <1>1, ElementOfSeq, LenProperties
<1>3. At(r.in, {i \in DOMAIN r.in : r.in[i].t > time}) \in Seq(IncomingItems(entries))
  BY <1>1, <1>2, AtFacts
<1> QED
  BY <1>1, <1>3 DEF AfterSweep, Buffers

\* The requests are entries of outgoing items, and making them changes no entry.
LEMMA RequestsFacts ==
  ASSUME NEW entries, NEW r \in Buffers(OutgoingItems(entries), entries), NEW time
  PROVE  /\ GetRepairRequests(r, time) \in Seq(entries)
         /\ MarkRequested(r, time) \in Buffers(OutgoingItems(entries), entries)
         /\ DOMAIN MarkRequested(r, time).out = DOMAIN r.out
         /\ \A i \in DOMAIN r.out : MarkRequested(r, time).out[i].entry = r.out[i].entry
<1>1. r.in \in Seq(IncomingItems(entries)) /\ r.out \in Seq(OutgoingItems(entries))
  BY DEF Buffers
<1>2. /\ \A i \in DOMAIN r.out : r.out[i] \in OutgoingItems(entries)
      /\ DOMAIN r.out = 1..Len(r.out) /\ Len(r.out) \in Nat
  BY <1>1, ElementOfSeq, LenProperties
<1>3. GetRepairRequests(r, time) \in Seq(entries)
  <2> DEFINE eligible == At(r.out, EligibleAt(r.out, time))
  <2>1. EligibleAt(r.out, time) \in SUBSET (DOMAIN r.out)
    BY DEF EligibleAt
  <2>2. eligible \in Seq(OutgoingItems(entries))
    BY <1>1, <1>2, <2>1, AtFacts
  <2> HIDE DEF eligible
  <2>3. /\ DOMAIN eligible = 1..Len(eligible) /\ Len(eligible) \in Nat
        /\ \A k \in DOMAIN eligible : eligible[k] \in OutgoingItems(entries)
    BY <2>2, ElementOfSeq, LenProperties
  <2>4. \A k \in DOMAIN eligible : eligible[k].entry \in entries
    BY <2>3 DEF OutgoingItems
  <2>5. [k \in DOMAIN eligible |-> eligible[k].entry] \in [1..Len(eligible) -> entries]
    BY <2>3, <2>4
  <2>6. [k \in DOMAIN eligible |-> eligible[k].entry] \in Seq(entries)
    BY <2>3, <2>5
  <2> QED
    BY <2>6 DEF GetRepairRequests, eligible
<1> DEFINE mark(i) == [r.out[i] EXCEPT !.requested = @ \/ i \in EligibleAt(r.out, time)]
           marked == [i \in DOMAIN r.out |-> mark(i)]
<1>4. MarkRequested(r, time) = [r EXCEPT !.out = marked]
  BY DEF MarkRequested
<1>5. ASSUME NEW i \in DOMAIN r.out
      PROVE  mark(i) \in OutgoingItems(entries) /\ mark(i).entry = r.out[i].entry
  <2>1. r.out[i] \in OutgoingItems(entries)
    BY <1>2
  <2>2. (r.out[i].requested \/ i \in EligibleAt(r.out, time)) \in BOOLEAN
    OBVIOUS
  <2>3. PICK b \in BOOLEAN : b = (r.out[i].requested \/ i \in EligibleAt(r.out, time))
    BY <2>2, Zenon
  <2>4. mark(i) = [r.out[i] EXCEPT !.requested = b]
    BY <2>3, Zenon
  <2> HIDE DEF mark
  <2> QED
    BY <2>1, <2>4 DEF OutgoingItems
<1> HIDE DEF mark
<1>6. marked \in [1..Len(r.out) -> OutgoingItems(entries)]
  BY <1>2, <1>5
<1>7. marked \in Seq(OutgoingItems(entries))
  BY <1>2, <1>6
<1>8. DOMAIN marked = DOMAIN r.out /\ \A i \in DOMAIN r.out : marked[i].entry = r.out[i].entry
  BY <1>5
<1> HIDE DEF marked
<1>9. MarkRequested(r, time) \in Buffers(OutgoingItems(entries), entries) /\ MarkRequested(r, time).out = marked
  BY <1>1, <1>4, <1>7 DEF Buffers
<1> QED
  BY <1>3, <1>8, <1>9

-----------------------------------------------------------------------------
(* Arrays: moved items, and two arrays in one. *)

\* p takes one set of positions onto another, in their order.
Moves(p, from, to) ==
  /\ p \in [from -> to]
  /\ \A i, j \in from : i < j => p[i] < p[j]
  /\ \A j \in to : \E i \in from : p[i] = j

\* The only increasing enumeration of positions is the one that At takes.
LEMMA AtUnique ==
  ASSUME NEW array, NEW n \in Nat, NEW positions \in SUBSET (1..n), NEW c \in Nat,
         NEW p, Moves(p, 1..c, positions)
  PROVE  Picks(p, array, positions) /\ Cardinality(positions) = c
<1>0. /\ p \in [1..c -> positions] /\ \A k, l \in 1..c : k < l => p[k] < p[l]
      /\ \A i \in positions : \E k \in 1..c : p[k] = i
  BY DEF Moves
<1>6. \A i \in positions : i \in Nat
  OBVIOUS
<1>1. PICK at : Picks(at, array, positions)
  BY AtPicks
<1>2. Cardinality(positions) = c
  <2>1. IsFiniteSet((0 + 1)..c) /\ Cardinality((0 + 1)..c) = c - 0
    <3>1. 0 \in Nat /\ 0 =< c
      OBVIOUS
    <3> QED
      BY <3>1, Interval
  <2>2. IsFiniteSet(1..c) /\ Cardinality(1..c) = c
    <3>1. (0 + 1)..c = 1..c /\ c - 0 = c
      OBVIOUS
    <3> QED
      BY <2>1, <3>1
  <2>3. \A i \in positions : i \in Nat
    OBVIOUS
  <2>4. \A k, l \in 1..c : k # l => p[k] # p[l]
    <3> SUFFICES ASSUME NEW k \in 1..c, NEW l \in 1..c, k < l PROVE p[k] # p[l]
      OBVIOUS
    <3>1. p[k] < p[l] /\ p[k] \in Nat /\ p[l] \in Nat
      BY <1>0, <2>3
    <3> QED
      BY <3>1
  <2>5. p \in Bijection(1..c, positions)
    BY <1>0, <2>4 DEF Bijection, Injection, Surjection, IsInjective
  <2> QED
    BY <2>2, <2>5, FS_Bijection DEF ExistsBijection
<1>3. /\ at \in [1..c -> positions]
      /\ At(array, positions) = [k \in 1..c |-> array[at[k]]]
      /\ \A k, l \in 1..c : k < l => at[k] < at[l]
      /\ \A i \in positions : \E k \in 1..c : at[k] = i
  BY <1>1, <1>2 DEF Picks
<1>4. \A k \in 1..c : at[k] = p[k]
  <2> DEFINE Differ == {k \in 1..c : at[k] # p[k]}
  <2> SUFFICES ASSUME Differ # {} PROVE FALSE
    OBVIOUS
  <2>1. PICK k \in Differ : \A x \in Differ : k =< x
    <3>1. Differ \in SUBSET Nat
      OBVIOUS
    <3> HIDE DEF Differ
    <3> QED
      BY <3>1, LeastExists
  <2>2. k \in 1..c /\ at[k] # p[k] /\ \A l \in 1..c : l < k => at[l] = p[l]
    BY <2>1
  <2>3. PICK l \in 1..c : p[l] = at[k]
    BY <1>0, <1>3, <2>2
  <2>4. PICK m \in 1..c : at[m] = p[k]
    BY <1>0, <1>3, <2>2
  <2>5. at[k] \in Nat /\ p[k] \in Nat /\ at[k] \in positions /\ p[k] \in positions
    <3>1. at[k] \in positions /\ p[k] \in positions
      BY <1>0, <1>3, <2>2
    <3> QED
      BY <1>6, <3>1
  <2>6. l > k
    <3>1. l # k
      BY <2>2, <2>3
    <3>2. ~(l < k)
      <4> SUFFICES ASSUME l < k PROVE FALSE
        OBVIOUS
      <4>1. at[l] = at[k] /\ at[l] < at[k]
        BY <1>3, <2>2, <2>3
      <4> QED
        BY <2>5, <4>1
    <3> QED
      BY <2>2, <3>1, <3>2
  <2>7. m > k
    <3>1. m # k
      BY <2>2, <2>4
    <3>2. ~(m < k)
      <4> SUFFICES ASSUME m < k PROVE FALSE
        OBVIOUS
      <4>1. p[m] = p[k] /\ p[m] < p[k]
        BY <1>0, <2>2, <2>4
      <4> QED
        BY <2>5, <4>1
    <3> QED
      BY <2>2, <3>1, <3>2
  <2>8. p[k] < at[k] /\ at[k] < p[k]
    BY <1>0, <1>3, <2>2, <2>3, <2>4, <2>6, <2>7
  <2> QED
    BY <2>5, <2>8
<1>5. At(array, positions) = [k \in 1..c |-> array[p[k]]]
  BY <1>3, <1>4
<1> QED
  BY <1>0, <1>2, <1>5 DEF Picks

\* Positions of an array, whatever its length.
Positions(some) == \E n \in Nat : some \in SUBSET (1..n)

\* The items at some positions of a are those that b has where the positions move.
SameItems(move, a, from, b) == \A i \in from : b[move[i]] = a[i]

\* The same items at other positions of another array, in the same order.
LEMMA AtMoved ==
  ASSUME NEW a, NEW from, Positions(from), NEW b, NEW to, Positions(to),
         NEW move, Moves(move, from, to), SameItems(move, a, from, b)
  PROVE  At(b, to) = At(a, from)
<1>0. /\ move \in [from -> to] /\ \A i, j \in from : i < j => move[i] < move[j]
      /\ \A j \in to : \E i \in from : move[i] = j
      /\ \A i \in from : b[move[i]] = a[i]
  BY DEF Moves, SameItems
<1>8. PICK n \in Nat : from \in SUBSET (1..n)
  BY DEF Positions
<1>9. PICK m \in Nat : to \in SUBSET (1..m)
  BY DEF Positions
<1>1. PICK at : Picks(at, a, from)
  BY <1>8, AtPicks
<1> DEFINE c == Cardinality(from)
           p == [k \in 1..c |-> move[at[k]]]
<1>2. /\ c \in Nat /\ at \in [1..c -> from]
      /\ At(a, from) = [k \in 1..c |-> a[at[k]]]
      /\ \A k, l \in 1..c : k < l => at[k] < at[l]
      /\ \A i \in from : \E k \in 1..c : at[k] = i
  BY <1>1 DEF Picks
<1> HIDE DEF c
<1>3. p \in [1..c -> to]
  BY <1>0, <1>2
<1>4. \A k, l \in 1..c : k < l => p[k] < p[l]
  BY <1>0, <1>2
<1>5. \A j \in to : \E k \in 1..c : p[k] = j
  <2> SUFFICES ASSUME NEW j \in to PROVE \E k \in 1..c : p[k] = j
    OBVIOUS
  <2>1. PICK i \in from : move[i] = j
    BY <1>0
  <2>2. PICK k \in 1..c : at[k] = i
    BY <1>2
  <2> QED
    BY <2>1, <2>2
<1>6. \A k \in 1..c : b[p[k]] = a[at[k]]
  BY <1>0, <1>2
<1> HIDE DEF p
<1>7. At(b, to) = [k \in 1..c |-> b[p[k]]]
  <2>1. Moves(p, 1..c, to)
    BY <1>3, <1>4, <1>5 DEF Moves
  <2>2. Picks(p, b, to) /\ Cardinality(to) = c
    BY <1>2, <1>9, <2>1, AtUnique
  <2> QED
    BY <2>2 DEF Picks
<1> QED
  BY <1>2, <1>6, <1>7

-----------------------------------------------------------------------------
(* Wires. *)

\* An array: a function over 1, ..., n.
IsArray(a) == a \in Seq(Range(a))

\* What is given by its items from 1 to n is an array of n items.
LEMMA ArrayIs ==
  ASSUME NEW n \in Nat, NEW a, a = [i \in 1..n |-> a[i]]
  PROVE  IsArray(a) /\ Len(a) = n /\ DOMAIN a = 1..n
<1>1. DOMAIN a = 1..n
  OBVIOUS
<1>2. a \in [1..n -> Range(a)]
  BY <1>1 DEF Range
<1> QED
  BY <1>1, <1>2 DEF IsArray

\* An array is given by its items, and only the empty one has none.
LEMMA ArrayFacts ==
  ASSUME NEW a, IsArray(a)
  PROVE  /\ Len(a) \in Nat /\ DOMAIN a = 1..Len(a) /\ a = [i \in 1..Len(a) |-> a[i]]
         /\ Len(a) = 0 <=> a = <<>>
<1>1. a \in Seq(Range(a))
  BY DEF IsArray
<1>2. Len(a) \in Nat /\ a \in [1..Len(a) -> Range(a)]
  BY <1>1, LenProperties
<1>3. a = <<>> <=> Len(a) = 0
  BY <1>1, EmptySeq
<1> QED
  BY <1>2, <1>3

\* One array after another.
Joined(w, a, b) ==
  /\ IsArray(w) /\ Len(w) = Len(a) + Len(b)
  /\ \A i \in 1..Len(a) : w[i] = a[i]
  /\ \A i \in 1..Len(b) : w[Len(a) + i] = b[i]

\* Concatenation (the ... of two arrays, an append to a Uint8Array) puts one after the other.
LEMMA JoinFacts ==
  ASSUME NEW a, NEW b, IsArray(a), IsArray(b)
  PROVE  Joined(a \o b, a, b)
<1> DEFINE S == Range(a) \cup Range(b)
<1>1. a \in Seq(S) /\ b \in Seq(S)
  <2>1. a \in Seq(Range(a)) /\ b \in Seq(Range(b)) /\ Range(a) \subseteq S /\ Range(b) \subseteq S
    BY DEF IsArray
  <2> QED
    BY <2>1, SeqMonotonic
<1> HIDE DEF S
<1>2. /\ a \o b \in Seq(S) /\ Len(a \o b) = Len(a) + Len(b)
      /\ Len(a) \in Nat /\ Len(b) \in Nat
      /\ \A i \in 1..(Len(a) + Len(b)) : (a \o b)[i] = IF i =< Len(a) THEN a[i] ELSE b[i - Len(a)]
  BY <1>1, ConcatProperties
<1>3. \A i \in 1..Len(a) : i \in 1..(Len(a) + Len(b)) /\ i =< Len(a)
  BY <1>2
<1>4. \A i \in 1..Len(b) : /\ Len(a) + i \in 1..(Len(a) + Len(b)) /\ ~(Len(a) + i =< Len(a))
                           /\ (Len(a) + i) - Len(a) = i
  BY <1>2
<1>5. IsArray(a \o b)
  <2>1. (a \o b) \in [1..Len(a \o b) -> S]
    BY <1>2, LenProperties
  <2> DEFINE w == a \o b
             m == Len(a \o b)
  <2>2. m \in Nat
    BY <1>2
  <2> HIDE DEF w, m
  <2>3. w = [i \in 1..m |-> w[i]]
    BY <2>1 DEF w, m
  <2>4. IsArray(w)
    BY <2>2, <2>3, ArrayIs
  <2> QED
    BY <2>4 DEF w
<1> DEFINE w == a \o b
<1>6. /\ Len(w) = Len(a) + Len(b) /\ IsArray(w)
      /\ \A i \in 1..Len(a) : w[i] = a[i]
      /\ \A i \in 1..Len(b) : w[Len(a) + i] = b[i]
  BY <1>2, <1>3, <1>4, <1>5
<1> HIDE DEF w
<1>7. Joined(w, a, b)
  BY <1>6 DEF Joined
<1> QED
  BY <1>7 DEF w

\* The positions of the entries of a number.
Where(wire, no) == {i \in DOMAIN wire : wire[i][1] = no}

\* Joining the entries of another number changes nothing of what is found of this one.
LEMMA JoinWhere ==
  ASSUME NEW a, NEW b, IsArray(a), IsArray(b), NEW no
  PROVE  /\ Where(b, no) = {} => /\ At(a \o b, Where(a \o b, no)) = At(a, Where(a, no))
                                 /\ Where(a \o b, no) = Where(a, no)
         /\ Where(a, no) = {} => At(a \o b, Where(a \o b, no)) = At(b, Where(b, no))
<1> DEFINE w == a \o b
<1>1. /\ Len(a) \in Nat /\ DOMAIN a = 1..Len(a) /\ Len(b) \in Nat /\ DOMAIN b = 1..Len(b)
  BY ArrayFacts
<1>2. /\ IsArray(w) /\ Len(w) = Len(a) + Len(b)
      /\ \A i \in 1..Len(a) : w[i] = a[i]
      /\ \A i \in 1..Len(b) : w[Len(a) + i] = b[i]
  BY JoinFacts DEF Joined
<1> HIDE DEF w
<1>3. DOMAIN w = 1..(Len(a) + Len(b)) /\ Len(a) + Len(b) \in Nat
  BY <1>1, <1>2, ArrayFacts
<1> DEFINE m == Len(a) + Len(b)
<1>4. \A i \in DOMAIN w : i \in 1..Len(a) \/ (i - Len(a) \in 1..Len(b) /\ i = Len(a) + (i - Len(a)))
  BY <1>1, <1>3
<1>5. ASSUME Where(b, no) = {}
      PROVE  At(w, Where(w, no)) = At(a, Where(a, no)) /\ Where(w, no) = Where(a, no)
  <2>1. \A i \in Where(a, no) : i \in Where(w, no) /\ w[i] = a[i] /\ i \in Nat
    BY <1>1, <1>2, <1>3 DEF Where
  <2>2. ASSUME NEW i \in Where(w, no) PROVE i \in Where(a, no)
    <3>1. CASE i \in 1..Len(a)
      BY <1>1, <1>2, <3>1 DEF Where
    <3>2. CASE i - Len(a) \in 1..Len(b) /\ i = Len(a) + (i - Len(a))
      <4>1. i - Len(a) \in Where(b, no)
        BY <1>1, <1>2, <3>2 DEF Where
      <4> QED
        BY <1>5, <4>1
    <3> QED
      BY <1>4, <3>1, <3>2 DEF Where
  <2>3. Where(w, no) = Where(a, no)
    BY <2>1, <2>2
  <2>4. Where(a, no) \in SUBSET (1..Len(a)) /\ Where(w, no) \in SUBSET (1..m)
    BY <1>1, <1>3 DEF Where
  <2> DEFINE move == [i \in Where(a, no) |-> i]
  <2>5. /\ Moves(move, Where(a, no), Where(w, no))
        /\ \A i \in Where(a, no) : w[move[i]] = a[i]
    BY <2>1, <2>3 DEF Moves
  <2> HIDE DEF move
  <2>6. m \in Nat
    BY <1>1
  <2> HIDE DEF m
  <2> QED
    <3> DEFINE F == Where(a, no)
               T == Where(w, no)
    <3>1. F \in SUBSET (1..Len(a)) /\ T \in SUBSET (1..m) /\ Moves(move, F, T)
      BY <2>4, <2>5
    <3>2. SameItems(move, a, F, w)
      BY <2>5 DEF SameItems
    <3>3. Len(a) \in Nat
      BY <1>1
    <3> HIDE DEF F, T
    <3>5. Positions(F) /\ Positions(T)
      BY <2>6, <3>1, <3>3 DEF Positions
    <3>4. At(w, T) = At(a, F)
      BY <3>1, <3>2, <3>5, AtMoved
    <3> QED
      BY <2>3, <3>4 DEF F, T
<1>6. ASSUME Where(a, no) = {}
      PROVE  At(w, Where(w, no)) = At(b, Where(b, no))
  <2>1. ASSUME NEW i \in Where(b, no)
        PROVE  Len(a) + i \in Where(w, no) /\ w[Len(a) + i] = b[i] /\ i \in Nat
    <3>1. i \in 1..Len(b) /\ b[i][1] = no
      BY <1>1 DEF Where
    <3>2. Len(a) + i \in DOMAIN w /\ w[Len(a) + i] = b[i]
      BY <1>1, <1>2, <1>3, <3>1
    <3> QED
      BY <3>1, <3>2 DEF Where
  <2>2. ASSUME NEW i \in Where(w, no) PROVE i - Len(a) \in Where(b, no) /\ i = Len(a) + (i - Len(a))
    <3>1. CASE i \in 1..Len(a)
      <4>1. i \in Where(a, no)
        BY <1>1, <1>2, <3>1 DEF Where
      <4> QED
        BY <1>6, <4>1
    <3>2. CASE i - Len(a) \in 1..Len(b) /\ i = Len(a) + (i - Len(a))
      BY <1>1, <1>2, <3>2 DEF Where
    <3> QED
      BY <1>4, <3>1, <3>2 DEF Where
  <2>4. Where(b, no) \in SUBSET (1..Len(b)) /\ Where(w, no) \in SUBSET (1..m)
    BY <1>1, <1>3 DEF Where
  <2> DEFINE move == [i \in Where(b, no) |-> Len(a) + i]
  <2>5. \A i, j \in Where(b, no) : i < j => move[i] < move[j]
    BY <1>1, <2>1
  <2>6. /\ move \in [Where(b, no) -> Where(w, no)]
        /\ \A i \in Where(b, no) : w[move[i]] = b[i]
    BY <2>1
  <2>7. \A j \in Where(w, no) : \E i \in Where(b, no) : move[i] = j
    <3> SUFFICES ASSUME NEW j \in Where(w, no) PROVE \E i \in Where(b, no) : move[i] = j
      OBVIOUS
    <3>1. j - Len(a) \in Where(b, no) /\ Len(a) + (j - Len(a)) = j
      BY <2>2
    <3> QED
      BY <3>1
  <2> HIDE DEF move
  <2>8. m \in Nat
    BY <1>1
  <2> HIDE DEF m
  <2>9. Moves(move, Where(b, no), Where(w, no))
    BY <2>5, <2>6, <2>7 DEF Moves
  <2> QED
    <3> DEFINE F == Where(b, no)
               T == Where(w, no)
    <3>1. F \in SUBSET (1..Len(b)) /\ T \in SUBSET (1..m) /\ Moves(move, F, T)
      BY <2>4, <2>9
    <3>2. SameItems(move, b, F, w)
      BY <2>6 DEF SameItems
    <3>3. Len(b) \in Nat
      BY <1>1
    <3> HIDE DEF F, T
    <3>5. Positions(F) /\ Positions(T)
      BY <2>8, <3>1, <3>3 DEF Positions
    <3>4. At(w, T) = At(b, F)
      BY <3>1, <3>2, <3>5, AtMoved
    <3> QED
      BY <3>4 DEF F, T
<1> QED
  BY <1>5, <1>6 DEF w

\* All of an array.
LEMMA AtAll ==
  ASSUME NEW a, IsArray(a)
  PROVE  At(a, DOMAIN a) = a
<1>1. Len(a) \in Nat /\ DOMAIN a = 1..Len(a) /\ a = [i \in 1..Len(a) |-> a[i]]
  BY ArrayFacts
<1> DEFINE p == [k \in 1..Len(a) |-> k]
<1>2. Moves(p, 1..Len(a), 1..Len(a))
  BY DEF Moves
<1>4. \A k \in 1..Len(a) : p[k] = k
  OBVIOUS
<1> HIDE DEF p
<1>5. At(a, 1..Len(a)) = [k \in 1..Len(a) |-> a[p[k]]]
  <2>1. 1..Len(a) \in SUBSET (1..Len(a))
    OBVIOUS
  <2>2. Picks(p, a, 1..Len(a)) /\ Cardinality(1..Len(a)) = Len(a)
    BY <1>1, <1>2, <2>1, AtUnique
  <2> QED
    BY <2>2 DEF Picks
<1> QED
  BY <1>1, <1>4, <1>5

-----------------------------------------------------------------------------
(* Encoding: of each field, a wire has the entries in their order. *)

\* The schemas of the generated code: a number and a name belong to one field.
Good(schema) ==
  /\ IsArray(schema)
  /\ \A i \in DOMAIN schema :
       /\ schema[i].rule \in {"plain", "optional", "repeated"}
       /\ schema[i].rule = "plain" => schema[i].of = <<>>
  /\ \A i, j \in DOMAIN schema :
       i # j => schema[i].no # schema[j].no /\ schema[i].name # schema[j].name

\* The objects that encode takes, whatever the values of the fields.
Flat(schema, obj) ==
  /\ obj = [n \in DOMAIN obj |-> obj[n]]
  /\ DOMAIN obj \subseteq FieldNames(schema)
  /\ \A i \in DOMAIN schema :
       schema[i].rule = "repeated" /\ schema[i].name \in DOMAIN obj => IsArray(obj[schema[i].name])

\* Of each field, a wire has the entries of obj in their order.
Carries(wire, schema, obj) ==
  /\ IsArray(wire)
  /\ \A i \in DOMAIN schema :
       At(wire, Where(wire, schema[i].no)) = EncodeField(schema[i], obj)

\* The field of a name is the only one of the schema that has it.
LEMMA FieldOfName ==
  ASSUME NEW schema, Good(schema), NEW i \in DOMAIN schema
  PROVE  FieldOf(schema, schema[i].name) = schema[i]
<1>1. \A j \in DOMAIN schema : schema[j].name = schema[i].name => j = i
  BY DEF Good
<1> QED
  BY <1>1 DEF FieldOf

\* A field is written as an array of entries, each with the number of the field.
LEMMA EntriesOfField ==
  ASSUME NEW schema, Good(schema), NEW obj, Flat(schema, obj), NEW i \in DOMAIN schema
  PROVE  /\ IsArray(EncodeField(schema[i], obj))
         /\ \A k \in DOMAIN EncodeField(schema[i], obj) :
              EncodeField(schema[i], obj)[k][1] = schema[i].no
<1> DEFINE f == schema[i]
           entries == EncodeField(f, obj)
<1>1. CASE f.name \notin DOMAIN obj \/ (f.rule = "plain" /\ obj[f.name] = Zero)
  <2>1. entries = <<>>
    BY <1>1 DEF EncodeField
  <2>2. <<>> = [k \in 1..0 |-> <<>>[k]]
    OBVIOUS
  <2>3. IsArray(<<>>) /\ DOMAIN <<>> = 1..0
    BY <2>2, ArrayIs
  <2> QED
    BY <2>1, <2>3
<1>2. CASE ~(f.name \notin DOMAIN obj \/ (f.rule = "plain" /\ obj[f.name] = Zero)) /\ f.rule = "repeated"
  <2> DEFINE v == obj[f.name]
  <2>1. IsArray(v)
    BY <1>2 DEF Flat
  <2>2. entries = [k \in DOMAIN v |-> <<f.no, v[k]>>]
    BY <1>2 DEF EncodeField
  <2> HIDE DEF v, entries
  <2>3. Len(v) \in Nat /\ DOMAIN v = 1..Len(v)
    BY <2>1, ArrayFacts
  <2>4. entries = [k \in 1..Len(v) |-> entries[k]]
    BY <2>2, <2>3
  <2>5. IsArray(entries) /\ DOMAIN entries = DOMAIN v
    BY <2>3, <2>4, ArrayIs
  <2>6. \A k \in DOMAIN entries : entries[k][1] = f.no
    BY <2>2, <2>5
  <2> QED
    BY <2>5, <2>6 DEF entries
<1>3. CASE ~(f.name \notin DOMAIN obj \/ (f.rule = "plain" /\ obj[f.name] = Zero)) /\ f.rule # "repeated"
  <2>1. entries = << <<f.no, obj[f.name]>> >>
    BY <1>3 DEF EncodeField
  <2> HIDE DEF entries
  <2>2. entries = [k \in 1..1 |-> entries[k]] /\ entries[1][1] = f.no
    BY <2>1
  <2>3. IsArray(entries) /\ DOMAIN entries = 1..1
    BY <2>2, ArrayIs
  <2>4. \A k \in DOMAIN entries : entries[k][1] = f.no
    BY <2>2, <2>3
  <2> QED
    BY <2>3, <2>4 DEF entries
<1> QED
  BY <1>1, <1>2, <1>3

\* encode writes the entries of every field, by induction over the fields of the schema.
LEMMA EncodeCarries ==
  ASSUME NEW schema, Good(schema), NEW obj, Flat(schema, obj)
  PROVE  Carries(EncodeFields(schema, obj), schema, obj)
<1> DEFINE enc(i) == EncodeField(schema[i], obj)
           len == Len(schema)
           E == UNION {Range(enc(i)) : i \in DOMAIN schema}
           T == Seq(E)
           S == Range(schema)
           step == [a \in T \X S |-> a[1] \o EncodeField(a[2], obj)]
           Body(f) == [n \in 0..Len(schema) |->
              IF n = 0 THEN <<>> ELSE f[n - 1] \o EncodeField(schema[n], obj)]
<1>1. len \in Nat /\ DOMAIN schema = 1..len /\ schema \in Seq(S)
  BY ArrayFacts DEF Good, IsArray
<1>2. ASSUME NEW i \in DOMAIN schema
      PROVE  enc(i) \in T /\ IsArray(enc(i)) /\ \A k \in DOMAIN enc(i) : enc(i)[k][1] = schema[i].no
  <2>1. IsArray(enc(i)) /\ \A k \in DOMAIN enc(i) : enc(i)[k][1] = schema[i].no
    BY EntriesOfField
  <2> HIDE DEF enc
  <2>2. enc(i) \in Seq(Range(enc(i))) /\ Range(enc(i)) \subseteq E
    BY <2>1 DEF IsArray
  <2> HIDE DEF E
  <2> QED
    BY <2>1, <2>2, SeqMonotonic
<1>3. \A f \in S : EncodeField(f, obj) \in T
  <2> SUFFICES ASSUME NEW f \in S PROVE EncodeField(f, obj) \in T
    OBVIOUS
  <2>1. PICK i \in DOMAIN schema : f = schema[i]
    BY DEF Range
  <2> HIDE DEF T
  <2> QED
    BY <1>2, <2>1
<1>4. step \in [T \X S -> T]
  <2> SUFFICES ASSUME NEW a \in T \X S PROVE a[1] \o EncodeField(a[2], obj) \in T
    OBVIOUS
  <2>1. a[1] \in T /\ EncodeField(a[2], obj) \in T
    BY <1>3
  <2> HIDE DEF E
  <2> QED
    BY <2>1, ConcatProperties
<1>5. <<>> \in T
  <2> HIDE DEF E
  <2> QED
    OBVIOUS
<1>6. PICK g \in [0..Len(schema) -> T] : Rounds(g, <<>>, step, schema)
  <2> HIDE DEF step, T, S
  <2> QED
    BY <1>1, <1>4, <1>5, LoopExists
<1>7. ASSUME NEW n \in 1..len
      PROVE  g[n] = g[n - 1] \o enc(n)
  <2>1. g[n - 1] \in T /\ schema[n] \in S
    <3>1. n - 1 \in 0..len
      BY <1>1
    <3>2. schema[n] \in S
      BY <1>1 DEF Range
    <3> HIDE DEF T, S
    <3> QED
      BY <3>1, <3>2
  <2>2. g[n] = step[<<g[n - 1], schema[n]>>]
    BY <1>6 DEF Rounds
  <2> HIDE DEF T, S
  <2> QED
    BY <2>1, <2>2
<1>8. g = Body(g)
  <2>1. g[0] = <<>>
    BY <1>6 DEF Rounds
  <2>2. g = [n \in 0..len |-> g[n]]
    <3> HIDE DEF T
    <3> QED
      BY <1>6
  <2>3. \A n \in 0..len : n = 0 \/ n \in 1..len
    BY <1>1
  <2>4. \A n \in 0..len : g[n] = IF n = 0 THEN <<>> ELSE g[n - 1] \o EncodeField(schema[n], obj)
    BY <1>7, <2>1, <2>3
  <2> HIDE DEF T
  <2> QED
    BY <2>2, <2>4
<1>9. PICK f : f = (CHOOSE h : h = Body(h))
  OBVIOUS
<1>10. f = Body(f)
  <2> HIDE DEF Body
  <2> QED
    BY <1>8, <1>9
<1>11. EncodeFields(schema, obj) = f[len]
  BY <1>9 DEF EncodeFields
<1>12. f[0] = <<>> /\ \A n \in 1..len : f[n] = f[n - 1] \o enc(n)
  <2>1. 0 \in 0..len /\ \A n \in 1..len : n \in 0..len /\ n # 0
    BY <1>1
  <2> QED
    BY <1>10, <2>1
<1> HIDE DEF Body, step, T, E, S
\* After n fields, the wire has their entries and no others.
<1> DEFINE Done(n) == /\ IsArray(f[n])
                      /\ \A j \in 1..len : j =< n => At(f[n], Where(f[n], schema[j].no)) = enc(j)
                      /\ \A j \in 1..len : j > n => Where(f[n], schema[j].no) = {}
<1>13. Done(0)
  <2>1. <<>> = [k \in 1..0 |-> <<>>[k]] /\ 0 \in Nat
    OBVIOUS
  <2>2. IsArray(<<>>) /\ DOMAIN <<>> = 1..0
    BY <2>1, ArrayIs
  <2>3. \A j \in 1..len : ~(j =< 0)
    BY <1>1
  <2>4. \A no : Where(<<>>, no) = {}
    BY <2>2 DEF Where
  <2> QED
    BY <1>12, <2>2, <2>3, <2>4
<1>14. ASSUME NEW n \in 1..len, Done(n - 1)
       PROVE  Done(n)
  <2> DEFINE a == f[n - 1]
             b == enc(n)
             w == f[n]
  <2>1. /\ IsArray(a) /\ IsArray(b) /\ w = a \o b
        /\ \A k \in DOMAIN b : b[k][1] = schema[n].no
    BY <1>1, <1>2, <1>12, <1>14
  <2>2. IsArray(w)
    BY <2>1, JoinFacts DEF Joined
  <2> HIDE DEF a, b, w
  <2>3. ASSUME NEW j \in 1..len, j # n
        PROVE  /\ At(w, Where(w, schema[j].no)) = At(a, Where(a, schema[j].no))
               /\ Where(w, schema[j].no) = Where(a, schema[j].no)
    <3>1. schema[j].no # schema[n].no
      BY <1>1, <2>3 DEF Good
    <3>2. Where(b, schema[j].no) = {}
      BY <2>1, <3>1 DEF Where
    <3> QED
      BY <2>1, <3>2, JoinWhere
  <2>4. At(w, Where(w, schema[n].no)) = b
    <3>1. n > n - 1
      BY <1>1
    <3>2. Where(a, schema[n].no) = {}
      BY <1>14, <3>1 DEF a
    <3>3. Where(b, schema[n].no) = DOMAIN b
      BY <2>1 DEF Where
    <3>4. At(b, DOMAIN b) = b
      BY <2>1, AtAll
    <3> QED
      BY <2>1, <3>2, <3>3, <3>4, JoinWhere
  <2>5. \A j \in 1..len : (j =< n => j = n \/ j =< n - 1) /\ (j > n => j > n - 1 /\ j # n)
    BY <1>1
  <2>6. ASSUME NEW j \in 1..len, j =< n
        PROVE  At(w, Where(w, schema[j].no)) = enc(j)
    <3>1. CASE j = n
      BY <2>4, <3>1 DEF b
    <3>2. CASE j # n
      <4>1. At(a, Where(a, schema[j].no)) = enc(j)
        BY <1>14, <2>5, <2>6, <3>2 DEF a
      <4> QED
        BY <2>3, <3>2, <4>1
    <3> QED
      BY <3>1, <3>2
  <2>7. ASSUME NEW j \in 1..len, j > n
        PROVE  Where(w, schema[j].no) = {}
    <3>1. Where(a, schema[j].no) = {} /\ j # n
      BY <1>14, <2>5, <2>7 DEF a
    <3> QED
      BY <2>3, <3>1
  <2> QED
    BY <2>2, <2>6, <2>7 DEF w
<1>15. Done(len)
  <2> DEFINE T2 == {n \in 0..len : Done(n)}
             id == [n \in 0..len |-> n]
  <2>1. id[0] \in T2
    BY <1>1, <1>13
  <2>2. ASSUME NEW n \in 1..len, id[n - 1] \in T2
        PROVE  id[n] \in T2
    <3>1. n - 1 \in 0..len /\ n \in 0..len
      BY <1>1
    <3> HIDE DEF Done
    <3>2. Done(n - 1)
      BY <2>2, <3>1
    <3> QED
      BY <1>14, <3>1, <3>2
  <2> HIDE DEF T2, id
  <2>3. id[len] \in T2
    BY <1>1, <2>1, <2>2, LoopKeeps
  <2>4. len \in 0..len
    BY <1>1
  <2> HIDE DEF Done
  <2> QED
    BY <2>3, <2>4 DEF T2, id
<1>16. \A j \in 1..len : j =< len
  BY <1>1
<1> QED
  BY <1>1, <1>11, <1>15, <1>16 DEF Carries

-----------------------------------------------------------------------------
(* Decoding one level: the last of the entries, or all of them, or the default. *)

\* A reader knows fields of the writer, and no others.
Reads(reader, schema) ==
  /\ Good(reader)
  /\ \A i \in DOMAIN reader : \E j \in DOMAIN schema : reader[i] = schema[j]

\* What is read is what was sent of the fields that the reader knows.
Faithful(read, sent, reader) ==
  /\ read = [n \in DOMAIN read |-> read[n]]
  /\ DOMAIN read = DOMAIN sent \cap FieldNames(reader)
  /\ \A n \in DOMAIN read : read[n] = sent[n]

\* A field that a reader knows is the same field for the writer.
LEMMA ReadsFacts ==
  ASSUME NEW schema, Good(schema), NEW reader, Reads(reader, schema), NEW i \in DOMAIN reader
  PROVE  /\ FieldOf(reader, reader[i].name) = reader[i]
         /\ FieldOf(schema, reader[i].name) = reader[i]
         /\ \E j \in DOMAIN schema : reader[i] = schema[j]
<1>1. PICK j \in DOMAIN schema : reader[i] = schema[j]
  BY DEF Reads
<1>2. Good(reader)
  BY DEF Reads
<1> QED
  BY <1>1, <1>2, FieldOfName

\* Defaults add the fields that are neither given nor optional, and change no other.
LEMMA DefaultsFacts ==
  ASSUME NEW schema, Good(schema), NEW obj, Flat(schema, obj)
  PROVE  /\ DOMAIN obj \subseteq DOMAIN WithDefaults(schema, obj)
         /\ DOMAIN WithDefaults(schema, obj) \subseteq FieldNames(schema)
         /\ \A n \in DOMAIN obj : WithDefaults(schema, obj)[n] = obj[n]
         /\ WithDefaults(schema, obj) =
              [n \in DOMAIN WithDefaults(schema, obj) |-> WithDefaults(schema, obj)[n]]
         /\ \A i \in DOMAIN schema :
              LET f == schema[i]
              IN  /\ f.name \in DOMAIN WithDefaults(schema, obj) <=>
                       f.name \in DOMAIN obj \/ f.rule # "optional"
                  /\ f.name \notin DOMAIN obj /\ f.rule # "optional" =>
                       WithDefaults(schema, obj)[f.name] = IF f.rule = "plain" THEN Zero ELSE <<>>
<1> DEFINE always == {schema[i].name : i \in {j \in DOMAIN schema : schema[j].rule # "optional"}}
           all == WithDefaults(schema, obj)
<1>1. all = [n \in always \cup DOMAIN obj |->
               IF n \in DOMAIN obj THEN obj[n]
               ELSE IF FieldOf(schema, n).rule = "plain" THEN Zero ELSE <<>>]
  BY DEF WithDefaults
<1>2. DOMAIN obj \subseteq FieldNames(schema) /\ always \subseteq FieldNames(schema)
  BY DEF Flat, FieldNames
<1>3. \A i \in DOMAIN schema : schema[i].name \in always <=> schema[i].rule # "optional"
  <2> SUFFICES ASSUME NEW i \in DOMAIN schema
               PROVE  schema[i].name \in always <=> schema[i].rule # "optional"
    OBVIOUS
  <2>1. \A j \in DOMAIN schema : schema[j].name = schema[i].name => j = i
    BY DEF Good
  <2> QED
    BY <2>1
<1>4. \A i \in DOMAIN schema : FieldOf(schema, schema[i].name) = schema[i]
  BY FieldOfName
<1> HIDE DEF always, all
<1>5. DOMAIN all = always \cup DOMAIN obj /\ all = [n \in DOMAIN all |-> all[n]]
  BY <1>1
<1>6. \A n \in DOMAIN obj : all[n] = obj[n]
  BY <1>1
<1>7. ASSUME NEW i \in DOMAIN schema
      PROVE  /\ schema[i].name \in DOMAIN all <=>
                  schema[i].name \in DOMAIN obj \/ schema[i].rule # "optional"
             /\ schema[i].name \notin DOMAIN obj /\ schema[i].rule # "optional" =>
                  all[schema[i].name] = IF schema[i].rule = "plain" THEN Zero ELSE <<>>
  BY <1>1, <1>3, <1>4, <1>5
<1> QED
  BY <1>2, <1>5, <1>6, <1>7 DEF all

\* Decoding one level: the last of the entries, or all of them, or the default.
LEMMA DecodeKnown ==
  ASSUME NEW schema, Good(schema), NEW reader, Reads(reader, schema),
         NEW obj, Flat(schema, obj), NEW wire, Carries(wire, schema, obj)
  PROVE  Faithful(DecodeFields(reader, wire), WithDefaults(schema, obj), reader)
<1> DEFINE read == DecodeFields(reader, wire)
           sent == WithDefaults(schema, obj)
           set == {i \in DOMAIN reader : \/ reader[i].rule # "optional"
                                         \/ EntriesOf(wire, reader[i]) # <<>>}
           value(n) == LET f  == FieldOf(reader, n)
                           es == EntriesOf(wire, f)
                       IN  IF f.rule = "repeated" THEN [j \in DOMAIN es |-> es[j][2]]
                           ELSE IF es = <<>> THEN Zero ELSE es[Len(es)][2]
<1>1. read = [n \in {reader[i].name : i \in set} |-> value(n)]
  BY DEF DecodeFields
<1>2. ASSUME NEW i \in DOMAIN reader
      PROVE  EntriesOf(wire, reader[i]) = EncodeField(reader[i], obj)
  <2>1. PICK j \in DOMAIN schema : reader[i] = schema[j]
    BY DEF Reads
  <2>2. EntriesOf(wire, schema[j]) = At(wire, Where(wire, schema[j].no))
    BY DEF EntriesOf, Where
  <2> QED
    BY <2>1, <2>2 DEF Carries
<1>3. ASSUME NEW i \in DOMAIN reader
      PROVE  i \in set <=> reader[i].name \in DOMAIN sent
  <2>1. PICK j \in DOMAIN schema : reader[i] = schema[j]
    BY DEF Reads
  <2>2. reader[i].name \in DOMAIN sent <=> reader[i].name \in DOMAIN obj \/ reader[i].rule # "optional"
    BY <2>1, DefaultsFacts
  <2>3. CASE reader[i].rule # "optional"
    BY <2>2, <2>3
  <2>4. CASE reader[i].rule = "optional"
    <3>1. EncodeField(reader[i], obj) # <<>> <=> reader[i].name \in DOMAIN obj
      BY <2>4 DEF EncodeField
    <3> QED
      BY <1>2, <2>2, <2>4, <3>1
  <2> QED
    BY <2>3, <2>4
<1> HIDE DEF set
<1>4. DOMAIN read = DOMAIN sent \cap FieldNames(reader)
  <2>1. DOMAIN read = {reader[i].name : i \in set} /\ set \subseteq DOMAIN reader
    BY <1>1 DEF set
  <2> HIDE DEF read, sent
  <2> QED
    BY <1>3, <2>1 DEF FieldNames
<1>5. ASSUME NEW i \in set
      PROVE  value(reader[i].name) = sent[reader[i].name]
  <2> DEFINE f == reader[i]
             es == EncodeField(f, obj)
  <2>1. i \in DOMAIN reader
    BY DEF set
  <2>2. PICK j \in DOMAIN schema : f = schema[j]
    BY <2>1 DEF Reads
  <2>3. FieldOf(reader, f.name) = f /\ EntriesOf(wire, f) = es
    BY <1>2, <2>1, ReadsFacts
  <2>4. value(f.name) = IF f.rule = "repeated" THEN [k \in DOMAIN es |-> es[k][2]]
                        ELSE IF es = <<>> THEN Zero ELSE es[Len(es)][2]
    BY <2>3
  <2> HIDE DEF value
  <2>5. f.name \in DOMAIN sent
    BY <1>3, <2>1
  <2>6. f.rule \in {"plain", "optional", "repeated"}
    BY <2>2 DEF Good
  <2>7. CASE f.name \notin DOMAIN obj
    <3>1. es = <<>> /\ DOMAIN <<>> = {}
      BY <2>7 DEF EncodeField
    <3>2. f.rule # "optional" /\ sent[f.name] = IF f.rule = "plain" THEN Zero ELSE <<>>
      BY <2>2, <2>5, <2>7, DefaultsFacts
    <3>3. CASE f.rule = "plain"
      BY <2>4, <3>1, <3>2, <3>3
    <3>4. CASE f.rule = "repeated"
      <4>1. [k \in DOMAIN es |-> es[k][2]] = <<>>
        <5>1. DOMAIN es = {}
          BY <3>1
        <5> HIDE DEF es
        <5> QED
          BY <5>1
      <4> QED
        BY <2>4, <3>2, <3>4, <4>1
    <3> QED
      BY <2>6, <3>2, <3>3, <3>4
  <2>8. CASE f.name \in DOMAIN obj
    <3>1. sent[f.name] = obj[f.name]
      BY <2>8, DefaultsFacts
    <3>2. CASE f.rule = "repeated"
      <4> DEFINE v == obj[f.name]
      <4>1. IsArray(v)
        BY <2>2, <2>8, <3>2 DEF Flat
      <4>2. es = [k \in DOMAIN v |-> <<f.no, v[k]>>]
        BY <2>8, <3>2 DEF EncodeField
      <4> HIDE DEF v, es
      <4>3. v = [k \in DOMAIN v |-> v[k]]
        BY <4>1, ArrayFacts
      <4>4. DOMAIN es = DOMAIN v /\ \A k \in DOMAIN v : es[k][2] = v[k]
        BY <4>2
      <4>5. [k \in DOMAIN es |-> es[k][2]] = v
        BY <4>3, <4>4
      <4> QED
        BY <2>4, <3>1, <3>2, <4>5 DEF v
    <3>3. CASE f.rule # "repeated" /\ f.rule = "plain" /\ obj[f.name] = Zero
      <4>1. es = <<>>
        BY <3>3 DEF EncodeField
      <4> QED
        BY <2>4, <3>1, <3>3, <4>1
    <3>4. CASE f.rule # "repeated" /\ ~(f.rule = "plain" /\ obj[f.name] = Zero)
      <4>1. es = << <<f.no, obj[f.name]>> >>
        BY <2>8, <3>4 DEF EncodeField
      <4>2. es # <<>> /\ Len(es) = 1 /\ es[1][2] = obj[f.name]
        BY <4>1
      <4> HIDE DEF es
      <4> QED
        BY <2>4, <3>1, <3>4, <4>2
    <3> QED
      BY <3>2, <3>3, <3>4
  <2> QED
    BY <2>4, <2>7, <2>8
<1> HIDE DEF value, sent
<1>6. \A n \in DOMAIN read : read[n] = sent[n]
  BY <1>1, <1>5
<1>7. read = [n \in DOMAIN read |-> read[n]]
  BY <1>1
<1> QED
  BY <1>4, <1>6, <1>7 DEF Faithful, sent

-----------------------------------------------------------------------------
(* Embedded messages, level by level. *)

\* A schema with fewer than so many levels of embedded messages.
Schema1(schema) == Good(schema) /\ \A i \in DOMAIN schema : schema[i].of = <<>>

Schema2(schema) ==
  Good(schema) /\ \A i \in DOMAIN schema : schema[i].of # <<>> => Schema1(schema[i].of)

Schema3(schema) ==
  Good(schema) /\ \A i \in DOMAIN schema : schema[i].of # <<>> => Schema2(schema[i].of)

Schema4(schema) ==
  Good(schema) /\ \A i \in DOMAIN schema : schema[i].of # <<>> => Schema3(schema[i].of)

\* An object whose embedded messages are objects of their schemas.
Object1(schema, obj) == Flat(schema, obj)

Object2(schema, obj) ==
  /\ Flat(schema, obj)
  /\ \A i \in DOMAIN schema : schema[i].name \in DOMAIN obj /\ schema[i].of # <<>> =>
       IF schema[i].rule = "repeated"
       THEN \A k \in DOMAIN obj[schema[i].name] : Object1(schema[i].of, obj[schema[i].name][k])
       ELSE Object1(schema[i].of, obj[schema[i].name])

Object3(schema, obj) ==
  /\ Flat(schema, obj)
  /\ \A i \in DOMAIN schema : schema[i].name \in DOMAIN obj /\ schema[i].of # <<>> =>
       IF schema[i].rule = "repeated"
       THEN \A k \in DOMAIN obj[schema[i].name] : Object2(schema[i].of, obj[schema[i].name][k])
       ELSE Object2(schema[i].of, obj[schema[i].name])

Object4(schema, obj) ==
  /\ Flat(schema, obj)
  /\ \A i \in DOMAIN schema : schema[i].name \in DOMAIN obj /\ schema[i].of # <<>> =>
       IF schema[i].rule = "repeated"
       THEN \A k \in DOMAIN obj[schema[i].name] : Object3(schema[i].of, obj[schema[i].name][k])
       ELSE Object3(schema[i].of, obj[schema[i].name])

\* What is decoded is what was encoded, with the defaults: no embedded messages.
LEMMA RoundTrip1 ==
  ASSUME NEW schema, Schema1(schema), NEW obj, Object1(schema, obj)
  PROVE  Decode1(schema, Encode1(schema, obj)) = Completed1(schema, obj)
<1>1. Good(schema) /\ Flat(schema, obj)
  BY DEF Schema1, Object1
<1>2. Carries(Encode1(schema, obj), schema, obj)
  BY <1>1, EncodeCarries DEF Encode1
<1>3. Reads(schema, schema)
  BY <1>1 DEF Reads
<1>4. Faithful(Decode1(schema, Encode1(schema, obj)), Completed1(schema, obj), schema)
  BY <1>1, <1>2, <1>3, DecodeKnown DEF Decode1, Completed1
<1>5. /\ DOMAIN Completed1(schema, obj) \subseteq FieldNames(schema)
      /\ Completed1(schema, obj) = [n \in DOMAIN Completed1(schema, obj) |-> Completed1(schema, obj)[n]]
  BY <1>1, DefaultsFacts DEF Completed1
<1> QED
  BY <1>4, <1>5 DEF Faithful

-----------------------------------------------------------------------------
(* Messages that embed messages of 1 level. *)

\* With its embedded messages encoded an object is flat, one level of them.
LEMMA Embeds2 ==
  ASSUME NEW schema, Schema2(schema), NEW obj, Object2(schema, obj)
  PROVE  /\ Good(schema) /\ Flat(schema, obj)
         /\ Flat(schema, WithEmbedded(schema, obj, Encode1))
         /\ DOMAIN WithEmbedded(schema, obj, Encode1) = DOMAIN obj
         /\ \A i \in DOMAIN schema : schema[i].name \in DOMAIN obj =>
              WithEmbedded(schema, obj, Encode1)[schema[i].name] =
                IF schema[i].of = <<>> THEN obj[schema[i].name]
                ELSE IF schema[i].rule = "repeated"
                THEN [k \in DOMAIN obj[schema[i].name] |->
                        Encode1(schema[i].of, obj[schema[i].name][k])]
                ELSE Encode1(schema[i].of, obj[schema[i].name])
<1> DEFINE x == WithEmbedded(schema, obj, Encode1)
<1>1. Good(schema) /\ Flat(schema, obj)
  BY DEF Schema2, Object2
<1>2. DOMAIN x = DOMAIN obj /\ x = [n \in DOMAIN x |-> x[n]]
  <2>1. DOMAIN obj \cap FieldNames(schema) = DOMAIN obj
    BY <1>1 DEF Flat
  <2> QED
    BY <2>1 DEF WithEmbedded
<1>3. ASSUME NEW i \in DOMAIN schema, schema[i].name \in DOMAIN obj
      PROVE  x[schema[i].name] =
                IF schema[i].of = <<>> THEN obj[schema[i].name]
                ELSE IF schema[i].rule = "repeated"
                THEN [k \in DOMAIN obj[schema[i].name] |->
                        Encode1(schema[i].of, obj[schema[i].name][k])]
                ELSE Encode1(schema[i].of, obj[schema[i].name])
  <2>1. FieldOf(schema, schema[i].name) = schema[i]
    BY <1>1, FieldOfName
  <2>2. schema[i].name \in DOMAIN obj \cap FieldNames(schema)
    BY <1>3 DEF FieldNames
  <2> QED
    BY <2>1, <2>2 DEF WithEmbedded
<1> HIDE DEF x
<1>4. ASSUME NEW i \in DOMAIN schema, schema[i].rule = "repeated", schema[i].name \in DOMAIN x
      PROVE  IsArray(x[schema[i].name])
  <2> DEFINE a == obj[schema[i].name]
             b == x[schema[i].name]
  <2>1. IsArray(a)
    BY <1>1, <1>2, <1>4 DEF Flat
  <2>2. b = a \/ b = [k \in DOMAIN a |-> Encode1(schema[i].of, a[k])]
    BY <1>2, <1>3, <1>4
  <2> HIDE DEF a, b
  <2>3. Len(a) \in Nat /\ DOMAIN a = 1..Len(a)
    BY <2>1, ArrayFacts
  <2>4. CASE b = a
    BY <2>1, <2>4 DEF b
  <2>5. CASE b = [k \in DOMAIN a |-> Encode1(schema[i].of, a[k])]
    <3>1. b = [k \in 1..Len(a) |-> b[k]]
      BY <2>3, <2>5
    <3> QED
      BY <2>3, <3>1, ArrayIs DEF b
  <2> QED
    BY <2>2, <2>4, <2>5
<1>5. Flat(schema, x)
  BY <1>1, <1>2, <1>4 DEF Flat
<1> QED
  BY <1>1, <1>2, <1>3, <1>5 DEF x

\* Whoever reads a wire that carries obj has all of obj that it knows.
LEMMA Decodes2 ==
  ASSUME NEW schema, Schema2(schema), NEW obj, Object2(schema, obj),
         NEW reader, Reads(reader, schema),
         NEW wire, Carries(wire, schema, WithEmbedded(schema, obj, Encode1))
  PROVE  Faithful(Decode2(reader, wire), Completed2(schema, obj), reader)
<1> DEFINE x == WithEmbedded(schema, obj, Encode1)
           d == DecodeFields(reader, wire)
           got == WithDefaults(schema, x)
           all == WithDefaults(schema, obj)
           read == Decode2(reader, wire)
           sent == Completed2(schema, obj)
<1>1. /\ Good(schema) /\ Flat(schema, obj) /\ Flat(schema, x) /\ DOMAIN x = DOMAIN obj
      /\ \A i \in DOMAIN schema : schema[i].name \in DOMAIN obj =>
              x[schema[i].name] =
                IF schema[i].of = <<>> THEN obj[schema[i].name]
                ELSE IF schema[i].rule = "repeated"
                THEN [k \in DOMAIN obj[schema[i].name] |->
                        Encode1(schema[i].of, obj[schema[i].name][k])]
                ELSE Encode1(schema[i].of, obj[schema[i].name])
  BY Embeds2
<1>2. /\ DOMAIN read = DOMAIN d /\ read = [n \in DOMAIN read |-> read[n]]
      /\ DOMAIN sent = DOMAIN all
  <2>1. DOMAIN d \cap FieldNames(reader) = DOMAIN d
    BY DEF DecodeFields, FieldNames
  <2>2. DOMAIN all \cap FieldNames(schema) = DOMAIN all
    <3> HIDE DEF all, x
    <3>1. DOMAIN all \subseteq FieldNames(schema)
      BY <1>1, DefaultsFacts DEF all
    <3> QED
      BY <3>1
  <2> QED
    BY <2>1, <2>2 DEF Decode2, Completed2, WithEmbedded
<1>3. \A n \in DOMAIN read :
         read[n] = LET f == FieldOf(reader, n)
                   IN  IF f.of = <<>> THEN d[n]
                       ELSE IF f.rule = "repeated"
                       THEN [k \in DOMAIN d[n] |-> Decode1(f.of, d[n][k])]
                       ELSE Decode1(f.of, d[n])
  BY <1>2 DEF Decode2, WithEmbedded
<1>4. \A n \in DOMAIN sent :
         sent[n] = LET f == FieldOf(schema, n)
                   IN  IF f.of = <<>> THEN all[n]
                       ELSE IF f.rule = "repeated"
                       THEN [k \in DOMAIN all[n] |-> Completed1(f.of, all[n][k])]
                       ELSE Completed1(f.of, all[n])
  BY <1>2 DEF Completed2, WithEmbedded
<1>5. Faithful(d, got, reader)
  <2> HIDE DEF x
  <2> QED
    BY <1>1, DecodeKnown DEF x
<1> HIDE DEF x, d, read, sent
<1>6. /\ DOMAIN obj \subseteq DOMAIN all
      /\ \A n \in DOMAIN obj : all[n] = obj[n] /\ got[n] = x[n]
      /\ \A i \in DOMAIN schema :
           LET f == schema[i]
           IN  /\ f.name \in DOMAIN all <=> f.name \in DOMAIN obj \/ f.rule # "optional"
               /\ f.name \in DOMAIN got <=> f.name \in DOMAIN obj \/ f.rule # "optional"
               /\ f.name \notin DOMAIN obj /\ f.rule # "optional" =>
                    /\ all[f.name] = IF f.rule = "plain" THEN Zero ELSE <<>>
                    /\ got[f.name] = IF f.rule = "plain" THEN Zero ELSE <<>>
  BY <1>1, DefaultsFacts
<1> HIDE DEF got, all
<1>7. ASSUME NEW i \in DOMAIN reader
      PROVE  /\ reader[i].name \in DOMAIN read <=> reader[i].name \in DOMAIN sent
             /\ reader[i].name \in DOMAIN read => read[reader[i].name] = sent[reader[i].name]
  <2> DEFINE f == reader[i]
  <2>1. PICK j \in DOMAIN schema : f = schema[j]
    BY DEF Reads
  <2>2. FieldOf(reader, f.name) = f /\ FieldOf(schema, f.name) = f
    BY <1>1, ReadsFacts
  <2>3. Good(schema) /\ f.rule \in {"plain", "optional", "repeated"} /\ (f.rule = "plain" => f.of = <<>>)
    BY <1>1, <2>1 DEF Good
  <2>4. f.name \in DOMAIN read <=> f.name \in DOMAIN sent
    BY <1>2, <1>5, <1>6, <2>1 DEF Faithful, FieldNames
  <2>5. f.of # <<>> => Schema1(f.of)
    BY <2>1 DEF Schema2
  <2>6. /\ f.name \in DOMAIN obj /\ f.of # <<>> /\ f.rule = "repeated" =>
             \A k \in DOMAIN obj[f.name] : Object1(f.of, obj[f.name][k])
        /\ f.name \in DOMAIN obj /\ f.of # <<>> /\ f.rule # "repeated" =>
             Object1(f.of, obj[f.name])
    BY <2>1 DEF Object2
  <2>7. f.name \in DOMAIN obj =>
          x[f.name] = IF f.of = <<>> THEN obj[f.name]
                      ELSE IF f.rule = "repeated"
                      THEN [k \in DOMAIN obj[f.name] |-> Encode1(f.of, obj[f.name][k])]
                      ELSE Encode1(f.of, obj[f.name])
    BY <1>1, <2>1
  <2>8. /\ f.name \in DOMAIN obj => all[f.name] = obj[f.name] /\ got[f.name] = x[f.name]
        /\ f.name \notin DOMAIN obj /\ f.rule # "optional" =>
             /\ all[f.name] = IF f.rule = "plain" THEN Zero ELSE <<>>
             /\ got[f.name] = IF f.rule = "plain" THEN Zero ELSE <<>>
        /\ f.name \in DOMAIN sent => f.name \in DOMAIN obj \/ f.rule # "optional"
    BY <1>2, <1>6, <2>1
  <2>9. ASSUME f.name \in DOMAIN read
        PROVE  read[f.name] = sent[f.name]
    <3> DEFINE v == d[f.name]
               o == all[f.name]
    <3>1. v = got[f.name]
      BY <1>2, <1>5, <2>9 DEF Faithful
    <3>2. read[f.name] = IF f.of = <<>> THEN v
                         ELSE IF f.rule = "repeated"
                         THEN [k \in DOMAIN v |-> Decode1(f.of, v[k])]
                         ELSE Decode1(f.of, v)
      BY <1>3, <2>2, <2>9
    <3>3. sent[f.name] = IF f.of = <<>> THEN o
                         ELSE IF f.rule = "repeated"
                         THEN [k \in DOMAIN o |-> Completed1(f.of, o[k])]
                         ELSE Completed1(f.of, o)
      BY <1>4, <2>2, <2>4, <2>9
    <3> HIDE DEF v, o
    <3>4. CASE f.name \notin DOMAIN obj
      <4>1. v = o /\ (f.rule = "plain" \/ (f.rule = "repeated" /\ v = <<>>))
        BY <2>3, <2>4, <2>8, <2>9, <3>1, <3>4 DEF o
      <4>2. DOMAIN <<>> = {}
        OBVIOUS
      <4>3. f.rule = "repeated" =>
               [k \in DOMAIN v |-> Decode1(f.of, v[k])] = [k \in DOMAIN o |-> Completed1(f.of, o[k])]
        BY <4>1, <4>2
      <4> QED
        BY <2>3, <3>2, <3>3, <4>1, <4>3
    <3>5. CASE f.name \in DOMAIN obj /\ f.of = <<>>
      BY <2>7, <2>8, <3>1, <3>2, <3>3, <3>5 DEF o
    <3>6. CASE f.name \in DOMAIN obj /\ f.of # <<>> /\ f.rule = "repeated"
      <4>1. v = [k \in DOMAIN o |-> Encode1(f.of, o[k])]
        BY <2>7, <2>8, <3>1, <3>6 DEF o
      <4>2. \A k \in DOMAIN o : Decode1(f.of, Encode1(f.of, o[k])) = Completed1(f.of, o[k])
        BY <2>5, <2>6, <2>8, <3>6, RoundTrip1 DEF o
      <4>3. DOMAIN v = DOMAIN o /\ \A k \in DOMAIN o : Decode1(f.of, v[k]) = Completed1(f.of, o[k])
        BY <4>1, <4>2
      <4>4. [k \in DOMAIN v |-> Decode1(f.of, v[k])] = [k \in DOMAIN o |-> Completed1(f.of, o[k])]
        BY <4>3
      <4> QED
        BY <3>2, <3>3, <3>6, <4>4
    <3>7. CASE f.name \in DOMAIN obj /\ f.of # <<>> /\ f.rule # "repeated"
      <4>1. v = Encode1(f.of, o)
        BY <2>7, <2>8, <3>1, <3>7 DEF o
      <4>2. Decode1(f.of, Encode1(f.of, o)) = Completed1(f.of, o)
        BY <2>5, <2>6, <2>8, <3>7, RoundTrip1 DEF o
      <4> QED
        BY <3>2, <3>3, <3>7, <4>1, <4>2
    <3> QED
      BY <3>4, <3>5, <3>6, <3>7
  <2> QED
    BY <2>4, <2>9
<1>8. DOMAIN read \subseteq FieldNames(reader)
  BY <1>2, <1>5 DEF Faithful
<1> QED
  BY <1>2, <1>7, <1>8 DEF Faithful, FieldNames, read, sent

\* What is decoded is what was encoded, with the defaults: one level of embedded messages.
LEMMA RoundTrip2 ==
  ASSUME NEW schema, Schema2(schema), NEW obj, Object2(schema, obj)
  PROVE  Decode2(schema, Encode2(schema, obj)) = Completed2(schema, obj)
<1> DEFINE x == WithEmbedded(schema, obj, Encode1)
<1>1. Good(schema) /\ Flat(schema, obj) /\ Flat(schema, x)
  BY Embeds2
<1>2. Carries(Encode2(schema, obj), schema, x)
  <2> HIDE DEF x
  <2>1. Carries(EncodeFields(schema, x), schema, x)
    BY <1>1, EncodeCarries
  <2> QED
    BY <2>1 DEF Encode2, x
<1>3. Reads(schema, schema)
  BY <1>1 DEF Reads
<1>4. Faithful(Decode2(schema, Encode2(schema, obj)), Completed2(schema, obj), schema)
  BY <1>2, <1>3, Decodes2
<1>5. /\ DOMAIN Completed2(schema, obj) \subseteq FieldNames(schema)
      /\ Completed2(schema, obj) = [n \in DOMAIN Completed2(schema, obj) |-> Completed2(schema, obj)[n]]
  <2>1. DOMAIN WithDefaults(schema, obj) \subseteq FieldNames(schema)
    BY <1>1, DefaultsFacts
  <2> QED
    BY <2>1 DEF Completed2, WithEmbedded
<1> QED
  BY <1>4, <1>5 DEF Faithful

-----------------------------------------------------------------------------
(* Messages that embed messages of 2 levels. *)

\* With its embedded messages encoded an object is flat, two levels of them.
LEMMA Embeds3 ==
  ASSUME NEW schema, Schema3(schema), NEW obj, Object3(schema, obj)
  PROVE  /\ Good(schema) /\ Flat(schema, obj)
         /\ Flat(schema, WithEmbedded(schema, obj, Encode2))
         /\ DOMAIN WithEmbedded(schema, obj, Encode2) = DOMAIN obj
         /\ \A i \in DOMAIN schema : schema[i].name \in DOMAIN obj =>
              WithEmbedded(schema, obj, Encode2)[schema[i].name] =
                IF schema[i].of = <<>> THEN obj[schema[i].name]
                ELSE IF schema[i].rule = "repeated"
                THEN [k \in DOMAIN obj[schema[i].name] |->
                        Encode2(schema[i].of, obj[schema[i].name][k])]
                ELSE Encode2(schema[i].of, obj[schema[i].name])
<1> DEFINE x == WithEmbedded(schema, obj, Encode2)
<1>1. Good(schema) /\ Flat(schema, obj)
  BY DEF Schema3, Object3
<1>2. DOMAIN x = DOMAIN obj /\ x = [n \in DOMAIN x |-> x[n]]
  <2>1. DOMAIN obj \cap FieldNames(schema) = DOMAIN obj
    BY <1>1 DEF Flat
  <2> QED
    BY <2>1 DEF WithEmbedded
<1>3. ASSUME NEW i \in DOMAIN schema, schema[i].name \in DOMAIN obj
      PROVE  x[schema[i].name] =
                IF schema[i].of = <<>> THEN obj[schema[i].name]
                ELSE IF schema[i].rule = "repeated"
                THEN [k \in DOMAIN obj[schema[i].name] |->
                        Encode2(schema[i].of, obj[schema[i].name][k])]
                ELSE Encode2(schema[i].of, obj[schema[i].name])
  <2>1. FieldOf(schema, schema[i].name) = schema[i]
    BY <1>1, FieldOfName
  <2>2. schema[i].name \in DOMAIN obj \cap FieldNames(schema)
    BY <1>3 DEF FieldNames
  <2> QED
    BY <2>1, <2>2 DEF WithEmbedded
<1> HIDE DEF x
<1>4. ASSUME NEW i \in DOMAIN schema, schema[i].rule = "repeated", schema[i].name \in DOMAIN x
      PROVE  IsArray(x[schema[i].name])
  <2> DEFINE a == obj[schema[i].name]
             b == x[schema[i].name]
  <2>1. IsArray(a)
    BY <1>1, <1>2, <1>4 DEF Flat
  <2>2. b = a \/ b = [k \in DOMAIN a |-> Encode2(schema[i].of, a[k])]
    BY <1>2, <1>3, <1>4
  <2> HIDE DEF a, b
  <2>3. Len(a) \in Nat /\ DOMAIN a = 1..Len(a)
    BY <2>1, ArrayFacts
  <2>4. CASE b = a
    BY <2>1, <2>4 DEF b
  <2>5. CASE b = [k \in DOMAIN a |-> Encode2(schema[i].of, a[k])]
    <3>1. b = [k \in 1..Len(a) |-> b[k]]
      BY <2>3, <2>5
    <3> QED
      BY <2>3, <3>1, ArrayIs DEF b
  <2> QED
    BY <2>2, <2>4, <2>5
<1>5. Flat(schema, x)
  BY <1>1, <1>2, <1>4 DEF Flat
<1> QED
  BY <1>1, <1>2, <1>3, <1>5 DEF x

\* Whoever reads a wire that carries obj has all of obj that it knows.
LEMMA Decodes3 ==
  ASSUME NEW schema, Schema3(schema), NEW obj, Object3(schema, obj),
         NEW reader, Reads(reader, schema),
         NEW wire, Carries(wire, schema, WithEmbedded(schema, obj, Encode2))
  PROVE  Faithful(Decode3(reader, wire), Completed3(schema, obj), reader)
<1> DEFINE x == WithEmbedded(schema, obj, Encode2)
           d == DecodeFields(reader, wire)
           got == WithDefaults(schema, x)
           all == WithDefaults(schema, obj)
           read == Decode3(reader, wire)
           sent == Completed3(schema, obj)
<1>1. /\ Good(schema) /\ Flat(schema, obj) /\ Flat(schema, x) /\ DOMAIN x = DOMAIN obj
      /\ \A i \in DOMAIN schema : schema[i].name \in DOMAIN obj =>
              x[schema[i].name] =
                IF schema[i].of = <<>> THEN obj[schema[i].name]
                ELSE IF schema[i].rule = "repeated"
                THEN [k \in DOMAIN obj[schema[i].name] |->
                        Encode2(schema[i].of, obj[schema[i].name][k])]
                ELSE Encode2(schema[i].of, obj[schema[i].name])
  BY Embeds3
<1>2. /\ DOMAIN read = DOMAIN d /\ read = [n \in DOMAIN read |-> read[n]]
      /\ DOMAIN sent = DOMAIN all
  <2>1. DOMAIN d \cap FieldNames(reader) = DOMAIN d
    BY DEF DecodeFields, FieldNames
  <2>2. DOMAIN all \cap FieldNames(schema) = DOMAIN all
    <3> HIDE DEF all, x
    <3>1. DOMAIN all \subseteq FieldNames(schema)
      BY <1>1, DefaultsFacts DEF all
    <3> QED
      BY <3>1
  <2> QED
    BY <2>1, <2>2 DEF Decode3, Completed3, WithEmbedded
<1>3. \A n \in DOMAIN read :
         read[n] = LET f == FieldOf(reader, n)
                   IN  IF f.of = <<>> THEN d[n]
                       ELSE IF f.rule = "repeated"
                       THEN [k \in DOMAIN d[n] |-> Decode2(f.of, d[n][k])]
                       ELSE Decode2(f.of, d[n])
  BY <1>2 DEF Decode3, WithEmbedded
<1>4. \A n \in DOMAIN sent :
         sent[n] = LET f == FieldOf(schema, n)
                   IN  IF f.of = <<>> THEN all[n]
                       ELSE IF f.rule = "repeated"
                       THEN [k \in DOMAIN all[n] |-> Completed2(f.of, all[n][k])]
                       ELSE Completed2(f.of, all[n])
  BY <1>2 DEF Completed3, WithEmbedded
<1>5. Faithful(d, got, reader)
  <2> HIDE DEF x
  <2> QED
    BY <1>1, DecodeKnown DEF x
<1> HIDE DEF x, d, read, sent
<1>6. /\ DOMAIN obj \subseteq DOMAIN all
      /\ \A n \in DOMAIN obj : all[n] = obj[n] /\ got[n] = x[n]
      /\ \A i \in DOMAIN schema :
           LET f == schema[i]
           IN  /\ f.name \in DOMAIN all <=> f.name \in DOMAIN obj \/ f.rule # "optional"
               /\ f.name \in DOMAIN got <=> f.name \in DOMAIN obj \/ f.rule # "optional"
               /\ f.name \notin DOMAIN obj /\ f.rule # "optional" =>
                    /\ all[f.name] = IF f.rule = "plain" THEN Zero ELSE <<>>
                    /\ got[f.name] = IF f.rule = "plain" THEN Zero ELSE <<>>
  BY <1>1, DefaultsFacts
<1> HIDE DEF got, all
<1>7. ASSUME NEW i \in DOMAIN reader
      PROVE  /\ reader[i].name \in DOMAIN read <=> reader[i].name \in DOMAIN sent
             /\ reader[i].name \in DOMAIN read => read[reader[i].name] = sent[reader[i].name]
  <2> DEFINE f == reader[i]
  <2>1. PICK j \in DOMAIN schema : f = schema[j]
    BY DEF Reads
  <2>2. FieldOf(reader, f.name) = f /\ FieldOf(schema, f.name) = f
    BY <1>1, ReadsFacts
  <2>3. Good(schema) /\ f.rule \in {"plain", "optional", "repeated"} /\ (f.rule = "plain" => f.of = <<>>)
    BY <1>1, <2>1 DEF Good
  <2>4. f.name \in DOMAIN read <=> f.name \in DOMAIN sent
    BY <1>2, <1>5, <1>6, <2>1 DEF Faithful, FieldNames
  <2>5. f.of # <<>> => Schema2(f.of)
    BY <2>1 DEF Schema3
  <2>6. /\ f.name \in DOMAIN obj /\ f.of # <<>> /\ f.rule = "repeated" =>
             \A k \in DOMAIN obj[f.name] : Object2(f.of, obj[f.name][k])
        /\ f.name \in DOMAIN obj /\ f.of # <<>> /\ f.rule # "repeated" =>
             Object2(f.of, obj[f.name])
    BY <2>1 DEF Object3
  <2>7. f.name \in DOMAIN obj =>
          x[f.name] = IF f.of = <<>> THEN obj[f.name]
                      ELSE IF f.rule = "repeated"
                      THEN [k \in DOMAIN obj[f.name] |-> Encode2(f.of, obj[f.name][k])]
                      ELSE Encode2(f.of, obj[f.name])
    BY <1>1, <2>1
  <2>8. /\ f.name \in DOMAIN obj => all[f.name] = obj[f.name] /\ got[f.name] = x[f.name]
        /\ f.name \notin DOMAIN obj /\ f.rule # "optional" =>
             /\ all[f.name] = IF f.rule = "plain" THEN Zero ELSE <<>>
             /\ got[f.name] = IF f.rule = "plain" THEN Zero ELSE <<>>
        /\ f.name \in DOMAIN sent => f.name \in DOMAIN obj \/ f.rule # "optional"
    BY <1>2, <1>6, <2>1
  <2>9. ASSUME f.name \in DOMAIN read
        PROVE  read[f.name] = sent[f.name]
    <3> DEFINE v == d[f.name]
               o == all[f.name]
    <3>1. v = got[f.name]
      BY <1>2, <1>5, <2>9 DEF Faithful
    <3>2. read[f.name] = IF f.of = <<>> THEN v
                         ELSE IF f.rule = "repeated"
                         THEN [k \in DOMAIN v |-> Decode2(f.of, v[k])]
                         ELSE Decode2(f.of, v)
      BY <1>3, <2>2, <2>9
    <3>3. sent[f.name] = IF f.of = <<>> THEN o
                         ELSE IF f.rule = "repeated"
                         THEN [k \in DOMAIN o |-> Completed2(f.of, o[k])]
                         ELSE Completed2(f.of, o)
      BY <1>4, <2>2, <2>4, <2>9
    <3> HIDE DEF v, o
    <3>4. CASE f.name \notin DOMAIN obj
      <4>1. v = o /\ (f.rule = "plain" \/ (f.rule = "repeated" /\ v = <<>>))
        BY <2>3, <2>4, <2>8, <2>9, <3>1, <3>4 DEF o
      <4>2. DOMAIN <<>> = {}
        OBVIOUS
      <4>3. f.rule = "repeated" =>
               [k \in DOMAIN v |-> Decode2(f.of, v[k])] = [k \in DOMAIN o |-> Completed2(f.of, o[k])]
        BY <4>1, <4>2
      <4> QED
        BY <2>3, <3>2, <3>3, <4>1, <4>3
    <3>5. CASE f.name \in DOMAIN obj /\ f.of = <<>>
      BY <2>7, <2>8, <3>1, <3>2, <3>3, <3>5 DEF o
    <3>6. CASE f.name \in DOMAIN obj /\ f.of # <<>> /\ f.rule = "repeated"
      <4>1. v = [k \in DOMAIN o |-> Encode2(f.of, o[k])]
        BY <2>7, <2>8, <3>1, <3>6 DEF o
      <4>2. \A k \in DOMAIN o : Decode2(f.of, Encode2(f.of, o[k])) = Completed2(f.of, o[k])
        BY <2>5, <2>6, <2>8, <3>6, RoundTrip2 DEF o
      <4>3. DOMAIN v = DOMAIN o /\ \A k \in DOMAIN o : Decode2(f.of, v[k]) = Completed2(f.of, o[k])
        BY <4>1, <4>2
      <4>4. [k \in DOMAIN v |-> Decode2(f.of, v[k])] = [k \in DOMAIN o |-> Completed2(f.of, o[k])]
        BY <4>3
      <4> QED
        BY <3>2, <3>3, <3>6, <4>4
    <3>7. CASE f.name \in DOMAIN obj /\ f.of # <<>> /\ f.rule # "repeated"
      <4>1. v = Encode2(f.of, o)
        BY <2>7, <2>8, <3>1, <3>7 DEF o
      <4>2. Decode2(f.of, Encode2(f.of, o)) = Completed2(f.of, o)
        BY <2>5, <2>6, <2>8, <3>7, RoundTrip2 DEF o
      <4> QED
        BY <3>2, <3>3, <3>7, <4>1, <4>2
    <3> QED
      BY <3>4, <3>5, <3>6, <3>7
  <2> QED
    BY <2>4, <2>9
<1>8. DOMAIN read \subseteq FieldNames(reader)
  BY <1>2, <1>5 DEF Faithful
<1> QED
  BY <1>2, <1>7, <1>8 DEF Faithful, FieldNames, read, sent

\* What is decoded is what was encoded, with the defaults: two levels of embedded messages.
LEMMA RoundTrip3 ==
  ASSUME NEW schema, Schema3(schema), NEW obj, Object3(schema, obj)
  PROVE  Decode3(schema, Encode3(schema, obj)) = Completed3(schema, obj)
<1> DEFINE x == WithEmbedded(schema, obj, Encode2)
<1>1. Good(schema) /\ Flat(schema, obj) /\ Flat(schema, x)
  BY Embeds3
<1>2. Carries(Encode3(schema, obj), schema, x)
  <2> HIDE DEF x
  <2>1. Carries(EncodeFields(schema, x), schema, x)
    BY <1>1, EncodeCarries
  <2> QED
    BY <2>1 DEF Encode3, x
<1>3. Reads(schema, schema)
  BY <1>1 DEF Reads
<1>4. Faithful(Decode3(schema, Encode3(schema, obj)), Completed3(schema, obj), schema)
  BY <1>2, <1>3, Decodes3
<1>5. /\ DOMAIN Completed3(schema, obj) \subseteq FieldNames(schema)
      /\ Completed3(schema, obj) = [n \in DOMAIN Completed3(schema, obj) |-> Completed3(schema, obj)[n]]
  <2>1. DOMAIN WithDefaults(schema, obj) \subseteq FieldNames(schema)
    BY <1>1, DefaultsFacts
  <2> QED
    BY <2>1 DEF Completed3, WithEmbedded
<1> QED
  BY <1>4, <1>5 DEF Faithful

-----------------------------------------------------------------------------
(* Messages that embed messages of 3 levels. *)

\* With its embedded messages encoded an object is flat, three levels of them.
LEMMA Embeds4 ==
  ASSUME NEW schema, Schema4(schema), NEW obj, Object4(schema, obj)
  PROVE  /\ Good(schema) /\ Flat(schema, obj)
         /\ Flat(schema, WithEmbedded(schema, obj, Encode3))
         /\ DOMAIN WithEmbedded(schema, obj, Encode3) = DOMAIN obj
         /\ \A i \in DOMAIN schema : schema[i].name \in DOMAIN obj =>
              WithEmbedded(schema, obj, Encode3)[schema[i].name] =
                IF schema[i].of = <<>> THEN obj[schema[i].name]
                ELSE IF schema[i].rule = "repeated"
                THEN [k \in DOMAIN obj[schema[i].name] |->
                        Encode3(schema[i].of, obj[schema[i].name][k])]
                ELSE Encode3(schema[i].of, obj[schema[i].name])
<1> DEFINE x == WithEmbedded(schema, obj, Encode3)
<1>1. Good(schema) /\ Flat(schema, obj)
  BY DEF Schema4, Object4
<1>2. DOMAIN x = DOMAIN obj /\ x = [n \in DOMAIN x |-> x[n]]
  <2>1. DOMAIN obj \cap FieldNames(schema) = DOMAIN obj
    BY <1>1 DEF Flat
  <2> QED
    BY <2>1 DEF WithEmbedded
<1>3. ASSUME NEW i \in DOMAIN schema, schema[i].name \in DOMAIN obj
      PROVE  x[schema[i].name] =
                IF schema[i].of = <<>> THEN obj[schema[i].name]
                ELSE IF schema[i].rule = "repeated"
                THEN [k \in DOMAIN obj[schema[i].name] |->
                        Encode3(schema[i].of, obj[schema[i].name][k])]
                ELSE Encode3(schema[i].of, obj[schema[i].name])
  <2>1. FieldOf(schema, schema[i].name) = schema[i]
    BY <1>1, FieldOfName
  <2>2. schema[i].name \in DOMAIN obj \cap FieldNames(schema)
    BY <1>3 DEF FieldNames
  <2> QED
    BY <2>1, <2>2 DEF WithEmbedded
<1> HIDE DEF x
<1>4. ASSUME NEW i \in DOMAIN schema, schema[i].rule = "repeated", schema[i].name \in DOMAIN x
      PROVE  IsArray(x[schema[i].name])
  <2> DEFINE a == obj[schema[i].name]
             b == x[schema[i].name]
  <2>1. IsArray(a)
    BY <1>1, <1>2, <1>4 DEF Flat
  <2>2. b = a \/ b = [k \in DOMAIN a |-> Encode3(schema[i].of, a[k])]
    BY <1>2, <1>3, <1>4
  <2> HIDE DEF a, b
  <2>3. Len(a) \in Nat /\ DOMAIN a = 1..Len(a)
    BY <2>1, ArrayFacts
  <2>4. CASE b = a
    BY <2>1, <2>4 DEF b
  <2>5. CASE b = [k \in DOMAIN a |-> Encode3(schema[i].of, a[k])]
    <3>1. b = [k \in 1..Len(a) |-> b[k]]
      BY <2>3, <2>5
    <3> QED
      BY <2>3, <3>1, ArrayIs DEF b
  <2> QED
    BY <2>2, <2>4, <2>5
<1>5. Flat(schema, x)
  BY <1>1, <1>2, <1>4 DEF Flat
<1> QED
  BY <1>1, <1>2, <1>3, <1>5 DEF x

\* Whoever reads a wire that carries obj has all of obj that it knows.
LEMMA Decodes4 ==
  ASSUME NEW schema, Schema4(schema), NEW obj, Object4(schema, obj),
         NEW reader, Reads(reader, schema),
         NEW wire, Carries(wire, schema, WithEmbedded(schema, obj, Encode3))
  PROVE  Faithful(Decode(reader, wire), Completed(schema, obj), reader)
<1> DEFINE x == WithEmbedded(schema, obj, Encode3)
           d == DecodeFields(reader, wire)
           got == WithDefaults(schema, x)
           all == WithDefaults(schema, obj)
           read == Decode(reader, wire)
           sent == Completed(schema, obj)
<1>1. /\ Good(schema) /\ Flat(schema, obj) /\ Flat(schema, x) /\ DOMAIN x = DOMAIN obj
      /\ \A i \in DOMAIN schema : schema[i].name \in DOMAIN obj =>
              x[schema[i].name] =
                IF schema[i].of = <<>> THEN obj[schema[i].name]
                ELSE IF schema[i].rule = "repeated"
                THEN [k \in DOMAIN obj[schema[i].name] |->
                        Encode3(schema[i].of, obj[schema[i].name][k])]
                ELSE Encode3(schema[i].of, obj[schema[i].name])
  BY Embeds4
<1>2. /\ DOMAIN read = DOMAIN d /\ read = [n \in DOMAIN read |-> read[n]]
      /\ DOMAIN sent = DOMAIN all
  <2>1. DOMAIN d \cap FieldNames(reader) = DOMAIN d
    BY DEF DecodeFields, FieldNames
  <2>2. DOMAIN all \cap FieldNames(schema) = DOMAIN all
    <3> HIDE DEF all, x
    <3>1. DOMAIN all \subseteq FieldNames(schema)
      BY <1>1, DefaultsFacts DEF all
    <3> QED
      BY <3>1
  <2> QED
    BY <2>1, <2>2 DEF Decode, Completed, WithEmbedded
<1>3. \A n \in DOMAIN read :
         read[n] = LET f == FieldOf(reader, n)
                   IN  IF f.of = <<>> THEN d[n]
                       ELSE IF f.rule = "repeated"
                       THEN [k \in DOMAIN d[n] |-> Decode3(f.of, d[n][k])]
                       ELSE Decode3(f.of, d[n])
  BY <1>2 DEF Decode, WithEmbedded
<1>4. \A n \in DOMAIN sent :
         sent[n] = LET f == FieldOf(schema, n)
                   IN  IF f.of = <<>> THEN all[n]
                       ELSE IF f.rule = "repeated"
                       THEN [k \in DOMAIN all[n] |-> Completed3(f.of, all[n][k])]
                       ELSE Completed3(f.of, all[n])
  BY <1>2 DEF Completed, WithEmbedded
<1>5. Faithful(d, got, reader)
  <2> HIDE DEF x
  <2> QED
    BY <1>1, DecodeKnown DEF x
<1> HIDE DEF x, d, read, sent
<1>6. /\ DOMAIN obj \subseteq DOMAIN all
      /\ \A n \in DOMAIN obj : all[n] = obj[n] /\ got[n] = x[n]
      /\ \A i \in DOMAIN schema :
           LET f == schema[i]
           IN  /\ f.name \in DOMAIN all <=> f.name \in DOMAIN obj \/ f.rule # "optional"
               /\ f.name \in DOMAIN got <=> f.name \in DOMAIN obj \/ f.rule # "optional"
               /\ f.name \notin DOMAIN obj /\ f.rule # "optional" =>
                    /\ all[f.name] = IF f.rule = "plain" THEN Zero ELSE <<>>
                    /\ got[f.name] = IF f.rule = "plain" THEN Zero ELSE <<>>
  BY <1>1, DefaultsFacts
<1> HIDE DEF got, all
<1>7. ASSUME NEW i \in DOMAIN reader
      PROVE  /\ reader[i].name \in DOMAIN read <=> reader[i].name \in DOMAIN sent
             /\ reader[i].name \in DOMAIN read => read[reader[i].name] = sent[reader[i].name]
  <2> DEFINE f == reader[i]
  <2>1. PICK j \in DOMAIN schema : f = schema[j]
    BY DEF Reads
  <2>2. FieldOf(reader, f.name) = f /\ FieldOf(schema, f.name) = f
    BY <1>1, ReadsFacts
  <2>3. Good(schema) /\ f.rule \in {"plain", "optional", "repeated"} /\ (f.rule = "plain" => f.of = <<>>)
    BY <1>1, <2>1 DEF Good
  <2>4. f.name \in DOMAIN read <=> f.name \in DOMAIN sent
    BY <1>2, <1>5, <1>6, <2>1 DEF Faithful, FieldNames
  <2>5. f.of # <<>> => Schema3(f.of)
    BY <2>1 DEF Schema4
  <2>6. /\ f.name \in DOMAIN obj /\ f.of # <<>> /\ f.rule = "repeated" =>
             \A k \in DOMAIN obj[f.name] : Object3(f.of, obj[f.name][k])
        /\ f.name \in DOMAIN obj /\ f.of # <<>> /\ f.rule # "repeated" =>
             Object3(f.of, obj[f.name])
    BY <2>1 DEF Object4
  <2>7. f.name \in DOMAIN obj =>
          x[f.name] = IF f.of = <<>> THEN obj[f.name]
                      ELSE IF f.rule = "repeated"
                      THEN [k \in DOMAIN obj[f.name] |-> Encode3(f.of, obj[f.name][k])]
                      ELSE Encode3(f.of, obj[f.name])
    BY <1>1, <2>1
  <2>8. /\ f.name \in DOMAIN obj => all[f.name] = obj[f.name] /\ got[f.name] = x[f.name]
        /\ f.name \notin DOMAIN obj /\ f.rule # "optional" =>
             /\ all[f.name] = IF f.rule = "plain" THEN Zero ELSE <<>>
             /\ got[f.name] = IF f.rule = "plain" THEN Zero ELSE <<>>
        /\ f.name \in DOMAIN sent => f.name \in DOMAIN obj \/ f.rule # "optional"
    BY <1>2, <1>6, <2>1
  <2>9. ASSUME f.name \in DOMAIN read
        PROVE  read[f.name] = sent[f.name]
    <3> DEFINE v == d[f.name]
               o == all[f.name]
    <3>1. v = got[f.name]
      BY <1>2, <1>5, <2>9 DEF Faithful
    <3>2. read[f.name] = IF f.of = <<>> THEN v
                         ELSE IF f.rule = "repeated"
                         THEN [k \in DOMAIN v |-> Decode3(f.of, v[k])]
                         ELSE Decode3(f.of, v)
      BY <1>3, <2>2, <2>9
    <3>3. sent[f.name] = IF f.of = <<>> THEN o
                         ELSE IF f.rule = "repeated"
                         THEN [k \in DOMAIN o |-> Completed3(f.of, o[k])]
                         ELSE Completed3(f.of, o)
      BY <1>4, <2>2, <2>4, <2>9
    <3> HIDE DEF v, o
    <3>4. CASE f.name \notin DOMAIN obj
      <4>1. v = o /\ (f.rule = "plain" \/ (f.rule = "repeated" /\ v = <<>>))
        BY <2>3, <2>4, <2>8, <2>9, <3>1, <3>4 DEF o
      <4>2. DOMAIN <<>> = {}
        OBVIOUS
      <4>3. f.rule = "repeated" =>
               [k \in DOMAIN v |-> Decode3(f.of, v[k])] = [k \in DOMAIN o |-> Completed3(f.of, o[k])]
        BY <4>1, <4>2
      <4> QED
        BY <2>3, <3>2, <3>3, <4>1, <4>3
    <3>5. CASE f.name \in DOMAIN obj /\ f.of = <<>>
      BY <2>7, <2>8, <3>1, <3>2, <3>3, <3>5 DEF o
    <3>6. CASE f.name \in DOMAIN obj /\ f.of # <<>> /\ f.rule = "repeated"
      <4>1. v = [k \in DOMAIN o |-> Encode3(f.of, o[k])]
        BY <2>7, <2>8, <3>1, <3>6 DEF o
      <4>2. \A k \in DOMAIN o : Decode3(f.of, Encode3(f.of, o[k])) = Completed3(f.of, o[k])
        BY <2>5, <2>6, <2>8, <3>6, RoundTrip3 DEF o
      <4>3. DOMAIN v = DOMAIN o /\ \A k \in DOMAIN o : Decode3(f.of, v[k]) = Completed3(f.of, o[k])
        BY <4>1, <4>2
      <4>4. [k \in DOMAIN v |-> Decode3(f.of, v[k])] = [k \in DOMAIN o |-> Completed3(f.of, o[k])]
        BY <4>3
      <4> QED
        BY <3>2, <3>3, <3>6, <4>4
    <3>7. CASE f.name \in DOMAIN obj /\ f.of # <<>> /\ f.rule # "repeated"
      <4>1. v = Encode3(f.of, o)
        BY <2>7, <2>8, <3>1, <3>7 DEF o
      <4>2. Decode3(f.of, Encode3(f.of, o)) = Completed3(f.of, o)
        BY <2>5, <2>6, <2>8, <3>7, RoundTrip3 DEF o
      <4> QED
        BY <3>2, <3>3, <3>7, <4>1, <4>2
    <3> QED
      BY <3>4, <3>5, <3>6, <3>7
  <2> QED
    BY <2>4, <2>9
<1>8. DOMAIN read \subseteq FieldNames(reader)
  BY <1>2, <1>5 DEF Faithful
<1> QED
  BY <1>2, <1>7, <1>8 DEF Faithful, FieldNames, read, sent

\* What is decoded is what was encoded, with the defaults: three levels of embedded
\* messages, the most of any schema.
LEMMA RoundTrip4 ==
  ASSUME NEW schema, Schema4(schema), NEW obj, Object4(schema, obj)
  PROVE  Decode(schema, Encode(schema, obj)) = Completed(schema, obj)
<1> DEFINE x == WithEmbedded(schema, obj, Encode3)
<1>1. Good(schema) /\ Flat(schema, obj) /\ Flat(schema, x)
  BY Embeds4
<1>2. Carries(Encode(schema, obj), schema, x)
  <2> HIDE DEF x
  <2>1. Carries(EncodeFields(schema, x), schema, x)
    BY <1>1, EncodeCarries
  <2> QED
    BY <2>1 DEF Encode, x
<1>3. Reads(schema, schema)
  BY <1>1 DEF Reads
<1>4. Faithful(Decode(schema, Encode(schema, obj)), Completed(schema, obj), schema)
  BY <1>2, <1>3, Decodes4
<1>5. /\ DOMAIN Completed(schema, obj) \subseteq FieldNames(schema)
      /\ Completed(schema, obj) = [n \in DOMAIN Completed(schema, obj) |-> Completed(schema, obj)[n]]
  <2>1. DOMAIN WithDefaults(schema, obj) \subseteq FieldNames(schema)
    BY <1>1, DefaultsFacts
  <2> QED
    BY <2>1 DEF Completed, WithEmbedded
<1> QED
  BY <1>4, <1>5 DEF Faithful

=============================================================================
