------------------------- MODULE QueryOnConnectProofs -------------------------
(***************************************************************************)
(* What QueryOnConnect does not miss, for any store nodes, messages, limits *)
(* and numbers of connections.                                             *)
(***************************************************************************)
EXTENDS QueryOnConnect, FiniteSetTheorems, SequenceTheorems, WellFoundedInduction, TLAPS

-----------------------------------------------------------------------------
(* The inductive invariant. *)

QueryRecord == [timeEnd : Nat, ranges : Seq(Nat \X Nat), cursor : Nat,
                abortable : BOOLEAN, aborted : BOOLEAN, left : SUBSET Int]

TypeInv ==
    /\ now \in Nat /\ lastSuccessfulQuery \in Nat /\ asked \in Nat
    /\ archive \in Seq([time : Nat, causal : BOOLEAN])
    /\ queries \in [Peers -> QueryRecord \cup {None}]
    /\ dispatched \in SUBSET Nat /\ unasked \in SUBSET Int

\* The store nodes have the messages in the order of their times.
ArchiveInv ==
    /\ \A i \in DOMAIN archive : archive[i].time =< now
    /\ \A i, j \in DOMAIN archive : i < j => archive[i].time =< archive[j].time

\* What came before the last query that succeeded was dispatched or left out.
LastInv ==
    /\ asked =< lastSuccessfulQuery /\ lastSuccessfulQuery =< now
    /\ \A i \in DOMAIN archive : archive[i].time < lastSuccessfulQuery =>
          archive[i].time \in unasked \/ i \in dispatched

\* The ranges follow one another.
InOrder(ranges) ==
    /\ \A k \in DOMAIN ranges : ranges[k][1] =< ranges[k][2]
    /\ \A j, k \in DOMAIN ranges : j < k => ranges[j][2] =< ranges[k][1]

Within(t, range) == t \in range[1]..(range[2] - 1)

\* The query q has still to ask for message i.
Pending(q, i) ==
    \/ Within(archive[i].time, Head(q.ranges)) /\ i > q.cursor
    \/ \E k \in 2..Len(q.ranges) : Within(archive[i].time, q.ranges[k])

\* A query that runs misses nothing of what came before its end.
Asks(q) ==
    /\ q.ranges # <<>> /\ InOrder(q.ranges)
    /\ q.timeEnd =< now
    /\ \A i \in DOMAIN archive : archive[i].time < q.timeEnd =>
          archive[i].time \in unasked \cup q.left \/ i \in dispatched \/ Pending(q, i)

QueriesInv == \A p \in Peers : queries[p] # None => Asks(queries[p])

IInv == TypeInv /\ ArchiveInv /\ LastInv /\ QueriesInv

-----------------------------------------------------------------------------
(* Pages. *)

\* Among some numbers one is the least.
LEMMA LeastExists ==
  ASSUME NEW S \in SUBSET Nat, S # {}
  PROVE  \E m \in S : \A x \in S : m =< x
<1>1. PICK m \in S : \A x \in S : ~ (<<x, m>> \in OpToRel(<, Nat))
  BY NatLessThanWellFounded, WFMin
<1>2. \A x \in S : ~ (x < m)
  BY <1>1 DEF OpToRel
<1> QED
  BY <1>2

\* Among some numbers up to n one is the greatest.
LEMMA GreatestExists ==
  ASSUME NEW n \in Nat, NEW S \in SUBSET (0..n), S # {}
  PROVE  /\ Max(S) \in S
         /\ \A x \in S : x =< Max(S)
<1> DEFINE Rest == {n - x : x \in S}
<1>1. Rest \in SUBSET Nat /\ Rest # {}
  <2>1. \A x \in S : x \in Int /\ x =< n /\ n - x \in Nat
    OBVIOUS
  <2> QED
    BY <2>1
<1>2. PICK r \in Rest : \A x \in Rest : r =< x
  BY <1>1, LeastExists
<1>3. PICK m \in S : r = n - m
  BY <1>2
<1>4. \A x \in S : x =< m
  BY <1>2, <1>3
<1> QED
  BY <1>3, <1>4 DEF Max

\* The messages that fit a range after a cursor; a page is the first of them.
Fits(range, cursor) ==
    {i \in DOMAIN archive : i > cursor /\ Within(archive[i].time, range)}

\* A page holds what is before any of its messages, and is empty only when no
\* message fits.
LEMMA PageIsFirst ==
  ASSUME TypeInv, NEW range \in Nat \X Nat, NEW cursor \in Nat,
         NEW page, page = Page(archive, range, cursor)
  PROVE  /\ page \subseteq Fits(range, cursor)
         /\ page = {} => Fits(range, cursor) = {}
         /\ \A i \in Fits(range, cursor), j \in page : i =< j => i \in page
<1> DEFINE fits == Fits(range, cursor)
           Before(i) == {j \in fits : j < i}
<1>1. DOMAIN archive = 1..Len(archive) /\ Len(archive) \in Nat
  BY DEF TypeInv
<1>2. fits \subseteq 1..Len(archive) /\ IsFiniteSet(fits)
  <2>1. fits \subseteq 1..Len(archive)
    BY <1>1 DEF Fits
  <2> HIDE DEF fits
  <2>2. IsFiniteSet(1..Len(archive))
    BY <1>1, FS_Interval
  <2>3. IsFiniteSet(fits)
    BY <2>1, <2>2, FS_Subset
  <2> QED
    BY <2>1, <2>3
<1>3. page = {i \in fits : Cardinality(Before(i)) < PageSize}
  BY DEF Page, Fits, Within
<1> HIDE DEF fits
<1>0. \A x \in fits : x \in Nat
  BY <1>1, <1>2
<1>4. \A i : IsFiniteSet(Before(i)) /\ Cardinality(Before(i)) \in Nat
  BY <1>2, FS_Subset, FS_CardinalityType
<1>5. ASSUME fits # {}
      PROVE  page # {}
  <2>1. PICK m \in fits : \A x \in fits : m =< x
    BY <1>0, <1>5, LeastExists
  <2>2. Before(m) = {}
    BY <1>0, <2>1
  <2>3. Cardinality(Before(m)) = 0
    BY <2>2, FS_EmptySet
  <2> QED
    BY <1>3, <2>1, <2>3, LimitsAssumption
<1>6. ASSUME NEW i \in fits, NEW j \in page, i =< j
      PROVE  i \in page
  <2>1. Before(i) \subseteq Before(j)
    <3>1. i \in Nat /\ j \in Nat /\ j \in fits
      BY <1>0, <1>3, <1>6
    <3>2. \A x \in fits : x < i => x < j
      BY <3>1, <1>0, <1>6
    <3> QED
      BY <3>2
  <2>2. Cardinality(Before(i)) =< Cardinality(Before(j))
    BY <2>1, <1>4, FS_Subset
  <2>3. Cardinality(Before(j)) < PageSize
    BY <1>3, <1>6
  <2>4. Cardinality(Before(i)) \in Nat /\ Cardinality(Before(j)) \in Nat
    BY <1>4
  <2> HIDE DEF Before
  <2>5. Cardinality(Before(i)) < PageSize
    BY <2>2, <2>3, <2>4, LimitsAssumption
  <2> QED
    BY <1>3, <1>6, <2>5
<1> QED
  BY <1>3, <1>5, <1>6 DEF fits

\* The cursor after a page: it is one of the page, and what fits and is not on the
\* page is behind it.
LEMMA CursorIsLast ==
  ASSUME TypeInv, NEW range \in Nat \X Nat, NEW cursor \in Nat,
         NEW page, page = Page(archive, range, cursor), page # {}
  PROVE  /\ NextCursor(page) \in page
         /\ \A i \in Fits(range, cursor) \ page : i > NextCursor(page)
<1>1. DOMAIN archive = 1..Len(archive) /\ Len(archive) \in Nat
  BY DEF TypeInv
<1>2. page \subseteq Fits(range, cursor) /\ Fits(range, cursor) \subseteq 0..Len(archive)
  BY <1>1, PageIsFirst DEF Fits
<1>3. Max(page) \in page
  BY <1>1, <1>2, GreatestExists
<1>4. \A i \in Fits(range, cursor), j \in page : i =< j => i \in page
  BY PageIsFirst
<1> QED
  BY <1>2, <1>3, <1>4 DEF NextCursor

-----------------------------------------------------------------------------
(* The ranges of a query. *)

\* The sub-ranges of a query are ranges of time that follow one another.
LEMMA RangesInOrder ==
  ASSUME NEW start \in Nat, NEW end \in Nat, start =< end,
         NEW ranges, ranges = buildQueryParams(start, end)
  PROVE  ranges \in Seq(Nat \X Nat) /\ ranges # <<>> /\ InOrder(ranges)
<1> DEFINE M == MaxTimeLimit
           parts == IF end - start =< M THEN 0 ELSE (end - start - 1) \div M
<1>1. M \in Nat /\ M > 0
  BY LimitsAssumption
<1>2. parts \in Nat
  BY <1>1
<1>3. CASE parts = 0
  <2>1. ranges = << <<start, end>> >>
    BY <1>3 DEF buildQueryParams
  <2> QED
    BY <2>1 DEF InOrder
<1>4. CASE parts # 0
  <2>1. ranges = [i \in 1..parts |-> <<start + (i - 1) * M, start + i * M>>]
    BY <1>4 DEF buildQueryParams
  <2> HIDE DEF parts, M
  <2>2. \A i \in 1..parts : i * M \in Nat /\ (i - 1) * M \in Nat /\ (i - 1) * M =< i * M
    BY <1>1, <1>2
  <2>3. \A j, k \in 1..parts : j < k => j * M =< (k - 1) * M
    <3> SUFFICES ASSUME NEW j \in 1..parts, NEW k \in 1..parts, j < k
                 PROVE  j * M =< (k - 1) * M
      OBVIOUS
    <3>1. PICK d \in Nat : k - 1 = j + d
      BY <1>2
    <3>2. (j + d) * M = j * M + d * M /\ d * M \in Nat
      BY <1>1, <1>2
    <3> QED
      BY <1>1, <1>2, <3>1, <3>2
  <2>4. \A i \in 1..parts : ranges[i] = <<start + (i - 1) * M, start + i * M>>
    BY <2>1
  <2>5. ranges \in Seq(Nat \X Nat) /\ Len(ranges) = parts /\ DOMAIN ranges = 1..parts
    <3>1. \A i \in 1..parts : <<start + (i - 1) * M, start + i * M>> \in Nat \X Nat
      BY <2>2
    <3> QED
      BY <1>2, <2>1, <3>1
  <2>6. ranges # <<>>
    BY <2>5, <1>2, <1>4
  <2>7. InOrder(ranges)
    <3>1. ASSUME NEW k \in 1..parts
          PROVE  ranges[k][1] =< ranges[k][2]
      BY <2>2, <2>4
    <3>2. ASSUME NEW j \in 1..parts, NEW k \in 1..parts, j < k
          PROVE  ranges[j][2] =< ranges[k][1]
      <4>1. j * M =< (k - 1) * M /\ j * M \in Nat /\ (k - 1) * M \in Nat
        BY <2>2, <2>3, <3>2
      <4>2. ranges[j][2] = start + j * M /\ ranges[k][1] = start + (k - 1) * M
        BY <2>4
      <4> QED
        BY <4>1, <4>2
    <3> QED
      BY <2>5, <3>1, <3>2 DEF InOrder
  <2> QED
    BY <2>5, <2>6, <2>7
<1> QED
  BY <1>3, <1>4

-----------------------------------------------------------------------------
(* The steps. *)

\* A query stays asked when time goes on and more is dispatched or left out.
LEMMA StillAsks ==
  ASSUME TypeInv, TypeInv', NEW q \in QueryRecord, Asks(q),
         archive' = archive, now' >= now,
         unasked \subseteq unasked', dispatched \subseteq dispatched'
  PROVE  Asks(q)'
<1>1. q.timeEnd =< now'
  BY DEF Asks, TypeInv, QueryRecord
<1>2. \A i \in DOMAIN archive : Pending(q, i)' <=> Pending(q, i)
  BY DEF Pending
<1> QED
  BY <1>1, <1>2 DEF Asks

\* The other queries, when that to p ends or goes on.
LEMMA OthersAsk ==
  ASSUME TypeInv, TypeInv', QueriesInv, NEW p \in Peers,
         \A r \in Peers \ {p} : queries'[r] = queries[r],
         queries'[p] # None => Asks(queries[p])',
         archive' = archive, now' >= now,
         unasked \subseteq unasked', dispatched \subseteq dispatched'
  PROVE  QueriesInv'
<1> SUFFICES ASSUME NEW r \in Peers, queries'[r] # None, r # p
             PROVE  Asks(queries[r])'
  BY DEF QueriesInv
<1>1. PICK q \in QueryRecord : q = queries[r] /\ q = queries'[r]
  BY DEF TypeInv
<1>2. Asks(q)'
  BY <1>1, StillAsks DEF QueriesInv
<1> QED
  BY <1>1, <1>2

\* The times of the archive are numbers.
LEMMA TimesAreNumbers ==
  ASSUME TypeInv
  PROVE  \A i \in DOMAIN archive : archive[i].time \in Nat /\ i \in Nat /\ i > 0
<1>1. \A i \in DOMAIN archive : archive[i] \in [time : Nat, causal : BOOLEAN]
  <2>1. archive \in Seq([time : Nat, causal : BOOLEAN])
    BY DEF TypeInv
  <2>2. DOMAIN archive = 1..Len(archive)
    BY <2>1
  <2> QED
    BY <2>1, <2>2, ElementOfSeq
<1> QED
  BY <1>1 DEF TypeInv

\* A query that has asked for all of its time, but for what it leaves out, and
\* succeeds.
LEMMA SucceedKeeps ==
  ASSUME IInv, NEW p \in Peers, NEW q \in QueryRecord, NEW left \in SUBSET Int,
         q.timeEnd =< now,
         \A i \in DOMAIN archive : archive[i].time < q.timeEnd =>
            archive[i].time \in unasked \cup left \/ i \in dispatched',
         Succeed(p, q, left), archive' = archive, now' = now,
         dispatched \subseteq dispatched', dispatched' \in SUBSET Nat
  PROVE  IInv'
<1> USE DEF IInv
<1>1. /\ queries' = [queries EXCEPT ![p] = None]
      /\ lastSuccessfulQuery' = now
      /\ asked' = (IF q.timeEnd > asked THEN q.timeEnd ELSE asked)
      /\ unasked' = unasked \cup left \cup (q.timeEnd..(now - 1))
  BY DEF Succeed, End
<1>2. q.timeEnd \in Nat
  BY DEF QueryRecord
<1>3. TypeInv'
  <2>1. queries' \in [Peers -> QueryRecord \cup {None}]
    BY <1>1 DEF TypeInv
  <2> QED
    BY <1>1, <1>2, <2>1 DEF TypeInv
<1>4. ArchiveInv'
  BY DEF ArchiveInv
<1>5. LastInv'
  <2>1. asked' =< lastSuccessfulQuery' /\ lastSuccessfulQuery' =< now'
    BY <1>1, <1>2 DEF LastInv, TypeInv
  <2>2. ASSUME NEW i \in DOMAIN archive, archive[i].time < now,
               archive[i].time \notin unasked'
        PROVE  i \in dispatched'
    <3>1. archive[i].time \in Nat /\ now \in Nat
      BY TimesAreNumbers DEF TypeInv
    <3>2. archive[i].time < q.timeEnd
      BY <1>1, <1>2, <2>2, <3>1
    <3> QED
      BY <1>1, <2>2, <3>2
  <2> QED
    BY <1>1, <2>1, <2>2 DEF LastInv
<1>6. QueriesInv'
  <2>1. queries'[p] = None /\ \A r \in Peers \ {p} : queries'[r] = queries[r]
    BY <1>1 DEF TypeInv
  <2>2. unasked \subseteq unasked' /\ now' >= now
    BY <1>1 DEF TypeInv
  <2> QED
    BY <1>3, <2>1, <2>2, OthersAsk
<1> QED
  BY <1>3, <1>4, <1>5, <1>6

\* A query that is through with its range goes on with the next, or succeeds.
LEMMA NextRangeKeeps ==
  ASSUME IInv, NEW p \in Peers, NEW q \in QueryRecord,
         q.ranges # <<>>, InOrder(q.ranges), q.timeEnd =< now,
         \A i \in DOMAIN archive : archive[i].time < q.timeEnd =>
            \/ archive[i].time \in unasked \cup q.left \/ i \in dispatched
            \/ \E k \in 2..Len(q.ranges) : Within(archive[i].time, q.ranges[k]),
         NextRange(p, q), archive' = archive, now' = now, dispatched' = dispatched
  PROVE  IInv'
<1> USE DEF IInv
<1>1. q.ranges \in Seq(Nat \X Nat) /\ Len(q.ranges) \in Nat /\ Len(q.ranges) > 0
      /\ q.left \in SUBSET Int
  BY DEF QueryRecord
<1>2. CASE Len(q.ranges) = 1
  <2>1. Succeed(p, q, q.left)
    BY <1>2 DEF NextRange
  <2>2. \A i \in DOMAIN archive : archive[i].time < q.timeEnd =>
            archive[i].time \in unasked \cup q.left \/ i \in dispatched'
    BY <1>2
  <2> QED
    BY <1>1, <2>1, <2>2, SucceedKeeps DEF TypeInv
<1>3. CASE Len(q.ranges) # 1
  <2>0. PICK rs \in Seq(Nat \X Nat) : rs = q.ranges /\ Len(rs) > 1
    <3>1. q.ranges \in Seq(Nat \X Nat)
      BY <1>1
    <3>2. Len(q.ranges) > 1
      <4>1. \A n \in Nat : n > 0 /\ n # 1 => n > 1
        OBVIOUS
      <4> QED
        BY <1>1, <1>3, <4>1, Zenon
    <3> QED
      BY <3>1, <3>2, Zenon
  <2>1. PICK rest : rest = Tail(rs)
    OBVIOUS
  <2>2. /\ rest \in Seq(Nat \X Nat) /\ Len(rest) = Len(q.ranges) - 1 /\ rest # <<>>
        /\ \A k \in 1..Len(rest) : rest[k] = q.ranges[k + 1]
    <3>1. /\ rest \in Seq(Nat \X Nat) /\ Len(rest) = Len(rs) - 1
          /\ \A k \in 1..Len(rest) : rest[k] = rs[k + 1]
      BY <2>0, <2>1
    <3>2. rest # <<>>
      BY <2>0, <3>1
    <3> QED
      BY <2>0, <3>1, <3>2
  <2>3. PICK next : next = [q EXCEPT !.ranges = rest, !.cursor = 0]
    OBVIOUS
  <2>4. next \in QueryRecord /\ next.ranges = rest /\ next.cursor = 0
        /\ next.left = q.left /\ next.timeEnd = q.timeEnd
    BY <2>2, <2>3 DEF QueryRecord
  <2>5. /\ queries' = [queries EXCEPT ![p] = next]
        /\ UNCHANGED <<lastSuccessfulQuery, asked, unasked>>
    BY <1>3, <2>0, <2>1, <2>3 DEF NextRange
  <2>6. TypeInv'
    <3>1. queries' \in [Peers -> QueryRecord \cup {None}]
      BY <2>4, <2>5 DEF TypeInv
    <3> QED
      BY <2>5, <3>1 DEF TypeInv
  <2>7. ArchiveInv' /\ LastInv'
    BY <2>5 DEF ArchiveInv, LastInv
  <2>8. Asks(next)'
    <3>1. InOrder(rest)
      <4>1. DOMAIN rest = 1..Len(rest) /\ DOMAIN q.ranges = 1..Len(q.ranges)
        BY <1>1, <2>2
      <4>2. \A k \in 1..Len(rest) : k + 1 \in DOMAIN q.ranges
        BY <1>1, <2>2, <4>1
      <4>3. \A k \in DOMAIN rest : rest[k][1] =< rest[k][2]
        BY <2>2, <4>1, <4>2 DEF InOrder
      <4>4. ASSUME NEW j \in DOMAIN rest, NEW k \in DOMAIN rest, j < k
            PROVE  rest[j][2] =< rest[k][1]
        <5>1. j + 1 < k + 1 /\ j + 1 \in DOMAIN q.ranges /\ k + 1 \in DOMAIN q.ranges
          BY <4>1, <4>2, <4>4
        <5> QED
          BY <2>2, <4>1, <5>1 DEF InOrder
      <4> QED
        BY <4>3, <4>4 DEF InOrder
    <3>2. ASSUME NEW i \in DOMAIN archive, NEW k \in 2..Len(q.ranges),
                 Within(archive[i].time, q.ranges[k])
          PROVE  Pending(next, i)'
      <4>1. k - 1 \in 1..Len(rest) /\ rest[k - 1] = q.ranges[k]
        BY <1>1, <2>2
      <4>2. CASE k = 2
        <5>1. Head(rest) = q.ranges[k]
          BY <2>2, <4>1, <4>2
        <5>2. i \in Nat /\ i > 0
          BY TimesAreNumbers
        <5> QED
          BY <2>4, <3>2, <5>1, <5>2 DEF Pending
      <4>3. CASE k # 2
        <5>1. k - 1 \in 2..Len(rest)
          BY <1>1, <2>2, <4>1, <4>3
        <5> QED
          BY <2>4, <3>2, <4>1, <5>1 DEF Pending
      <4> QED
        BY <4>2, <4>3
    <3> QED
      BY <2>2, <2>4, <2>5, <3>1, <3>2 DEF Asks
  <2>9. QueriesInv'
    <3>1. queries'[p] = next /\ \A r \in Peers \ {p} : queries'[r] = queries[r]
      BY <2>5 DEF TypeInv
    <3>2. now' >= now
      BY DEF TypeInv
    <3>3. Asks(queries[p])'
      BY <2>8, <3>1
    <3> QED
      BY <2>5, <2>6, <3>1, <3>2, <3>3, OthersAsk
  <2> QED
    BY <2>6, <2>7, <2>9
<1> QED
  BY <1>2, <1>3

\* The query of a new connection asks for what came since the last query that
\* succeeded, but for what it leaves out.
LEMMA NewQueryAsks ==
  ASSUME IInv, NEW q, q = Query
  PROVE  q \in QueryRecord /\ Asks(q)
<1> USE DEF IInv
<1>1. PICK start \in Nat :
         /\ start =< now
         /\ q = [timeEnd |-> now, ranges |-> buildQueryParams(start, now), cursor |-> 0,
                 abortable |-> phase = "started", aborted |-> FALSE,
                 left |-> (lastSuccessfulQuery..(now - 1))
                            \ Covered(buildQueryParams(start, now))]
  <2> DEFINE past  == now - lastSuccessfulQuery
             range == IF past < MaxTimeRange THEN past ELSE MaxTimeRange
  <2>1. now - range \in Nat /\ now - range =< now
    BY RangeAssumption DEF TypeInv, LastInv
  <2>2. calculateTimeRange.timeStart = now - range /\ calculateTimeRange.timeEnd = now
    BY DEF calculateTimeRange
  <2> HIDE DEF range
  <2> QED
    BY <2>1, <2>2 DEF Query
<1>0. PICK ranges : ranges = buildQueryParams(start, now)
  OBVIOUS
<1>2. ranges \in Seq(Nat \X Nat) /\ ranges # <<>> /\ InOrder(ranges)
  BY <1>1, <1>0, RangesInOrder DEF TypeInv
<1>3. PICK left \in SUBSET Int : left = (lastSuccessfulQuery..(now - 1)) \ Covered(ranges)
  <2>1. lastSuccessfulQuery..(now - 1) \subseteq Int
    BY DEF TypeInv
  <2> QED
    BY <2>1, Zenon
<1>4. PICK b \in BOOLEAN : b = (phase = "started")
  OBVIOUS
<1>5. q = [timeEnd |-> now, ranges |-> ranges, cursor |-> 0,
           abortable |-> b, aborted |-> FALSE, left |-> left]
  BY <1>1, <1>0, <1>3, <1>4
<1>6. q \in QueryRecord
  <2>1. now \in Nat
    BY DEF TypeInv
  <2> QED
    BY <1>2, <1>5, <2>1 DEF QueryRecord
<1>7. ASSUME NEW i \in DOMAIN archive, archive[i].time < now,
             archive[i].time \notin unasked \cup left, i \notin dispatched
      PROVE  Pending(q, i)
  <2>1. archive[i].time \in Nat /\ i \in Nat /\ i > 0
    BY TimesAreNumbers
  <2>2. archive[i].time >= lastSuccessfulQuery
    BY <1>7, <2>1 DEF LastInv, TypeInv
  <2>3. archive[i].time \in lastSuccessfulQuery..(now - 1)
    BY <1>7, <2>1, <2>2 DEF TypeInv
  <2>4. archive[i].time \in Covered(ranges)
    BY <1>3, <1>7, <2>3
  <2>5. PICK k \in DOMAIN ranges : Within(archive[i].time, ranges[k])
    BY <2>4 DEF Covered, Within
  <2>6. DOMAIN ranges = 1..Len(ranges) /\ Len(ranges) \in Nat
    BY <1>2
  <2>7. CASE k = 1
    <3>1. Head(ranges) = ranges[k]
      BY <1>2, <2>7
    <3> QED
      BY <1>5, <2>1, <2>5, <3>1 DEF Pending
  <2>8. CASE k # 1
    <3>1. k \in 2..Len(ranges)
      BY <2>6, <2>8
    <3> QED
      BY <1>5, <2>5, <3>1 DEF Pending
  <2> QED
    BY <2>7, <2>8
<1>8. Asks(q)
  <2>1. q.timeEnd = now /\ q.ranges = ranges /\ q.left = left
    BY <1>5
  <2>2. now =< now
    BY DEF TypeInv
  <2> QED
    BY <1>2, <1>7, <2>1, <2>2 DEF Asks
<1> QED
  BY <1>6, <1>8

LEMMA ConnectKeeps ==
  ASSUME IInv, NEW p \in Peers, Connect(p)
  PROVE  IInv'
<1> USE DEF IInv
<1>1. UNCHANGED <<now, archive, lastSuccessfulQuery, dispatched, asked, unasked>>
  BY DEF Connect
<1>2. ArchiveInv' /\ LastInv'
  BY <1>1 DEF ArchiveInv, LastInv
<1>3. CASE queries' = queries
  <2>1. TypeInv'
    BY <1>1, <1>3 DEF TypeInv
  <2> QED
    BY <1>1, <1>2, <1>3, <2>1 DEF QueriesInv, Asks, Pending
<1>4. CASE queries' = [queries EXCEPT ![p] = Query]
  <2>1. PICK q : q = Query
    OBVIOUS
  <2>2. q \in QueryRecord /\ Asks(q)
    BY <2>1, NewQueryAsks
  <2>3. TypeInv'
    <3>1. queries' \in [Peers -> QueryRecord \cup {None}]
      BY <1>4, <2>1, <2>2 DEF TypeInv
    <3> QED
      BY <1>1, <3>1 DEF TypeInv
  <2>4. now' >= now
    BY <1>1 DEF TypeInv
  <2>5. Asks(q)'
    BY <1>1, <2>2, <2>3, <2>4, StillAsks
  <2>6. queries'[p] = q /\ \A r \in Peers \ {p} : queries'[r] = queries[r]
    BY <1>4, <2>1 DEF TypeInv
  <2>7. Asks(queries[p])'
    BY <2>5, <2>6
  <2> QED
    BY <1>1, <1>2, <2>3, <2>4, <2>6, <2>7, OthersAsk
<1> QED
  BY <1>3, <1>4 DEF Connect

\* A range is of the times from its first to before its last.
LEMMA WithinBounds ==
  ASSUME NEW t \in Nat, NEW range, range[1] \in Nat, range[2] \in Nat
  PROVE  Within(t, range) <=> range[1] =< t /\ t < range[2]
  BY DEF Within

\* A query whose answer is a page dispatches it, and goes on behind it or, after a
\* message with a causal history, ends.
LEMMA AnswerKeeps ==
  ASSUME IInv, NEW p \in Peers, Answer(p)
  PROVE  IInv'
<1> USE DEF IInv
<1>1. PICK q \in QueryRecord : q = queries[p] /\ Asks(q)
  BY DEF Answer, QueryStep, TypeInv, QueriesInv
<1>2. PICK rs \in Seq(Nat \X Nat) : rs = q.ranges /\ rs # <<>>
  <2>1. q.ranges \in Seq(Nat \X Nat) /\ q.ranges # <<>>
    BY <1>1 DEF Asks, QueryRecord
  <2> QED
    BY <2>1, Zenon
<1>3. PICK head \in Nat \X Nat : head = Head(rs) /\ head = rs[1]
  BY <1>2
<1>4. PICK cursor \in Nat : cursor = q.cursor
  BY DEF QueryRecord
<1>5. PICK page : page = Page(archive, head, cursor) /\ page # {}
  BY <1>1, <1>2, <1>3, <1>4 DEF Answer
<1>6. /\ page \subseteq Fits(head, cursor)
      /\ NextCursor(page) \in page
      /\ \A i \in Fits(head, cursor) \ page : i > NextCursor(page)
  BY <1>5, PageIsFirst, CursorIsLast
<1>7. PICK last \in DOMAIN archive : last = NextCursor(page) /\ last \in Fits(head, cursor)
  BY <1>6 DEF Fits
<1>8. /\ now' = now /\ archive' = archive
      /\ dispatched' = dispatched \cup page
  BY <1>1, <1>2, <1>3, <1>4, <1>5 DEF Answer, QueryStep
<1>9. page \subseteq Nat /\ dispatched' \in SUBSET Nat
  <2>1. \A i \in page : i \in Nat
    BY <1>6, TimesAreNumbers DEF Fits
  <2> QED
    BY <1>8, <2>1 DEF TypeInv
<1>10. \A i \in DOMAIN archive :
          Within(archive[i].time, head) /\ i > cursor /\ i \notin page => i > last
  BY <1>6, <1>7 DEF Fits
<1>11. CASE Succeed(p, q, q.left \cup archive[last].time..(Last(rs)[2] - 1))
  <2>1. archive[last].time \in Nat /\ archive[last].time >= head[1]
    BY <1>7, TimesAreNumbers DEF Fits, Within
  <2>2. PICK n \in Nat : n = Len(rs) /\ n > 0 /\ DOMAIN rs = 1..n
    BY <1>2
  <2>3. PICK end \in Nat : end = Last(rs)[2] /\ end = rs[n][2]
    <3>1. rs[n] \in Nat \X Nat /\ Last(rs) = rs[n]
      BY <2>2, ElementOfSeq DEF Last
    <3> QED
      BY <3>1
  <2>4. \A k \in 1..n : rs[k][1] \in Nat /\ rs[k][2] \in Nat
    <3>1. \A k \in 1..n : rs[k] \in Nat \X Nat
      BY <2>2, ElementOfSeq
    <3> QED
      BY <3>1
  <2>5. /\ \A k \in 1..n : rs[k][1] =< rs[k][2]
        /\ \A j, k \in 1..n : j < k => rs[j][2] =< rs[k][1]
    BY <1>1, <1>2, <2>2 DEF Asks, InOrder
  <2>6. \A k \in 1..n : rs[k][2] =< end
    <3> SUFFICES ASSUME NEW k \in 1..n, k # n
                 PROVE  rs[k][2] =< end
      BY <2>3, <2>4
    <3>1. n \in 1..n /\ k < n
      BY <2>2
    <3>2. rs[k][2] =< rs[n][1] /\ rs[n][1] =< rs[n][2]
      BY <2>5, <3>1
    <3> QED
      BY <2>3, <2>4, <3>1, <3>2
  <2>7. \A k \in 2..n : archive[last].time < rs[k][1]
    <3> SUFFICES ASSUME NEW k \in 2..n
                 PROVE  archive[last].time < rs[k][1]
      OBVIOUS
    <3>1. archive[last].time < head[2]
      BY <1>7, <2>1 DEF Fits, Within
    <3>2. 1 \in 1..n /\ k \in 1..n /\ 1 < k
      BY <2>2
    <3>3. rs[1][2] =< rs[k][1]
      BY <2>5, <3>2
    <3>4. archive[last].time < rs[1][2]
      BY <1>3, <3>1
    <3> QED
      BY <2>1, <2>4, <3>2, <3>3, <3>4
  <2> DEFINE left == q.left \cup archive[last].time..(end - 1)
  <2>8. ASSUME NEW i \in DOMAIN archive, archive[i].time < q.timeEnd,
               archive[i].time \notin unasked \cup left, i \notin dispatched'
        PROVE  FALSE
    <3>1. archive[i].time \in Nat /\ i \in Nat /\ last \in Nat
      BY TimesAreNumbers
    <3>2. Pending(q, i)
      BY <1>1, <1>8, <2>8 DEF Asks
    <3>3. CASE Within(archive[i].time, head) /\ i > cursor
      <4>1. archive[last].time =< archive[i].time
        BY <1>8, <1>10, <2>8, <3>1, <3>3 DEF ArchiveInv
      <4>2. archive[i].time < end
        <5>1. archive[i].time < head[2] /\ 1 \in 1..n
          BY <2>2, <3>1, <3>3 DEF Within
        <5>2. rs[1][2] =< end /\ rs[1][2] \in Nat
          BY <2>4, <2>6, <5>1
        <5> QED
          BY <1>3, <3>1, <5>1, <5>2
      <4>3. archive[i].time \in archive[last].time..(end - 1)
        BY <2>1, <3>1, <4>1, <4>2
      <4> QED
        BY <2>8, <4>3
    <3>4. CASE \E k \in 2..Len(q.ranges) : Within(archive[i].time, q.ranges[k])
      <4>1. PICK k \in 2..n : Within(archive[i].time, rs[k])
        BY <1>2, <2>2, <3>4
      <4>2. k \in 1..n /\ rs[k][1] \in Nat /\ rs[k][2] \in Nat
        BY <2>2, <2>4
      <4>3. rs[k][1] =< archive[i].time /\ archive[i].time < rs[k][2]
        BY <3>1, <4>1, <4>2, WithinBounds
      <4>4. archive[last].time < rs[k][1] /\ rs[k][2] =< end
        BY <2>6, <2>7, <4>2
      <4>5. archive[i].time \in archive[last].time..(end - 1)
        <5>1. \A t, l \in Nat, from, to \in Nat :
                 from =< t /\ t < to /\ l < from /\ to =< end => t \in l..(end - 1)
          OBVIOUS
        <5> QED
          BY <2>1, <3>1, <4>2, <4>3, <4>4, <5>1, Zenon
      <4> QED
        BY <2>8, <4>5
    <3> QED
      BY <1>2, <1>3, <1>4, <3>2, <3>3, <3>4 DEF Pending
  <2>9. left \in SUBSET Int /\ Succeed(p, q, left)
    <3>1. q.left \in SUBSET Int
      BY DEF QueryRecord
    <3>2. archive[last].time..(end - 1) \in SUBSET Int
      BY <2>1
    <3>3. Succeed(p, q, left)
      BY <1>11, <2>3
    <3> QED
      BY <3>1, <3>2, <3>3
  <2>10. q.timeEnd =< now /\ dispatched \subseteq dispatched'
    BY <1>1, <1>8 DEF Asks
  <2> HIDE DEF left
  <2> QED
    BY <1>8, <1>9, <2>8, <2>9, <2>10, SucceedKeeps
<1>12. CASE /\ queries' = [queries EXCEPT ![p].cursor = last]
            /\ UNCHANGED <<lastSuccessfulQuery, asked, unasked>>
  <2>1. PICK next : next = [q EXCEPT !.cursor = last]
    OBVIOUS
  <2>2. last \in Nat
    BY TimesAreNumbers
  <2>3. /\ next \in QueryRecord /\ next.cursor = last /\ next.ranges = q.ranges
        /\ next.left = q.left /\ next.timeEnd = q.timeEnd
    BY <2>1, <2>2 DEF QueryRecord
  <2>4. queries' = [queries EXCEPT ![p] = next]
    BY <1>1, <1>12, <2>1
  <2>5. TypeInv'
    <3>1. queries' \in [Peers -> QueryRecord \cup {None}]
      BY <2>3, <2>4 DEF TypeInv
    <3> QED
      BY <1>8, <1>9, <1>12, <3>1 DEF TypeInv
  <2>6. ArchiveInv' /\ LastInv'
    BY <1>8, <1>12 DEF ArchiveInv, LastInv
  <2>7. \A i \in DOMAIN archive : Pending(q, i) => Pending(next, i)' \/ i \in page
    BY <1>2, <1>3, <1>4, <1>8, <1>10, <2>3 DEF Pending
  <2>8. Asks(next)'
    BY <1>1, <1>8, <1>12, <2>3, <2>7 DEF Asks
  <2>9. queries'[p] = next /\ \A r \in Peers \ {p} : queries'[r] = queries[r]
    BY <2>4 DEF TypeInv
  <2>10. now' >= now
    BY <1>8 DEF TypeInv
  <2>11. Asks(queries[p])'
    BY <2>8, <2>9
  <2>12. QueriesInv'
    BY <1>8, <1>12, <2>5, <2>9, <2>10, <2>11, OthersAsk
  <2> QED
    BY <2>5, <2>6, <2>12
<1> QED
  BY <1>1, <1>2, <1>3, <1>4, <1>5, <1>7, <1>11, <1>12 DEF Answer

\* An empty page ends a range of which no message was left.
LEMMA AnswerEmptyKeeps ==
  ASSUME IInv, NEW p \in Peers, AnswerEmpty(p)
  PROVE  IInv'
<1> USE DEF IInv
<1>1. PICK q \in QueryRecord : q = queries[p] /\ Asks(q)
  BY DEF AnswerEmpty, QueryStep, TypeInv, QueriesInv
<1>2. q.ranges \in Seq(Nat \X Nat) /\ q.ranges # <<>> /\ q.cursor \in Nat
  BY <1>1 DEF Asks, QueryRecord
<1>3. PICK head \in Nat \X Nat : head = Head(q.ranges)
  BY <1>2
<1>4. Page(archive, head, q.cursor) = {} /\ NextRange(p, q)
  BY <1>1, <1>3 DEF AnswerEmpty
<1>5. Fits(head, q.cursor) = {}
  BY <1>2, <1>4, PageIsFirst
<1>6. now' = now /\ archive' = archive /\ dispatched' = dispatched
  BY DEF AnswerEmpty, QueryStep
<1>7. \A i \in DOMAIN archive : Pending(q, i) =>
         \E k \in 2..Len(q.ranges) : Within(archive[i].time, q.ranges[k])
  BY <1>3, <1>5 DEF Pending, Fits
<1> QED
  BY <1>1, <1>2, <1>4, <1>6, <1>7, NextRangeKeeps DEF Asks

\* A range that was not answered is left out.
LEMMA UnansweredKeeps ==
  ASSUME IInv, NEW p \in Peers, Unanswered(p)
  PROVE  IInv'
<1> USE DEF IInv
<1>1. PICK q0 \in QueryRecord : q0 = queries[p] /\ Asks(q0)
  BY DEF Unanswered, QueryStep, TypeInv, QueriesInv
<1>2. PICK left \in SUBSET Int : left = q0.left \cup RangeOf(q0)
  <2>1. q0.ranges \in Seq(Nat \X Nat) /\ q0.ranges # <<>> /\ q0.left \in SUBSET Int
    BY <1>1 DEF Asks, QueryRecord
  <2>2. Head(q0.ranges) \in Nat \X Nat
    BY <2>1
  <2>3. RangeOf(q0) \in SUBSET Int
    BY <2>2 DEF RangeOf
  <2>4. q0.left \cup RangeOf(q0) \in SUBSET Int
    BY <2>1, <2>3
  <2> QED
    BY <2>4, Zenon
<1>3. PICK q : q = [q0 EXCEPT !.left = left]
  OBVIOUS
<1>4. /\ q \in QueryRecord /\ q.ranges = q0.ranges /\ q.timeEnd = q0.timeEnd
      /\ q.cursor = q0.cursor /\ q.left = left
  BY <1>2, <1>3 DEF QueryRecord
<1>5. NextRange(p, q)
  BY <1>1, <1>2, <1>3 DEF Unanswered
<1>6. now' = now /\ archive' = archive /\ dispatched' = dispatched
  BY DEF Unanswered, QueryStep
<1>7. ASSUME NEW i \in DOMAIN archive, archive[i].time < q.timeEnd
      PROVE  \/ archive[i].time \in unasked \cup q.left \/ i \in dispatched
             \/ \E k \in 2..Len(q.ranges) : Within(archive[i].time, q.ranges[k])
  <2>1. archive[i].time \in unasked \cup q0.left \/ i \in dispatched \/ Pending(q0, i)
    BY <1>1, <1>4, <1>7 DEF Asks
  <2>2. Within(archive[i].time, Head(q0.ranges)) => archive[i].time \in left
    BY <1>2 DEF Within, RangeOf
  <2> QED
    BY <1>2, <1>4, <2>1, <2>2 DEF Pending
<1> QED
  BY <1>1, <1>4, <1>5, <1>6, <1>7, NextRangeKeeps DEF Asks

\* A query that fails is as if it had not been.
LEMMA ErrorKeeps ==
  ASSUME IInv, NEW p \in Peers, Error(p)
  PROVE  IInv'
<1> USE DEF IInv
<1>1. /\ queries' = [queries EXCEPT ![p] = None]
      /\ UNCHANGED <<now, archive, dispatched, lastSuccessfulQuery, asked, unasked>>
  BY DEF Error, QueryStep, Fail, End
<1>2. TypeInv' /\ ArchiveInv' /\ LastInv'
  BY <1>1 DEF TypeInv, ArchiveInv, LastInv
<1>3. queries'[p] = None /\ \A r \in Peers \ {p} : queries'[r] = queries[r]
  BY <1>1 DEF TypeInv
<1>4. now' >= now
  BY <1>1 DEF TypeInv
<1>5. QueriesInv'
  BY <1>1, <1>2, <1>3, <1>4, OthersAsk
<1> QED
  BY <1>2, <1>5

\* Whoever stops aborts queries, which still ask for the same.
LEMMA StopKeeps ==
  ASSUME IInv, Stop
  PROVE  IInv'
<1> USE DEF IInv
<1>1. UNCHANGED <<now, archive, dispatched, lastSuccessfulQuery, asked, unasked>>
  BY DEF Stop
<1>2. ASSUME NEW p \in Peers
      PROVE  /\ queries'[p] \in QueryRecord \cup {None}
             /\ queries'[p] # None => Asks(queries[p])'
  <2>1. queries'[p] = IF queries[p] # None /\ queries[p].abortable
                      THEN [queries[p] EXCEPT !.aborted = TRUE] ELSE queries[p]
    BY DEF Stop
  <2>2. CASE queries'[p] = queries[p]
    <3>1. queries[p] \in QueryRecord \cup {None}
      BY DEF TypeInv
    <3> QED
      BY <1>1, <2>2, <3>1 DEF QueriesInv, Asks, Pending
  <2>3. CASE queries[p] # None /\ queries'[p] = [queries[p] EXCEPT !.aborted = TRUE]
    <3>1. PICK q \in QueryRecord : q = queries[p] /\ Asks(q)
      BY <2>3 DEF TypeInv, QueriesInv
    <3>2. PICK next : next = [q EXCEPT !.aborted = TRUE]
      OBVIOUS
    <3>3. /\ next \in QueryRecord /\ next.ranges = q.ranges /\ next.timeEnd = q.timeEnd
          /\ next.cursor = q.cursor /\ next.left = q.left
      BY <3>2 DEF QueryRecord
    <3>4. Asks(next)'
      BY <1>1, <3>1, <3>3 DEF Asks, Pending
    <3> QED
      BY <2>3, <3>1, <3>2, <3>3, <3>4
  <2> QED
    BY <2>1, <2>2, <2>3
<1>3. TypeInv'
  <2>1. DOMAIN queries' = Peers /\ queries' = [p \in Peers |-> queries'[p]]
    BY DEF Stop
  <2>2. queries' \in [Peers -> QueryRecord \cup {None}]
    BY <1>2, <2>1
  <2> QED
    BY <1>1, <2>2 DEF TypeInv
<1>4. ArchiveInv' /\ LastInv' /\ QueriesInv'
  BY <1>1, <1>2 DEF ArchiveInv, LastInv, QueriesInv
<1> QED
  BY <1>3, <1>4

\* A message comes to the archive at a time no query has an end after.
LEMMA ArchiveKeeps ==
  ASSUME IInv, NEW causal \in BOOLEAN, Archive(causal)
  PROVE  IInv'
<1> USE DEF IInv
<1>1. UNCHANGED <<now, queries, dispatched, lastSuccessfulQuery, asked, unasked>>
      /\ archive' = Append(archive, [time |-> now, causal |-> causal])
  BY DEF Archive
<1>2. now \in Nat /\ archive \in Seq([time : Nat, causal : BOOLEAN])
  BY DEF TypeInv
<1>3. PICK n \in Nat : n = Len(archive)
  BY <1>2
<1>4. /\ archive' \in Seq([time : Nat, causal : BOOLEAN])
      /\ DOMAIN archive = 1..n /\ DOMAIN archive' = 1..(n + 1)
      /\ \A i \in 1..n : archive'[i] = archive[i]
      /\ archive'[n + 1].time = now
  BY <1>1, <1>2, <1>3
<1>5. TypeInv'
  BY <1>1, <1>4 DEF TypeInv
<1>6. ArchiveInv'
  <2>1. \A i \in 1..(n + 1) : archive'[i].time =< now
    <3>1. \A i \in 1..n : archive'[i].time =< now
      BY <1>4 DEF ArchiveInv
    <3>2. \A i \in 1..(n + 1) : i \in 1..n \/ i = n + 1
      OBVIOUS
    <3>3. now =< now
      BY <1>2
    <3> QED
      BY <1>4, <3>1, <3>2, <3>3
  <2>2. ASSUME NEW i \in 1..(n + 1), NEW j \in 1..(n + 1), i < j
        PROVE  archive'[i].time =< archive'[j].time
    <3>1. i \in 1..n
      BY <1>3, <2>2
    <3>2. CASE j \in 1..n
      BY <1>4, <2>2, <3>1, <3>2 DEF ArchiveInv
    <3>3. CASE j = n + 1
      BY <1>4, <2>1, <3>3
    <3> QED
      BY <1>3, <3>2, <3>3
  <2> QED
    BY <1>1, <1>4, <2>1, <2>2 DEF ArchiveInv
<1>7. LastInv'
  <2>1. ASSUME NEW i \in 1..(n + 1), archive'[i].time < lastSuccessfulQuery
        PROVE  i \in 1..n
    BY <1>2, <1>3, <1>4, <2>1 DEF LastInv, TypeInv
  <2> QED
    BY <1>1, <1>4, <2>1 DEF LastInv
<1>8. QueriesInv'
  <2> SUFFICES ASSUME NEW p \in Peers, queries[p] # None
               PROVE  Asks(queries[p])'
    BY <1>1 DEF QueriesInv
  <2>1. PICK q \in QueryRecord : q = queries[p] /\ Asks(q)
    BY DEF TypeInv, QueriesInv
  <2>2. q.timeEnd \in Nat /\ q.timeEnd =< now
    BY <2>1 DEF QueryRecord, Asks
  <2>3. \A i \in 1..(n + 1) : archive'[i].time < q.timeEnd => i \in 1..n
    BY <1>2, <1>3, <1>4, <2>2
  <2>4. \A i \in 1..n : Pending(q, i)' <=> Pending(q, i)
    BY <1>4 DEF Pending
  <2>5. Asks(q)'
    BY <1>1, <1>4, <2>1, <2>3, <2>4 DEF Asks
  <2> QED
    BY <1>1, <2>1, <2>5
<1> QED
  BY <1>5, <1>6, <1>7, <1>8

-----------------------------------------------------------------------------
\* Every step keeps the invariant.
LEMMA StepKeeps == IInv /\ [Next]_vars => IInv'
<1> SUFFICES ASSUME IInv, [Next]_vars
             PROVE  IInv'
  OBVIOUS
<1>1. ASSUME UNCHANGED <<archive, lastSuccessfulQuery, queries, dispatched, asked, unasked>>,
             now' = now \/ now' = now + 1
      PROVE  IInv'
  <2>1. now \in Nat /\ now' \in Nat /\ now' >= now
    BY <1>1 DEF IInv, TypeInv
  <2>2. TypeInv'
    BY <1>1, <2>1 DEF IInv, TypeInv
  <2>3. ArchiveInv'
    BY <1>1, <2>1, TimesAreNumbers DEF IInv, ArchiveInv
  <2>4. LastInv'
    BY <1>1, <2>1 DEF IInv, LastInv, TypeInv
  <2>5. QueriesInv'
    <3> SUFFICES ASSUME NEW p \in Peers, queries[p] # None
                 PROVE  Asks(queries[p])'
      BY <1>1 DEF QueriesInv
    <3>1. PICK q \in QueryRecord : q = queries[p] /\ Asks(q)
      BY DEF IInv, TypeInv, QueriesInv
    <3>2. Asks(q)'
      BY <1>1, <2>1, <2>2, <3>1, StillAsks DEF IInv
    <3> QED
      BY <1>1, <3>1, <3>2
  <2> QED
    BY <2>2, <2>3, <2>4, <2>5 DEF IInv
<1>2. CASE Tick \/ Offline \/ Stopped \/ Start \/ UNCHANGED vars
  BY <1>1, <1>2 DEF Tick, Offline, Stopped, Start, vars
<1>3. ASSUME NEW causal \in BOOLEAN, Archive(causal)
      PROVE  IInv'
  BY <1>3, ArchiveKeeps
<1>4. ASSUME NEW p \in Peers, Connect(p)
      PROVE  IInv'
  BY <1>4, ConnectKeeps
<1>5. ASSUME NEW p \in Peers, Answer(p) \/ AnswerEmpty(p) \/ Unanswered(p) \/ Error(p)
      PROVE  IInv'
  BY <1>5, AnswerKeeps, AnswerEmptyKeeps, UnansweredKeeps, ErrorKeeps
<1>6. CASE Stop
  BY <1>6, StopKeeps
<1> QED
  BY <1>2, <1>3, <1>4, <1>5, <1>6 DEF Next

\* Whatever came to the store before the last query that succeeded was dispatched or
\* came at a time such a query left out, for any store nodes, messages, limits of
\* ranges and pages, and however queries overlap, fail, are aborted or are stopped
\* (maybeQuery, query, buildQueryParams, queryPerPage).
THEOREM MissedOnlyLeftOut == Spec => []NoneMissed
<1>1. Init => IInv
  BY DEF Init, IInv, TypeInv, ArchiveInv, LastInv, QueriesInv
<1>2. IInv => NoneMissed
  <2> SUFFICES ASSUME IInv, NEW i \in DOMAIN archive, archive[i].time < asked
               PROVE  archive[i].time \in unasked \/ i \in dispatched
    BY DEF NoneMissed
  <2>1. archive[i].time < lastSuccessfulQuery
    BY TimesAreNumbers DEF IInv, LastInv, TypeInv
  <2> QED
    BY <2>1 DEF IInv, LastInv
<1> QED
  BY <1>1, <1>2, StepKeeps, PTL DEF Spec

=============================================================================
