----------------------------- MODULE LocalHistory -----------------------------
(***************************************************************************)
(* MemLocalHistory (sds/src/message_channel/mem_local_history.ts): a       *)
(* bounded array of content messages in the order of (timestamp, id).      *)
(* MessageChannel keeps the set of these messages and assumes no limit.    *)
(***************************************************************************)
EXTENDS Arrays, SequencesExt

CONSTANTS
  Messages,  \* content messages: records [id, lamport]
  IdRank,    \* the string order of the ids
  MaxLength, \* maxLength
  MaxItems,  \* bound: items of one call of push
  MaxPushed  \* bound: messages pushed altogether

ASSUME MaxLengthAssumption == MaxLength \in Nat /\ MaxItems \in Nat

\* valueOf tells messages of different ids or timestamps apart.
ASSUME MessagesAssumption ==
  /\ \A m \in Messages : m.lamport \in Nat /\ IdRank[m.id] \in Nat
  /\ \A m, n \in Messages :
       m.lamport = n.lamport /\ IdRank[m.id] = IdRank[n.id] => m = n

VARIABLES
  items,    \* items
  pushed    \* every message pushed so far

historyVars == <<items, pushed>>

HistoryInit == items = <<>> /\ pushed = {}

\* valueOf, compared by localeCompare
NotAfter(m, n) == \/ m.lamport < n.lamport
                  \/ m.lamport = n.lamport /\ IdRank[m.id] =< IdRank[n.id]

Before(m, n) == NotAfter(m, n) /\ ~NotAfter(n, m)

\* The stable sort of an array: at place k the item that k - 1 others precede.
Sorted(seq) ==
  LET precedes(j, i) == Before(seq[j], seq[i]) \/ (j < i /\ ~Before(seq[i], seq[j]))
  IN  [k \in DOMAIN seq |->
         seq[CHOOSE i \in DOMAIN seq :
               Cardinality({j \in DOMAIN seq : precedes(j, i)}) = k - 1]]

UniqLast(seq) ==
  At(seq, {i \in DOMAIN seq : \A j \in DOMAIN seq : j > i => seq[j].id # seq[i].id})

\* _.uniqBy(_, "messageId"): the first of the messages with one id stays.
UniqById(seq) ==
  At(seq, {i \in DOMAIN seq : \A j \in DOMAIN seq : j < i => seq[j].id # seq[i].id})

NewestByArrival(seq) ==
  IF Len(seq) > MaxLength THEN SubSeq(seq, 1, MaxLength) ELSE seq

\* Oldest messages are dropped when the limit is exceeded.
Newest(seq) ==
  IF Len(seq) > MaxLength THEN SubSeq(seq, Len(seq) - MaxLength + 1, Len(seq)) ELSE seq

Push(batch) ==
  /\ items' = Newest(UniqById(Sorted(items \o batch)))
  /\ pushed' = pushed \cup Range(batch)

HistoryNext == \E batch \in SeqOf(Messages, MaxItems) :
          Cardinality(pushed \cup Range(batch)) =< MaxPushed /\ Push(batch)

HistorySpec == HistoryInit /\ [][HistoryNext]_historyVars

-----------------------------------------------------------------------------
\* Properties.

\* Of the messages pushed with one id, the one that sorts first.
FirstStamps == {m \in pushed : \A n \in pushed : n.id = m.id => NotAfter(m, n)}

\* Without eviction the history is the set MessageChannel takes it for: of each
\* id ever pushed, the message with the smallest timestamp.
SetOfFirstStamps ==
  Cardinality(FirstStamps) =< MaxLength => Range(items) = FirstStamps

\* When an id has one timestamp, the history is made of the newest messages
\* ever pushed, in whatever order and batches they came: an old message that
\* arrives late does not push out a newer one, and no evicted message returns.
\* That is so after every call of push, also of more than maxLength messages at
\* once (mem_local_history.ts:49-53, and its tests). The comment of the class
\* (16-18) says that dropping then waits for the next push, which it does not.
NewestEverPushed ==
  FirstStamps = pushed =>
  \A m \in pushed :
    m \in Range(items) <=> Cardinality({n \in pushed : Before(m, n)}) < MaxLength
=============================================================================
