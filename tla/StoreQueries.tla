---------------------------- MODULE StoreQueries ------------------------------
(***************************************************************************)
(* Queries to a store node by time range (sdk/src/store, core/src/lib/store): *)
(* the range is split, and each part is asked for page by page. The store   *)
(* node is not part of this repository; it keeps its messages by their time. *)
(***************************************************************************)
EXTENDS Naturals, Sequences, SequencesExt

\* The longest range a store node is asked for (MAX_TIME_RANGE), and the most
\* messages it returns at once.
CONSTANTS MaxTimeLimit, PageSize

\* Neither a part of a range nor a page is empty.
ASSUME LimitsAssumption == MaxTimeLimit \in Nat \ {0} /\ PageSize \in Nat \ {0}

\* buildQueryParams: the sub-ranges <<from, to>> of a query from start to end.
\* Only whole parts are taken, unless there is none.
buildQueryParams(start, end) ==
    LET parts == IF end - start <= MaxTimeLimit THEN 0
                 ELSE (end - start - 1) \div MaxTimeLimit
    IN  IF parts = 0 THEN << <<start, end>> >>
        ELSE [i \in 1..parts |-> <<start + (i - 1) * MaxTimeLimit, start + i * MaxTimeLimit>>]

Covered(ranges) == UNION {ranges[i][1]..(ranges[i][2] - 1) : i \in DOMAIN ranges}

\* What the store node answers: of the messages of the range after the cursor it
\* returns the first. The cursor is a position in the archive, and so is a message.
Page(archive, range, cursor) ==
    LET fits == {i \in DOMAIN archive :
                    i > cursor /\ archive[i].time \in range[1]..(range[2] - 1)}
    IN  {i \in fits : Cardinality({j \in fits : j < i}) < PageSize}

\* queryPerPage with forward pagination: the cursor of the next page is the last
\* message of this one.
NextCursor(page) == Max(page)
=============================================================================
