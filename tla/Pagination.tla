----------------------------- MODULE Pagination -----------------------------
(***************************************************************************)
(* ResourceManager.iter_all (resources/base.py): pages through list() by   *)
(* limit and offset, lazily, while other clients - or the consumer of the  *)
(* generator - insert and delete rows of the table.                        *)
(*                                                                         *)
(* Three kinds of list() inherit it: `paged' passes limit, offset and      *)
(* every filter to the server (ResourceManager.list); `postfiltered'       *)
(* filters the page it got (FileManager.list, file_type); `unpaged' drops  *)
(* limit and offset, which end in **kwargs (NetworkHostManager.list,       *)
(* NetworkRuleManager.list, VMSnapshotManager.list and others).            *)
(***************************************************************************)
EXTENDS Integers, Sequences, FiniteSets, SequencesExt

CONSTANTS Rows,       \* the rows the table may hold
          Wanted,     \* those the caller's filter selects
          PageSize,   \* iter_all's page_size
          Listing,    \* the kind of list() that iter_all calls
          MaxChanges  \* bound: insertions and deletions during an iteration

ASSUME PageAssumption == PageSize \in Nat \ {0}
ASSUME RowsAssumption == IsFiniteSet(Rows)
ASSUME WantedAssumption == Wanted \subseteq Rows
ASSUME ListingAssumption == Listing \in {"paged", "postfiltered", "unpaged"}

VARIABLES
    table,    \* the rows on the server, in the order it lists them
    offset,   \* iter_all's offset
    batch,    \* rows of the current page not yet yielded
    last,     \* whether the current page is the last one
    yielded,  \* yielded[r]: how often r was yielded: 0, 1, or 2 for more
    done,     \* the generator has ended
    stable,   \* rows that were in the table all along
    inserted, deleted \* insertions and deletions so far

iterator == <<offset, batch, last, yielded, done>>
vars == <<table, iterator, stable, inserted, deleted>>

Init == /\ \E S \in SUBSET Rows : table \in SetToSeqs(S)
        /\ stable = ToSet(table)
        /\ offset = 0 /\ batch = <<>> /\ last = FALSE
        /\ yielded = [r \in Rows |-> 0]
        /\ done = FALSE
        /\ inserted = 0 /\ deleted = 0

-----------------------------------------------------------------------------
\* What the filter selects of a list of rows, in their order: the k-th of the rows kept
\* comes from the position with k - 1 of them before it.
Kept(rows) == {i \in DOMAIN rows : rows[i] \in Wanted}
Rank(S, i) == Cardinality({j \in S : j <= i})
Nth(S, k) == CHOOSE i \in S : Rank(S, i) = k
Selected(rows) == [k \in 1 .. Cardinality(Kept(rows)) |-> rows[Nth(Kept(rows), k)]]

\* The rows from `from' on, at most `limit' of them.
Shortest(m, n) == IF m < n THEN m ELSE n
Window(rows, from, limit) == [i \in 1 .. Shortest(limit, Len(rows) - from) |-> rows[from + i]]

\* ResourceManager.list: the server filters, then cuts out the page.
MutPagedList(from) == Window(table, from, PageSize)
PagedList(from) == Window(Selected(table), from, PageSize)

\* FileManager.list(file_type=...): the page is cut out first.
PostfilteredList(from) == Selected(Window(table, from, PageSize))

\* NetworkHostManager.list: **kwargs takes limit and offset and nothing reads them.
UnpagedList(from) == Selected(table)

Page(from) == CASE Listing = "paged"        -> PagedList(from)
                [] Listing = "postfiltered" -> PostfilteredList(from)
                [] Listing = "unpaged"      -> UnpagedList(from)

\* A page with fewer rows than asked for is taken for the last one, an empty one
\* ends the loop at once.
MutIsLast(page) == Len(page) <= PageSize
IsLast(page) == Len(page) < PageSize

\* The next offset, left alone where no page depends on it to keep the states few.
Advanced == IF Listing = "unpaged" THEN offset ELSE offset + PageSize

MutFetch == /\ ~done /\ ~last /\ batch = <<>>
            /\ batch' = Page(offset)
            /\ last' = IsLast(Page(offset))
            /\ offset' = offset + Len(Page(offset)) - 1
            /\ UNCHANGED <<table, yielded, done, stable, inserted, deleted>>
MutFetchAgain == /\ ~done /\ ~last /\ batch = <<>>
                 /\ batch' = Page(offset)
                 /\ last' = IsLast(Page(offset))
                 /\ UNCHANGED <<table, offset, yielded, done, stable, inserted, deleted>>
Fetch == /\ ~done /\ ~last /\ batch = <<>>
         /\ batch' = Page(offset)
         /\ last' = IsLast(Page(offset))
         /\ offset' = Advanced
         /\ UNCHANGED <<table, yielded, done, stable, inserted, deleted>>

Yield == /\ batch # <<>>
         /\ yielded' = [yielded EXCEPT ![Head(batch)] = IF @ = 2 THEN 2 ELSE @ + 1]
         /\ batch' = Tail(batch)
         /\ UNCHANGED <<table, offset, last, done, stable, inserted, deleted>>

Stop == /\ ~done /\ last /\ batch = <<>>
        /\ done' = TRUE
        /\ UNCHANGED <<table, offset, batch, last, yielded, stable, inserted, deleted>>

-----------------------------------------------------------------------------
(* The rest of the world.                                                  *)

MayChange == ~done /\ inserted + deleted < MaxChanges

\* A sorted list() may show a new row at any position.
Insert(r, i) == /\ MayChange
                /\ r \notin ToSet(table)
                /\ table' = InsertAt(table, i, r)
                /\ inserted' = inserted + 1
                /\ UNCHANGED <<iterator, stable, deleted>>

Delete(i) == /\ MayChange
             /\ table' = RemoveAt(table, i)
             /\ stable' = stable \ {table[i]}
             /\ deleted' = deleted + 1
             /\ UNCHANGED <<iterator, inserted>>

Iterate == Fetch \/ Yield \/ Stop

Next == \/ Iterate
        \/ \E r \in Rows, i \in 1 .. Len(table) + 1 : Insert(r, i)
        \/ \E i \in DOMAIN table : Delete(i)

Spec == Init /\ [][Next]_vars

\* The consumer keeps asking for the next row.
FairSpec == Spec /\ WF_vars(Iterate)

-----------------------------------------------------------------------------
TypeOK == /\ table \in Seq(Rows) /\ IsInjective(table)
          /\ offset \in Nat
          /\ batch \in Seq(Wanted)
          /\ last \in BOOLEAN /\ done \in BOOLEAN
          /\ yielded \in [Rows -> 0 .. 2]
          /\ stable \subseteq ToSet(table)
          /\ inserted \in Nat /\ deleted \in Nat

\* On a table nobody changes, the iteration yields exactly the wanted rows, each
\* once, whatever the page size.
QuietIsExact ==
    done /\ inserted + deleted = 0
        => yielded = [r \in Rows |-> IF r \in ToSet(table) \cap Wanted THEN 1 ELSE 0]

\* Insertions alone never hide a row: only a deletion can move a row that is there
\* from start to end from a page to come into a page already fetched.
OnlyDeletionsHide ==
    done /\ deleted = 0 => \A r \in stable \cap Wanted : yielded[r] > 0

\* Deletions alone never repeat a row: only an insertion can move a row that was
\* yielded into a page to come.
OnlyInsertionsRepeat == inserted = 0 => \A r \in Rows : yielded[r] < 2

\* The iteration comes to an end once the table stops growing.
Ends == <>done
=============================================================================
