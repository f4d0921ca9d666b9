----------------------------- MODULE ColumnScan -----------------------------
(***************************************************************************)
(* One table and the answers of its queries: the persisted row group in    *)
(* bit-sliced form, the active memtable, the memtable a compaction has     *)
(* frozen; inserts, deletes and the two state changes of a compaction.     *)
(* The race of these steps is the matter of LsmStore: here one step runs   *)
(* at a time and what counts is the rows' values.                          *)
(***************************************************************************)
EXTENDS BitSlicedScan

CONSTANTS
    AllRows,     \* every row: [num, str]
    NewRows,     \* the rows that may be inserted
    Loads,       \* row sequences the table may start with, already persisted
    Queries,     \* sets of predicates
    NameLengths, \* lengths of the names of the numeric and the string column
    Indexes,     \* the row indexes DeleteRow is called with
    MaxFresh,    \* bound: rows inserted between two compactions
    MaxRows,     \* bound: rows of the whole table
    MaxVersion   \* bound: published states

ASSUME RowAssumption ==
    /\ \A r \in AllRows :
         /\ r = [num |-> r.num, str |-> r.str]
         /\ r.num # Null => r.num \in (-(2^(W - 1)))..(2^(W - 1) - 1)
         /\ r.str # Null => r.str \in Seq(Chars)
    /\ NewRows \subseteq AllRows
    /\ \A rows \in Loads : rows \in Seq(AllRows) /\ Len(rows) <= MaxRows
    /\ Indexes \subseteq Nat /\ MaxRows \in Nat

ASSUME QueryAssumption ==
    \A q \in Queries : q \subseteq NumPredicates \cup StrPredicates

ASSUME NameAssumption == NameLengths \subseteq Nat \X Nat

ASSUME NullAssumption == Null \notin RowGroups /\ Null \notin Seq(AllRows)

VARIABLES
    group,       \* the persisted RowGroup, or Null
    active,      \* rows of the active memtable
    frozen,      \* rows of the frozen memtable, or Null
    version

vars == <<group, active, frozen, version>>

Frozen == IF frozen = Null THEN <<>> ELSE frozen
GroupRows == IF group = Null THEN 0 ELSE group.num_rows

\* A group without rows is not published.
Publish(rows) == IF rows = <<>> THEN Null ELSE Ingest(rows)

Init ==
    /\ \E rows \in Loads : group = Publish(rows)
    /\ active = <<>>
    /\ frozen = Null
    /\ version = 1

Insert(r) ==
    /\ Len(active) < MaxFresh
    /\ GroupRows + Len(Frozen) + Len(active) < MaxRows
    /\ active' = Append(active, r)
    /\ UNCHANGED <<group, frozen, version>>

\* DeleteRow(i), i counted from 0; an index past the persisted rows hits
\* nothing.
DeleteRow(i) ==
    /\ group' = IF i < GroupRows
                THEN [group EXCEPT !.blocks[i \div W + 1].delete_mask =
                                      @ \ {i % W}]
                ELSE group
    /\ UNCHANGED <<active, frozen, version>>

Freeze ==
    /\ frozen = Null
    /\ version < MaxVersion
    /\ active # <<>> \/ group # Null
    /\ version' = version + 1
    /\ frozen' = active
    /\ active' = <<>>
    /\ UNCHANGED group

\* The row a compaction reads back from a position of a block.
ReadBack(block, r) ==
    LET scalars == Transpose(block.num.planes)
    IN  [num |-> IF r \in block.num.validity
                 THEN Signed(Unsigned(scalars[r])) ELSE Null,
         str |-> IF r \in block.skel.validity
                 THEN block.tail[r + 1] ELSE Null]

\* The rows of a group with their tombstones, in order.
Cells(g) ==
    [n \in 1..g.num_rows |->
        LET block == g.blocks[(n - 1) \div W + 1]
            r == (n - 1) % W
        IN  [row |-> ReadBack(block, r), live |-> r \in block.delete_mask]]

GroupCells == IF group = Null THEN <<>> ELSE Cells(group)

Rows(cells) == [n \in DOMAIN cells |-> cells[n].row]
LiveCells(cells) ==
    FoldLeft(LAMBDA s, c : IF c.live THEN Append(s, c) ELSE s, <<>>, cells)

\* Mutant: tombstones are forgotten by the reconstruction.
ReconstructAll == Rows(GroupCells)

Reconstruct == Rows(LiveCells(GroupCells))

Install ==
    /\ frozen # Null
    /\ version' = version + 1
    /\ group' = Publish(Reconstruct \o frozen)
    /\ frozen' = Null
    /\ UNCHANGED active

Next ==
    \/ \E r \in NewRows : Insert(r)
    \/ \E i \in Indexes : DeleteRow(i)
    \/ Freeze
    \/ Install

Spec == Init /\ [][Next]_vars
-----------------------------------------------------------------------------
(* Queries over a memtable, and over the three parts of the table.         *)

MatchNumeric(n, p) ==
    LET target == Signed(p.value)
    IN  CASE p.op = "EQ" -> n = target
          [] p.op = "GT" -> n > target
          [] p.op = "LT" -> n < target

\* MemTable::ExecuteQuery: a null satisfies no predicate.
RowMatches(row, q) ==
    \A p \in q : /\ row[p.col] # Null
                 /\ IF p.col = "str" THEN MatchString(row.str, p)
                                     ELSE MatchNumeric(row.num, p)

Matching(rows, q) == {n \in DOMAIN rows : RowMatches(rows[n], q)}

\* The aggregated values of the rows found: nulls are left out.
MemValues(rows, q) ==
    [n \in {m \in Matching(rows, q) : rows[m].num # Null} |-> rows[n].num]

MemExecute(rows, q) ==
    [count |-> Cardinality(Matching(rows, q)),
     sum   |-> SumOver(MemValues(rows, q)) % 2^W]

\* QueryRunner::Execute over a TableState.
TableExecute(q) ==
    LET parts == <<IF group = Null THEN [count |-> 0, sum |-> 0]
                                   ELSE GroupExecute(group, q),
                   MemExecute(active, q), MemExecute(Frozen, q)>>
    IN  [count |-> SumOver([k \in 1..3 |-> parts[k].count]),
         sum   |-> SumOver([k \in 1..3 |-> parts[k].sum]) % 2^W]

\* A part's QueryResult from the number of rows it found and their values.
PartResult(count, values) ==
    LET distinct == {values[x] : x \in DOMAIN values}
    IN  [count    |-> count,
         sum      |-> SumOver(values),
         min_val  |-> IF distinct = {} THEN 0 ELSE Min(distinct),
         max_val  |-> IF distinct = {} THEN 0 ELSE Max(distinct),
         distinct |-> distinct]

GroupResult(q) ==
    PartResult(GroupExecute(group, q).count, MatchedValues(group, q))

MemResult(rows, q) ==
    PartResult(Cardinality(Matching(rows, q)), MemValues(rows, q))

Results(q) ==
    (IF group = Null THEN <<>> ELSE <<GroupResult(q)>>)
      \o <<MemResult(active, q)>>
      \o (IF frozen = Null THEN <<>> ELSE <<MemResult(frozen, q)>>)

\* Mutant: parts that found nothing take part with their zeros.
MergeAll(results) ==
    LET Found == DOMAIN results
        distinct == UNION {results[k].distinct : k \in Found}
    IN  [count    |-> SumOver([k \in DOMAIN results |-> results[k].count]),
         sum      |-> SumOver([k \in DOMAIN results |-> results[k].sum]),
         min_val  |-> Min({0} \cup {results[k].min_val : k \in Found}),
         max_val  |-> Max({0} \cup {results[k].max_val : k \in Found}),
         distinct |-> distinct,
         numerics |-> SumOver([k \in Found |->
                                 Cardinality(results[k].distinct)])]

\* The merge of ExecuteQueryResult over a TableState; avg is kept as the sum
\* and the number it is divided by, the length of all_numerics.
Merge(results) ==
    LET Found == {k \in DOMAIN results : results[k].count > 0}
        distinct == UNION {results[k].distinct : k \in Found}
        OrZero(S) == IF S = {} THEN {0} ELSE S
    IN  [count    |-> SumOver([k \in DOMAIN results |-> results[k].count]),
         sum      |-> SumOver([k \in DOMAIN results |-> results[k].sum]),
         min_val  |-> Min(OrZero({results[k].min_val : k \in Found})),
         max_val  |-> Max(OrZero({results[k].max_val : k \in Found})),
         distinct |-> distinct,
         numerics |-> SumOver([k \in Found |->
                                 Cardinality(results[k].distinct)])]

QueryResult(q) == Merge(Results(q))
-----------------------------------------------------------------------------
\* A published group has a block for every W rows; behind its rows a block
\* has neither a one bit nor a valid position, in any tile.
TypeOK ==
    /\ active \in Seq(AllRows)
    /\ frozen = Null \/ frozen \in Seq(AllRows)
    /\ group # Null =>
         /\ group.num_rows \in 1..MaxRows
         /\ Len(group.blocks) = (group.num_rows + W - 1) \div W
         /\ \A b \in DOMAIN group.blocks :
              LET block == group.blocks[b]
                  Filled == RowsInBlock(group, b)
              IN  /\ DOMAIN block.tail = 1..Cardinality(Filled)
                  /\ block.delete_mask \subseteq Pos
                  /\ \A t \in {block.num, block.skel, block.kim} :
                       /\ t.validity \subseteq Filled
                       /\ \A bit \in Pos : t.planes[bit] \subseteq Filled

\* Rows and predicates on which row groups and memtables are meant to agree.
\* Left out: nulls (a group reads 0 or the empty string), order comparisons
\* across the sign (a group compares words), one-character CONTAINS (its KIM
\* gram is in no stored signature of a longer string), an empty LIKE prefix
\* (it compares all skeleton bits) and an EQ pattern that ends in '%'.
Plain(row, p) ==
    /\ row[p.col] # Null
    /\ p.col = "num" =>
          p.op = "EQ" \/ (row.num >= 0 <=> Signed(p.value) >= 0)
    /\ p.op = "LIKE_CONTAINS" => Len(CleanPattern(p)) # 1
    /\ p.op = "LIKE_PREFIX" => CleanPattern(p) # <<>>
    /\ p.col = "str" /\ p.op = "EQ" => ChopLast(p.value) = p.value

\* Positions of the persisted rows that a scan for q finds.
Found(q) == {n \in 1..GroupRows :
                (n - 1) % W \in FinalMask(group, (n - 1) \div W + 1, q)}

\* A compaction does not change what a query finds: the scan of a row group
\* finds a persisted row exactly if it is alive and the memtable scan would
\* have found it, for the rows and predicates that are plain.
ScanFindsMatchingRows ==
    \A q \in Queries : \A n \in 1..GroupRows :
        LET cell == GroupCells[n]
        IN  (\A p \in q : Plain(cell.row, p)) =>
                (n \in Found(q) <=> cell.live /\ RowMatches(cell.row, q))

\* Every numeric value behind an answer, as [part, row] -> value.
FoundValues(q) ==
    LET G == {n \in Found(q) : GroupCells[n].row.num # Null}
        A == DOMAIN MemValues(active, q)
        F == DOMAIN MemValues(Frozen, q)
    IN  [x \in ({1} \X G) \cup ({2} \X A) \cup ({3} \X F) |->
            CASE x[1] = 1 -> GroupCells[x[2]].row.num
              [] x[1] = 2 -> active[x[2]].num
              [] x[1] = 3 -> Frozen[x[2]].num]

FoundCount(q) ==
    Cardinality(Found(q)) + Cardinality(Matching(active, q))
      + Cardinality(Matching(Frozen, q))

\* Both executions of a query, the one that adds bit planes up and the one
\* that transposes them back, count the rows found and add their values up,
\* nulls adding nothing, modulo the word size.
SumsAreOfFoundRows ==
    \A q \in Queries :
        LET fast == TableExecute(q)
            full == QueryResult(q)
            sum == SumOver(FoundValues(q)) % 2^W
        IN  /\ fast.count = FoundCount(q) /\ full.count = FoundCount(q)
            /\ fast.sum = sum /\ full.sum % 2^W = sum

NoNullFound(q) == Cardinality(DOMAIN FoundValues(q)) = FoundCount(q)

\* Merging the results of the three parts gives the least, the greatest and
\* the distinct values of all rows found, whichever parts found none.
MergedExtremes ==
    \A q \in Queries :
        LET V == {FoundValues(q)[x] : x \in DOMAIN FoundValues(q)}
            res == QueryResult(q)
        IN  NoNullFound(q) /\ V # {} =>
                /\ res.min_val = Min(V)
                /\ res.max_val = Max(V)
                /\ res.distinct = V

\* The average of a query is the sum divided by the number of rows found, as
\* the test of the aggregations computes it.
AverageIsMean ==
    \A q \in Queries :
        LET res == QueryResult(q)
        IN  NoNullFound(q) => res.sum * res.numerics = res.sum * res.count

(* The exported file of the row group, see RowGroupFile.                    *)

\* The tail payload: the number of strings, their offsets and one more, the
\* strings with a zero behind each, and zeros up to a multiple of 64 bytes.
TailSize(tail) ==
    64 * ((16 + 8 * Len(tail) + SumOver([i \in DOMAIN tail |-> Len(tail[i]) + 1]) + 63)
             \div 64)

Exported(g, num, str) ==
    [num_rows |-> g.num_rows,
     columns  |-> <<[type |-> 9, name |-> "num", len |-> num],
                    [type |-> 13, name |-> "str", len |-> str],
                    [type |-> 8, name |-> "str_kim", len |-> str + 4]>>,
     blocks   |-> [b \in DOMAIN g.blocks |->
                     LET block == g.blocks[b]
                     IN  [tiles       |-> <<block.num, block.skel, block.kim>>,
                          delete_mask |-> block.delete_mask,
                          tail        |-> block.tail,
                          tail_size   |-> TailSize(block.tail)]]]

RowFile == INSTANCE RowGroupFile

\* Whatever row group is exported: a file of it that was written in full is
\* read back field by field, and of a file whose writing was cut off, which
\* nobody notices, nothing but the same group is ever read.
FilesReadBack ==
    group # Null =>
        \A n \in NameLengths : RowFile!ReadsBack(Exported(group, n[1], n[2]))

\* The rows a table holds, whatever holds them: inserting, deleting and
\* compacting do to them what RowTable promises, and nothing else.
Table == INSTANCE RowTable WITH cells <- GroupCells, fresh <- Frozen \o active
ImplementsRowTable == Table!TableSpec
=============================================================================
