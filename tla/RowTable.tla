------------------------------ MODULE RowTable ------------------------------
(***************************************************************************)
(* What a table promises about its rows: they keep their values and their  *)
(* order, whatever layout holds them.  A deleted row keeps its index until *)
(* the next compaction, which drops it and renumbers the rows after it.    *)
(***************************************************************************)
EXTENDS Naturals, Sequences, SequencesExt

CONSTANT AllRows

VARIABLES
    cells,    \* rows that have an index, each with its tombstone
    fresh     \* rows inserted since, in order

Alive(r) == [row |-> r, live |-> TRUE]
LiveCells ==
    FoldLeft(LAMBDA s, c : IF c.live THEN Append(s, c) ELSE s, <<>>, cells)

TableInit ==
    /\ cells \in Seq([row : AllRows, live : {TRUE}])
    /\ fresh = <<>>

Insert(r) == fresh' = Append(fresh, r) /\ UNCHANGED cells

Delete(i) == UNCHANGED fresh /\ cells' = [cells EXCEPT ![i].live = FALSE]

\* The first k fresh rows get an index.
Compact(k) ==
    /\ fresh' = SubSeq(fresh, k + 1, Len(fresh))
    /\ cells' = LiveCells \o [i \in 1..k |-> Alive(fresh[i])]

TableNext ==
    \/ \E r \in AllRows : Insert(r)
    \/ \E i \in DOMAIN cells : Delete(i)
    \/ \E k \in 0..Len(fresh) : Compact(k)

TableSpec == TableInit /\ [][TableNext]_<<cells, fresh>>
=============================================================================
