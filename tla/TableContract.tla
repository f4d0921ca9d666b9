---------------------------- MODULE TableContract ----------------------------
(***************************************************************************)
(* What a table promises its callers: rows that were inserted stay until   *)
(* they are erased, rows that were erased stay away, and nothing else      *)
(* changes what a query counts.  Rows in "loose" are the exception the     *)
(* concurrent store makes: nothing is promised about a row once an insert  *)
(* or a delete of it has been overtaken by a compaction.  With loose = {}  *)
(* this is an ordinary set with insert and delete.                         *)
(***************************************************************************)
CONSTANT Rows

VARIABLES
    contents,    \* the rows a query counts
    inserted,    \* the rows whose insert has returned
    erased,      \* the rows a delete has found and erased
    loose        \* the rows nothing is promised about

vars == <<contents, inserted, erased, loose>>

Init ==
    /\ contents \in SUBSET Rows
    /\ inserted = contents
    /\ erased = {} /\ loose = {}

Insert(B) ==
    /\ B \cap inserted = {}
    /\ inserted' = inserted \cup B
    /\ contents' = contents \cup B
    /\ UNCHANGED <<erased, loose>>

Delete(r) ==
    /\ erased' = erased \cup {r}
    /\ contents' = contents \ {r}
    /\ UNCHANGED <<inserted, loose>>

\* An insert that a compaction overtook: what becomes of B is open.
InsertOvertaken(B) ==
    /\ B \cap inserted = {}
    /\ inserted' = inserted \cup B
    /\ loose' = loose \cup B
    /\ contents' \ loose' = contents \ loose'
    /\ UNCHANGED erased

DeleteOvertaken(r) ==
    /\ erased' = erased \cup {r}
    /\ loose' = loose \cup {r}
    /\ contents' \ loose' = contents \ loose'
    /\ UNCHANGED inserted

\* Reorganising the storage moves loose rows at most.
Reorganise ==
    /\ contents' \ loose = contents \ loose
    /\ UNCHANGED <<inserted, erased, loose>>

Next ==
    \/ \E B \in SUBSET Rows : Insert(B) \/ InsertOvertaken(B)
    \/ \E r \in Rows : Delete(r) \/ DeleteOvertaken(r)
    \/ Reorganise

Spec == Init /\ [][Next]_vars
=============================================================================
