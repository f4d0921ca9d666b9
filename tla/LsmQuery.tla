------------------------------ MODULE LsmQuery ------------------------------
(***************************************************************************)
(* Queries over the LSM store: a reader takes a TableState and runs        *)
(* QueryRunner on it, persisted row groups first, then the active          *)
(* memtable, then the frozen one, while writers, deleters and the          *)
(* compaction go on.  The predicate is abstracted: every row matches.      *)
(* LsmGlobal says where readers take their states from.                    *)
(***************************************************************************)
EXTENDS LsmStore

CONSTANT Readers    \* threads that run queries

ASSUME FiniteAssumption == IsFiniteSet(Rows)

VARIABLES
    qpc,      \* reader -> which part of the state it scans next
    qst,      \* reader -> the TableState it queries
    qtodo,    \* reader -> persisted rows not scanned yet
    qgot,     \* reader -> the rows it has counted
    count,    \* reader -> total_matches
    \* History: what held when the query began.
    qpast,    \* reader -> rows that had been appended somewhere
    qshown    \* reader -> rows the state it queries showed

readers == <<qpc, qst, qtodo, qgot, count, qpast, qshown>>

Appended == Preloaded \cup UNION {mem[m] : m \in MemIds}

QueryInit ==
    /\ qpc = [q \in Readers |-> "idle"]
    /\ qst = [q \in Readers |-> NoState]
    /\ qtodo = [q \in Readers |-> {}]
    /\ qgot = [q \in Readers |-> {}]
    /\ count = [q \in Readers |-> 0]
    /\ qpast = [q \in Readers |-> {}]
    /\ qshown = [q \in Readers |-> {}]

\* The reader has got state s and begins at where.
TakeState(q, s, where) ==
    /\ qpc[q] = "idle"
    /\ qpc' = [qpc EXCEPT ![q] = where]
    /\ qst' = [qst EXCEPT ![q] = s]
    /\ qtodo' = [qtodo EXCEPT ![q] = Stored(s)]
    /\ qpast' = [qpast EXCEPT ![q] = Appended]
    /\ qshown' = [qshown EXCEPT ![q] = Visible(s)]
    /\ UNCHANGED <<qgot, count>>

BeginQuery(q) == TakeState(q, registry, "groups")

Counted(q, R) ==
    /\ qgot' = [qgot EXCEPT ![q] = @ \cup R]
    /\ count' = [count EXCEPT ![q] = @ + Cardinality(R)]

\* One block of a persisted row group; its delete mask is read unlocked.
QueryBlock(q, K) ==
    /\ qpc[q] = "groups"
    /\ K # {}
    /\ Counted(q, K \cap Surviving(qst[q]))
    /\ qtodo' = [qtodo EXCEPT ![q] = @ \ K]
    /\ UNCHANGED <<qpc, qst, qpast, qshown>>

QueryActive(q) ==
    /\ qpc[q] = "groups"
    /\ qtodo[q] = {}
    /\ Counted(q, mem[qst[q].active])
    /\ qpc' = [qpc EXCEPT ![q] = "frozen"]
    /\ UNCHANGED <<qst, qtodo, qpast, qshown>>

\* Mutant: the frozen memtable is taken from the registry of the moment.
QueryFrozenLive(q) ==
    /\ qpc[q] = "frozen"
    /\ Counted(q, FrozenRows(registry))
    /\ qpc' = [qpc EXCEPT ![q] = "done"]
    /\ UNCHANGED <<qst, qtodo, qpast, qshown>>

QueryFrozen(q) ==
    /\ qpc[q] = "frozen"
    /\ Counted(q, FrozenRows(qst[q]))
    /\ qpc' = [qpc EXCEPT ![q] = "done"]
    /\ UNCHANGED <<qst, qtodo, qpast, qshown>>

EndQuery(q) ==
    /\ qpc[q] \in {"done", "empty"}
    /\ qpc' = [qpc EXCEPT ![q] = "idle"]
    /\ qst' = [qst EXCEPT ![q] = NoState]
    /\ qtodo' = [qtodo EXCEPT ![q] = {}]
    /\ qgot' = [qgot EXCEPT ![q] = {}]
    /\ count' = [count EXCEPT ![q] = 0]
    /\ qpast' = [qpast EXCEPT ![q] = {}]
    /\ qshown' = [qshown EXCEPT ![q] = {}]

Query(q) ==
    \/ BeginQuery(q)
    \/ \E K \in SUBSET qtodo[q] : QueryBlock(q, K)
    \/ QueryActive(q)
    \/ QueryFrozen(q)
    \/ EndQuery(q)
-----------------------------------------------------------------------------
\* The total a query returns counts each row once, whatever was inserted,
\* frozen, compacted and synchronized while it ran over the live memtables of
\* its state.
TotalCountsRowsOnce == \A q \in Readers : count[q] = Cardinality(qgot[q])

\* Of the rows appended before it began, a finished query has counted those
\* which its state showed then, except that it may miss one deleted
\* meanwhile: no freeze, installation, registration or synchronization takes
\* a row from under it or brings one back.  Where the server answered zeros
\* because the state looked empty, it missed rows of a frozen memtable only.
QueryAnswersItsPast ==
    \A q \in Readers :
        /\ qgot[q] \cap qpast[q] \subseteq qshown[q]
        /\ qpc[q] = "done" => qshown[q] \ erased \subseteq qgot[q]
        /\ qpc[q] = "empty" => qshown[q] \ erased \subseteq FrozenRows(qst[q])
=============================================================================
