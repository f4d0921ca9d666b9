------------------------------ MODULE LsmStore ------------------------------
(***************************************************************************)
(* One table of the LSM store: the MetadataRegistry that publishes its     *)
(* TableState, the memtables and persisted row groups that states point    *)
(* to, client threads that insert batches, delete rows and compact by      *)
(* hand, and the PromotionDaemon thread that compacts when the active      *)
(* memtable grows past a threshold.                                        *)
(*                                                                         *)
(* Every thread works on a TableState it read from the registry (line      *)
(* GetTableState) and goes on using it after the registry mutex is         *)
(* released; the steps below are cut at those points.                      *)
(*                                                                         *)
(* Memtables are heap objects numbered in allocation order.  A row group   *)
(* built by a compaction takes the number of the memtable which the same   *)
(* compaction allocated, so both heaps share one counter.  Order of rows   *)
(* in a container is abstracted: a container is a set of rows, and the     *)
(* global row index a caller hands to DeleteRow is the row it designates.  *)
(***************************************************************************)
EXTENDS Naturals, FiniteSets

CONSTANTS
    Rows,        \* the rows clients may insert, each at most once
    Preloaded,   \* rows in a persisted row group when the history begins
    Clients,     \* threads calling InsertBatch and DeleteRow
    Manual,      \* the clients that also call TriggerCompaction themselves
    Registrars,  \* the clients that call RegisterTable again
    Daemon,      \* the PromotionDaemon's worker thread
    Threshold,   \* memory_threshold_, counted in rows
    MaxMem       \* bound: memtables allocated over the whole history

ASSUME RowsAssumption == Preloaded \subseteq Rows
ASSUME ThreadsAssumption ==
    /\ Manual \subseteq Clients
    /\ Registrars \subseteq Clients
    /\ Daemon \notin Clients
ASSUME BoundsAssumption ==
    /\ Threshold \in Nat
    /\ MaxMem \in Nat \ {0}

VARIABLES
    registry,    \* tables_[name]: the published TableState
    nmem,        \* memtables allocated so far
    mem,         \* memtable -> its rows
    groupRows,   \* row group -> the rows it was built from
    alive,       \* row group -> the rows whose delete_mask bit is still set
    pc,          \* thread -> where it is
    st,          \* thread -> the TableState it read or built
    arg,         \* thread -> the batch it inserts, or the row it deletes
    todo,        \* compacting thread -> persisted rows not scanned yet
    got,         \* compacting thread -> rows it has collected
    running      \* running_ of the PromotionDaemon

\* History of the callers, not part of the code.
VARIABLES
    acked,       \* rows whose InsertBatch returned
    late,        \* rows appended to a memtable nobody will read again
    erased,      \* rows whose delete_mask bit some DeleteRow cleared
    raced        \* rows erased too late for a compaction or for the registry

heap == <<nmem, mem, groupRows, alive>>
local == <<st, arg, todo, got>>
history == <<acked, late, erased, raced>>
vars == <<registry, heap, pc, local, running, history>>

Threads == Clients \cup {Daemon}
Compactors == Manual \cup {Daemon}
MemIds == 1..MaxMem
NoMem == 0                                       \* a null memtable pointer

TableState == [groups : SUBSET MemIds, active : MemIds,
               frozen : MemIds \cup {NoMem}, version : Nat]

\* What st holds for a thread that holds no state.
NoState == [groups |-> {}, active |-> 1, frozen |-> NoMem, version |-> 0]

Home(t) == IF t = Daemon THEN "wait" ELSE "idle"

Stored(s) == UNION {groupRows[g] : g \in s.groups}
Surviving(s) == UNION {alive[g] : g \in s.groups}
FrozenRows(s) == IF s.frozen = NoMem THEN {} ELSE mem[s.frozen]

\* The rows a query of state s would count.
Visible(s) == Surviving(s) \cup mem[s.active] \cup FrozenRows(s)

\* The bound leaves room for a memtable more, beside those which the threads
\* about to freeze will allocate.
Room ==
    /\ nmem < MaxMem
    /\ nmem + Cardinality({t \in Threads : pc[t] = "freeze"}) < MaxMem

\* Rows that some insert has already been called with.
Issued == {r \in Rows : \/ \E m \in MemIds : r \in mem[m] \cup groupRows[m]
                        \/ \E t \in Threads : pc[t] = "append" /\ r \in arg[t]}
-----------------------------------------------------------------------------
Init ==
    /\ registry = [groups  |-> IF Preloaded = {} THEN {} ELSE {1},
                   active  |-> 1,
                   frozen  |-> NoMem,
                   version |-> IF Preloaded = {} THEN 1 ELSE 2]
    /\ nmem = 1
    /\ mem = [m \in MemIds |-> {}]
    /\ groupRows = [g \in MemIds |-> IF g = 1 THEN Preloaded ELSE {}]
    /\ alive = groupRows
    /\ pc = [t \in Threads |-> IF t = Daemon THEN "off" ELSE "idle"]
    /\ st = [t \in Threads |-> NoState]
    /\ arg = [t \in Threads |-> {}]
    /\ todo = [t \in Threads |-> {}]
    /\ got = [t \in Threads |-> {}]
    /\ running = FALSE
    /\ acked = Preloaded
    /\ late = {}
    /\ erased = {}
    /\ raced = {}

\* RegisterTable on a name that is already there replaces the whole state.
RegisterTable(t) ==
    /\ pc[t] = "idle"
    /\ Room
    /\ nmem' = nmem + 1
    /\ registry' = [groups |-> {}, active |-> nmem + 1,
                    frozen |-> NoMem, version |-> 1]
    /\ UNCHANGED <<mem, groupRows, alive, pc, local, running, history>>
-----------------------------------------------------------------------------
(* InsertBatch: read the state, then append to its active memtable. *)

BeginInsert(t, B) ==
    /\ pc[t] = "idle"
    /\ B \cap Issued = {}
    /\ pc' = [pc EXCEPT ![t] = "append"]
    /\ st' = [st EXCEPT ![t] = registry]
    /\ arg' = [arg EXCEPT ![t] = B]
    /\ UNCHANGED <<registry, heap, todo, got, running, history>>

\* A memtable whose rows are read again: the active one, or the frozen one
\* as long as no compaction has taken its copy of the batches.
StillRead(m) ==
    \/ m = registry.active
    \/ /\ m = registry.frozen
       /\ \A c \in Compactors : ~(pc[c] = "install" /\ st[c].frozen = m)

AppendBatch(t) ==
    /\ pc[t] = "append"
    /\ mem' = [mem EXCEPT ![st[t].active] = @ \cup arg[t]]
    /\ acked' = acked \cup arg[t]
    /\ late' = IF StillRead(st[t].active) THEN late ELSE late \cup arg[t]
    /\ pc' = [pc EXCEPT ![t] = "idle"]
    /\ st' = [st EXCEPT ![t] = NoState]
    /\ arg' = [arg EXCEPT ![t] = {}]
    /\ UNCHANGED <<registry, nmem, groupRows, alive, todo, got, running,
                   erased, raced>>
-----------------------------------------------------------------------------
(* DeleteRow: read the state, then walk its persisted groups under the     *)
(* registry mutex.                                                         *)

BeginDelete(t, r) ==
    /\ pc[t] = "idle"
    /\ r \in Stored(registry) \cup Visible(registry)
    /\ pc' = [pc EXCEPT ![t] = "delete"]
    /\ st' = [st EXCEPT ![t] = registry]
    /\ arg' = [arg EXCEPT ![t] = {r}]
    /\ UNCHANGED <<registry, heap, todo, got, running, history>>

\* Nobody will look at the mask bit of r in the groups of s again: they have
\* been replaced, or a compaction that is replacing them has scanned r.
TooLate(s, r) ==
    \/ \A g \in s.groups \cap registry.groups : r \notin alive[g]
    \/ \E c \in Compactors : pc[c] \in {"scan", "install"} /\ r \notin todo[c]

ClearBit(t) ==
    LET hit == arg[t] \cap Surviving(st[t])
    IN  /\ pc[t] = "delete"
        /\ alive' = [g \in MemIds |-> IF g \in st[t].groups
                                      THEN alive[g] \ arg[t] ELSE alive[g]]
        /\ erased' = erased \cup hit
        /\ raced' = raced \cup {r \in hit : TooLate(st[t], r)}
        /\ pc' = [pc EXCEPT ![t] = "idle"]
        /\ st' = [st EXCEPT ![t] = NoState]
        /\ arg' = [arg EXCEPT ![t] = {}]
        /\ UNCHANGED <<registry, nmem, mem, groupRows, todo, got, running,
                       acked, late>>
-----------------------------------------------------------------------------
(* TriggerCompaction. *)

BeginCompact(t) ==
    /\ pc[t] = "idle"
    /\ Room
    /\ pc' = [pc EXCEPT ![t] = "freeze"]
    /\ st' = [st EXCEPT ![t] = registry]
    /\ UNCHANGED <<registry, heap, arg, todo, got, running, history>>

NothingToCompact(s) == mem[s.active] = {} /\ s.groups = {}

SkipCompact(t) ==
    /\ pc[t] = "freeze"
    /\ NothingToCompact(st[t])
    /\ pc' = [pc EXCEPT ![t] = Home(t)]
    /\ st' = [st EXCEPT ![t] = NoState]
    /\ UNCHANGED <<registry, heap, arg, todo, got, running, history>>

\* Mutant: the new active memtable is forgotten.
FreezeStateNoActive(s) == [groups |-> s.groups, active |-> NoMem,
                           frozen |-> s.active, version |-> s.version + 1]

\* Mutant: the old active memtable is not kept as the frozen one.
FreezeStateNoFrozen(s) == [groups |-> s.groups, active |-> nmem + 1,
                           frozen |-> NoMem, version |-> s.version + 1]

\* freeze_state: the active memtable of s becomes the frozen one.
FreezeState(s) == [groups  |-> s.groups,
                   active  |-> nmem + 1,
                   frozen  |-> s.active,
                   version |-> s.version + 1]

Freeze(t) ==
    /\ pc[t] = "freeze"
    /\ ~NothingToCompact(st[t])
    /\ nmem < MaxMem
    /\ nmem' = nmem + 1
    /\ registry' = FreezeState(st[t])
    /\ st' = [st EXCEPT ![t] = FreezeState(st[t])]
    /\ todo' = [todo EXCEPT ![t] = Stored(st[t])]
    /\ got' = [got EXCEPT ![t] = {}]
    /\ pc' = [pc EXCEPT ![t] = "scan"]
    /\ UNCHANGED <<mem, groupRows, alive, arg, running, history>>

\* Mutant: the scan does not look at the delete mask.
ScanBlockUnmasked(t, K) ==
    /\ pc[t] = "scan"
    /\ K # {}
    /\ got' = [got EXCEPT ![t] = @ \cup K]
    /\ todo' = [todo EXCEPT ![t] = @ \ K]
    /\ UNCHANGED <<registry, heap, pc, st, arg, running, history>>

\* The scan reads the delete mask of one block of rows at a time, without
\* the registry mutex.  Which rows share a block is left open.
ScanBlock(t, K) ==
    /\ pc[t] = "scan"
    /\ K # {}
    /\ got' = [got EXCEPT ![t] = @ \cup (K \cap Surviving(st[t]))]
    /\ todo' = [todo EXCEPT ![t] = @ \ K]
    /\ UNCHANGED <<registry, heap, pc, st, arg, running, history>>

\* Mutant: the rows of the frozen memtable are not copied.
CopyFrozenNothing(t) ==
    /\ pc[t] = "scan"
    /\ todo[t] = {}
    /\ pc' = [pc EXCEPT ![t] = "install"]
    /\ UNCHANGED <<registry, heap, st, arg, todo, got, running, history>>

CopyFrozen(t) ==
    /\ pc[t] = "scan"
    /\ todo[t] = {}
    /\ got' = [got EXCEPT ![t] = @ \cup FrozenRows(st[t])]
    /\ pc' = [pc EXCEPT ![t] = "install"]
    /\ UNCHANGED <<registry, heap, st, arg, todo, running, history>>

\* Mutant: the frozen memtable is not cleared.
CompactStateKeepsFrozen(s, R) ==
    [groups |-> IF R = {} THEN {} ELSE {s.active}, active |-> s.active,
     frozen |-> s.frozen, version |-> s.version + 1]

\* compact_state: the collected rows replace groups and frozen memtable.
CompactState(s, R) == [groups  |-> IF R = {} THEN {} ELSE {s.active},
                       active  |-> s.active,
                       frozen  |-> NoMem,
                       version |-> s.version + 1]

\* Mutant: the memtable that was frozen is cleared (MemTable::Clear).
InstallClears(t) ==
    /\ pc[t] = "install"
    /\ mem' = [mem EXCEPT ![st[t].frozen] = {}]
    /\ groupRows' = [groupRows EXCEPT ![st[t].active] = got[t]]
    /\ alive' = [alive EXCEPT ![st[t].active] = got[t]]
    /\ registry' = CompactState(st[t], got[t])
    /\ pc' = [pc EXCEPT ![t] = Home(t)]
    /\ st' = [st EXCEPT ![t] = NoState]
    /\ got' = [got EXCEPT ![t] = {}]
    /\ UNCHANGED <<nmem, arg, todo, running, history>>

Install(t) ==
    /\ pc[t] = "install"
    /\ groupRows' = [groupRows EXCEPT ![st[t].active] = got[t]]
    /\ alive' = [alive EXCEPT ![st[t].active] = got[t]]
    /\ registry' = CompactState(st[t], got[t])
    /\ pc' = [pc EXCEPT ![t] = Home(t)]
    /\ st' = [st EXCEPT ![t] = NoState]
    /\ got' = [got EXCEPT ![t] = {}]
    /\ UNCHANGED <<nmem, mem, arg, todo, running, history>>
-----------------------------------------------------------------------------
(* The daemon thread. *)

StartDaemon ==
    /\ pc[Daemon] = "off"
    /\ running' = TRUE
    /\ pc' = [pc EXCEPT ![Daemon] = "wait"]
    /\ UNCHANGED <<registry, heap, local, history>>

\* Stop clears the flag and then joins the thread (DaemonExit).
StopDaemon ==
    /\ running
    /\ running' = FALSE
    /\ UNCHANGED <<registry, heap, pc, local, history>>

DaemonExit ==
    /\ pc[Daemon] = "wait"
    /\ ~running
    /\ pc' = [pc EXCEPT ![Daemon] = "off"]
    /\ UNCHANGED <<registry, heap, local, running, history>>

\* Mutant: the loop does not look at running_ after waking up.
DaemonPeekUnchecked ==
    /\ pc[Daemon] = "wait"
    /\ pc' = [pc EXCEPT ![Daemon] = "size"]
    /\ st' = [st EXCEPT ![Daemon] = registry]
    /\ UNCHANGED <<registry, heap, arg, todo, got, running, history>>

DaemonPeek ==
    /\ pc[Daemon] = "wait"
    /\ running
    /\ pc' = [pc EXCEPT ![Daemon] = "size"]
    /\ st' = [st EXCEPT ![Daemon] = registry]
    /\ UNCHANGED <<registry, heap, arg, todo, got, running, history>>

OverThreshold(m) == Cardinality(mem[m]) >= Threshold

\* Mutant: the size of the frozen memtable is compared with the threshold.
DaemonDecideFrozen ==
    /\ pc[Daemon] = "size"
    /\ IF /\ st[Daemon].frozen # NoMem
          /\ OverThreshold(st[Daemon].frozen)
          /\ Room
       THEN /\ pc' = [pc EXCEPT ![Daemon] = "freeze"]
            /\ st' = [st EXCEPT ![Daemon] = registry]
       ELSE /\ pc' = [pc EXCEPT ![Daemon] = "wait"]
            /\ st' = [st EXCEPT ![Daemon] = NoState]
    /\ UNCHANGED <<registry, heap, arg, todo, got, running, history>>

\* Past the threshold TriggerCompaction starts, which reads the state anew.
\* The bound MaxMem stands in the guard: at the bound the daemon idles.
DaemonDecide ==
    /\ pc[Daemon] = "size"
    /\ IF OverThreshold(st[Daemon].active) /\ Room
       THEN /\ pc' = [pc EXCEPT ![Daemon] = "freeze"]
            /\ st' = [st EXCEPT ![Daemon] = registry]
       ELSE /\ pc' = [pc EXCEPT ![Daemon] = "wait"]
            /\ st' = [st EXCEPT ![Daemon] = NoState]
    /\ UNCHANGED <<registry, heap, arg, todo, got, running, history>>
-----------------------------------------------------------------------------
Compaction(t) ==
    \/ SkipCompact(t)
    \/ Freeze(t)
    \/ \E K \in SUBSET todo[t] : ScanBlock(t, K)
    \/ CopyFrozen(t)
    \/ Install(t)

\* What a client thread does once it has entered a call.
ClientStep(t) == AppendBatch(t) \/ ClearBit(t)

ClientCall(t) ==
    \/ \E B \in SUBSET Rows \ {{}} : BeginInsert(t, B)
    \/ \E r \in Rows : BeginDelete(t, r)

DaemonLoop == DaemonPeek \/ DaemonDecide \/ DaemonExit

Next ==
    \/ \E t \in Clients : ClientCall(t) \/ ClientStep(t)
    \/ \E t \in Manual : BeginCompact(t)
    \/ \E t \in Registrars : RegisterTable(t)
    \/ \E t \in Compactors : Compaction(t)
    \/ StartDaemon
    \/ StopDaemon
    \/ DaemonLoop

Spec == Init /\ [][Next]_vars

\* The scheduler runs every thread that has something to do; it forces no
\* caller to start a new call, and no owner to start or stop the daemon.
Fairness ==
    /\ \A t \in Clients : WF_vars(ClientStep(t))
    /\ \A t \in Compactors : WF_vars(Compaction(t))
    /\ WF_vars(DaemonLoop)

FairSpec == Spec /\ Fairness
-----------------------------------------------------------------------------
\* The variables keep their types; the active memtable is never null.
TypeOK ==
    /\ registry \in TableState
    /\ nmem \in MemIds
    /\ mem \in [MemIds -> SUBSET Rows]
    /\ groupRows \in [MemIds -> SUBSET Rows]
    /\ alive \in [MemIds -> SUBSET Rows]
    /\ pc \in [Threads -> {"idle", "append", "delete", "freeze", "scan",
                           "install", "off", "wait", "size"}]
    /\ st \in [Threads -> TableState]
    /\ arg \in [Threads -> SUBSET Rows]
    /\ todo \in [Threads -> SUBSET Rows]
    /\ got \in [Threads -> SUBSET Rows]
    /\ running \in BOOLEAN
    /\ {acked, late, erased, raced} \subseteq SUBSET Rows

\* No row is in two containers of one TableState, be it the published state
\* or a state some thread still works on, whatever the number of concurrent
\* compactions: a query that adds up groups and memtables counts no row
\* twice, and a compaction copies none twice.
CountsOnce(s) ==
    /\ \A g, h \in s.groups : g # h => groupRows[g] \cap groupRows[h] = {}
    /\ Stored(s) \cap mem[s.active] = {}
    /\ Stored(s) \cap FrozenRows(s) = {}
    /\ mem[s.active] \cap FrozenRows(s) = {}

NoRowTwice == CountsOnce(registry) /\ \A t \in Threads : CountsOnce(st[t])

\* Why NoRowTwice holds (its inductive strengthening).  A batch is in one
\* memtable only, and the rows a state's groups hold come from memtables older
\* than its frozen and its active one.
Older(m) == Preloaded \cup UNION {mem[k] : k \in {j \in MemIds : j < m}}

MemTablesDisjoint ==
    /\ \A m, n \in MemIds : m # n => mem[m] \cap mem[n] = {}
    /\ \A m \in MemIds : mem[m] \cap Preloaded = {}
    /\ groupRows[1] = Preloaded

BatchesFresh ==
    \A t \in Threads : pc[t] = "append" =>
        /\ arg[t] \cap Preloaded = {}
        /\ \A m \in MemIds : arg[t] \cap mem[m] = {}
        /\ \A u \in Threads \ {t} : pc[u] = "append" => arg[t] \cap arg[u] = {}

\* One persisted group at most, older than the frozen memtable, which is older
\* than the active one.
Ordered(s) ==
    /\ s.active <= nmem
    /\ \A g, h \in s.groups : g = h
    /\ \A g \in s.groups : g <= s.active
    /\ s.frozen # NoMem =>
          s.frozen < s.active /\ \A g \in s.groups : g <= s.frozen

StatesOrdered == Ordered(registry) /\ \A t \in Threads : Ordered(st[t])

GroupsAreOlder ==
    \A g \in MemIds : groupRows[g] \subseteq Older(g) /\ alive[g] \subseteq groupRows[g]

CompactionsAreOlder ==
    \A t \in Compactors : pc[t] \in {"scan", "install"} =>
        /\ st[t].frozen # NoMem
        /\ got[t] \subseteq Older(st[t].active)

LineageInv ==
    /\ MemTablesDisjoint
    /\ BatchesFresh
    /\ StatesOrdered
    /\ GroupsAreOlder
    /\ CompactionsAreOlder

\* An insert that returned is not undone by a freeze or a compaction, unless
\* its batch went to a memtable that had already been copied: the freeze
\* "keeps incoming writes in active" (TriggerCompaction).
AckedRowsSurvive == acked \ (late \cup erased) \subseteq Visible(registry)

\* A row whose mask bit DeleteRow cleared in time does not come back with the
\* row group that a compaction builds.
ErasedRowsStayAway == (erased \ raced) \cap Visible(registry) = {}

\* Nobody but the daemon compacts, and the table is registered once.
DaemonOnly == Manual = {} /\ Registrars = {}

\* Why AckedRowsSurvive, ErasedRowsStayAway and ImplementsContract hold when
\* the daemon is the only thread that publishes states: what it has collected
\* agrees with the published state on every row that lost no race.
Harvested ==
    LET d == Daemon IN
    /\ pc[d] \in {"freeze", "scan", "install"} => registry = st[d]
    /\ pc[d] \notin {"scan", "install"} => registry.frozen = NoMem /\ got[d] = {}
    /\ pc[d] = "scan" =>
          got[d] \ raced = Surviving(registry) \ (todo[d] \cup raced)
    /\ pc[d] = "install" => todo[d] = {}
    /\ pc[d] = "install" =>
          got[d] \ (late \cup raced)
              = (Surviving(registry) \cup FrozenRows(registry)) \ (late \cup raced)

\* Late rows reach no row group.
LateRowsStayBehind ==
    /\ late \cap mem[registry.active] = {}
    /\ pc[Daemon] # "install" => late \cap FrozenRows(registry) = {}
    /\ late \cap got[Daemon] = {}
    /\ \A g \in MemIds : late \cap groupRows[g] = {}

HistoryInv ==
    /\ raced \subseteq erased /\ late \subseteq acked
    /\ acked \cup erased \subseteq Preloaded \cup UNION {mem[m] : m \in MemIds}
    /\ \A m \in MemIds : m > nmem => mem[m] = {}
    /\ \A t \in Threads : pc[t] = "delete" => \E r \in Rows : arg[t] = {r}

SoleCompactorInv ==
    /\ Harvested
    /\ LateRowsStayBehind
    /\ HistoryInv
    /\ AckedRowsSurvive
    /\ ErasedRowsStayAway

\* The store implements the table its callers expect, up to the rows whose
\* insert or delete a compaction overtook.
Contract == INSTANCE TableContract
            WITH contents <- Visible(registry), inserted <- acked,
                 loose <- late \cup raced
ImplementsContract == Contract!Spec

\* What the comment on InsertBatch's freeze says without the exception: writes
\* that come in while a compaction runs are kept.
IncomingWritesKept == acked \ erased \subseteq Visible(registry)

\* A memtable with rows that is past the threshold is frozen sooner or later
\* while the daemon runs (up to the bound on memtables): its loop misses no
\* growth.
FullMemTableIsFrozen ==
    \A m \in MemIds :
        (running /\ registry.active = m /\ OverThreshold(m) /\ mem[m] # {})
            ~> (~running \/ registry.active # m \/ ~Room)

\* Stop, which joins the worker after clearing the flag, returns.
StopReturns == ~running ~> pc[Daemon] = "off"
=============================================================================
