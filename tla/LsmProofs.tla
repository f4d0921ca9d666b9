------------------------------ MODULE LsmProofs ------------------------------
(***************************************************************************)
(* What holds of the tables and of the queries over them, for every number *)
(* of rows, clients, threads, operators, readers and memtables: first of   *)
(* LsmStore, the registry with its writers and compactors, then of         *)
(* LsmGlobal, the two maps of TableStates.                                 *)
(***************************************************************************)
EXTENDS LsmGlobal, FiniteSetTheorems, TLAPS

LEMMA InitTypeOK == Init => TypeOK
<1> SUFFICES ASSUME Init PROVE TypeOK
  OBVIOUS
<1> USE RowsAssumption, ThreadsAssumption, BoundsAssumption
<1>1. 1 \in MemIds
  BY DEF MemIds
<1>2. registry \in TableState /\ NoState \in TableState
  BY <1>1 DEF Init, TableState, NoState, NoMem
<1>3. QED
  BY <1>1, <1>2 DEF Init, TypeOK, Threads

LEMMA StatesTyped ==
  ASSUME TypeOK
  PROVE  /\ \A t \in Threads : st[t] \in TableState
         /\ \A s \in TableState : /\ Stored(s) \subseteq Rows
                                  /\ Surviving(s) \subseteq Rows
                                  /\ FrozenRows(s) \subseteq Rows
  BY DEF TypeOK, TableState, Stored, Surviving, FrozenRows, NoMem

LEMMA NoStateTyped == NoState \in TableState
  BY BoundsAssumption DEF NoState, TableState, MemIds, NoMem

LEMMA NextTypeOK == TypeOK /\ [Next]_vars => TypeOK'
<1> SUFFICES ASSUME TypeOK, [Next]_vars PROVE TypeOK'
  OBVIOUS
<1> USE NoStateTyped, StatesTyped DEF heap, local, history
<1>1. ASSUME NEW t \in Clients, ClientCall(t) PROVE TypeOK'
  <2>1. ASSUME NEW B \in SUBSET Rows \ {{}}, BeginInsert(t, B) PROVE TypeOK'
    BY <2>1 DEF BeginInsert, TypeOK, Threads
  <2>2. ASSUME NEW r \in Rows, BeginDelete(t, r) PROVE TypeOK'
    BY <2>2 DEF BeginDelete, TypeOK, Threads
  <2>3. QED
    BY <1>1, <2>1, <2>2 DEF ClientCall
<1>2. ASSUME NEW t \in Clients, ClientStep(t) PROVE TypeOK'
  <2>1. CASE AppendBatch(t)
    BY <2>1 DEF AppendBatch, TypeOK, Threads
  <2>2. CASE ClearBit(t)
    BY <2>2 DEF ClearBit, TypeOK, Threads
  <2>3. QED
    BY <1>2, <2>1, <2>2 DEF ClientStep
<1>3. ASSUME NEW t \in Manual, BeginCompact(t) PROVE TypeOK'
  BY <1>3, ThreadsAssumption DEF BeginCompact, TypeOK, Threads
<1>4. ASSUME NEW t \in Registrars, RegisterTable(t) PROVE TypeOK'
  <2>1. nmem + 1 \in MemIds
    BY <1>4, BoundsAssumption DEF RegisterTable, Room, TypeOK, MemIds
  <2>2. registry' \in TableState
    BY <1>4, <2>1 DEF RegisterTable, TableState, NoMem
  <2>3. QED
    BY <1>4, <2>1, <2>2 DEF RegisterTable, TypeOK
<1>5. ASSUME NEW t \in Compactors, Compaction(t) PROVE TypeOK'
  <2> t \in Threads
    BY ThreadsAssumption DEF Compactors, Threads
  <2>1. CASE SkipCompact(t)
    BY <2>1 DEF SkipCompact, TypeOK, Home
  <2>2. CASE Freeze(t)
    <3>1. nmem + 1 \in MemIds
      BY <2>2, BoundsAssumption DEF Freeze, TypeOK, MemIds
    <3>2. FreezeState(st[t]) \in TableState
      BY <3>1 DEF FreezeState, TableState, TypeOK
    <3>3. QED
      BY <2>2, <3>1, <3>2 DEF Freeze, TypeOK
  <2>3. ASSUME NEW K \in SUBSET todo[t], ScanBlock(t, K) PROVE TypeOK'
    BY <2>3 DEF ScanBlock, TypeOK
  <2>4. CASE CopyFrozen(t)
    BY <2>4 DEF CopyFrozen, TypeOK
  <2>5. CASE Install(t)
    <3>1. CompactState(st[t], got[t]) \in TableState
      BY DEF CompactState, TableState, TypeOK
    <3>2. QED
      BY <2>5, <3>1 DEF Install, TypeOK, Home
  <2>6. QED
    BY <1>5, <2>1, <2>2, <2>3, <2>4, <2>5 DEF Compaction
<1>6. CASE StartDaemon
  BY <1>6 DEF StartDaemon, TypeOK
<1>7. CASE StopDaemon
  BY <1>7 DEF StopDaemon, TypeOK
<1>8. CASE DaemonLoop
  BY <1>8 DEF DaemonLoop, DaemonPeek, DaemonDecide, DaemonExit, TypeOK, Threads
<1>9. CASE UNCHANGED vars
  BY <1>9 DEF vars, TypeOK
<1>10. QED
  BY <1>1, <1>2, <1>3, <1>4, <1>5, <1>6, <1>7, <1>8, <1>9 DEF Next

\* Every variable keeps its type: in particular every TableState that is
\* published points to an allocated active memtable.
THEOREM TypeCorrect == Spec => []TypeOK
<1>1. QED
  BY InitTypeOK, NextTypeOK, PTL DEF Spec
-----------------------------------------------------------------------------
(* No row is in two places of one state.                                   *)

LEMMA OrderedCountsOnce ==
  ASSUME TypeOK, LineageInv, NEW s \in TableState, Ordered(s)
  PROVE  CountsOnce(s)
<1> USE DEF LineageInv
<1>1. s.active \in MemIds /\ s.groups \subseteq MemIds
      /\ s.frozen \in MemIds \cup {NoMem}
  BY DEF TableState
<1>2. ASSUME NEW m \in MemIds, NEW g \in s.groups, g <= m
      PROVE  groupRows[g] \cap mem[m] = {}
  <2>1. groupRows[g] \subseteq Older(g)
    BY <1>1 DEF GroupsAreOlder
  <2>2. \A j \in MemIds : j < g => j # m
    BY <1>1, <1>2 DEF MemIds
  <2>3. Older(g) \cap mem[m] = {}
    BY <2>2 DEF Older, MemTablesDisjoint
  <2>4. QED
    BY <2>1, <2>3
<1>3. Stored(s) \cap mem[s.active] = {}
  BY <1>1, <1>2 DEF Stored, Ordered
<1>4. Stored(s) \cap FrozenRows(s) = {}
  BY <1>1, <1>2 DEF Stored, Ordered, FrozenRows
<1>5. mem[s.active] \cap FrozenRows(s) = {}
  BY <1>1 DEF Ordered, FrozenRows, MemTablesDisjoint, MemIds, NoMem
<1>6. QED
  BY <1>3, <1>4, <1>5 DEF CountsOnce, Ordered

LEMMA LineageCountsOnce == TypeOK /\ LineageInv => NoRowTwice
<1> SUFFICES ASSUME TypeOK, LineageInv PROVE NoRowTwice
  OBVIOUS
<1>1. registry \in TableState /\ \A t \in Threads : st[t] \in TableState
  BY DEF TypeOK
<1>2. QED
  BY <1>1, OrderedCountsOnce DEF LineageInv, NoRowTwice, StatesOrdered

LEMMA InitLineage == Init => LineageInv
<1> SUFFICES ASSUME Init PROVE LineageInv
  OBVIOUS
<1>1. MemTablesDisjoint
  BY BoundsAssumption DEF Init, MemTablesDisjoint, MemIds
<1>2. BatchesFresh
  BY DEF Init, BatchesFresh
<1>3. StatesOrdered
  BY DEF Init, StatesOrdered, Ordered, NoState, NoMem
<1>4. GroupsAreOlder
  BY DEF Init, GroupsAreOlder, Older
<1>5. CompactionsAreOlder
  BY ThreadsAssumption DEF Init, CompactionsAreOlder, Compactors, Threads
<1>6. QED
  BY <1>1, <1>2, <1>3, <1>4, <1>5 DEF LineageInv

\* Steps that leave the heap, the batches and the compactions' harvest alone
\* keep the lineage when the states they publish or hand out are ordered.
LEMMA LineageFrame ==
  ASSUME TypeOK, LineageInv, UNCHANGED <<mem, groupRows>>,
         \A g \in MemIds : alive'[g] \subseteq alive[g],
         \A t \in Threads : pc'[t] = "append" =>
            pc[t] = "append" /\ arg'[t] = arg[t],
         \A t \in Compactors : pc'[t] \in {"scan", "install"} =>
            /\ pc[t] \in {"scan", "install"}
            /\ st'[t] = st[t]
            /\ got'[t] \subseteq got[t] \cup Stored(st[t]) \cup FrozenRows(st[t]),
         StatesOrdered'
  PROVE  LineageInv'
<1> USE DEF LineageInv
<1>1. \A m : Older(m)' = Older(m)
  BY DEF Older
<1>2. MemTablesDisjoint'
  BY DEF MemTablesDisjoint
<1>3. BatchesFresh'
  BY DEF BatchesFresh
<1>4. GroupsAreOlder'
  BY <1>1 DEF GroupsAreOlder
<1>5. CompactionsAreOlder'
  <2> SUFFICES ASSUME NEW t \in Compactors, pc'[t] \in {"scan", "install"}
               PROVE  /\ st'[t].frozen # NoMem
                      /\ got'[t] \subseteq Older(st[t].active)
    BY <1>1 DEF CompactionsAreOlder
  <2> DEFINE s == st[t]
  <2>1. t \in Threads /\ s \in TableState
    BY ThreadsAssumption DEF Compactors, Threads, TypeOK
  <2>2. Ordered(s) /\ s.frozen \in MemIds /\ s.active \in MemIds
        /\ s.groups \subseteq MemIds
    BY <2>1 DEF StatesOrdered, CompactionsAreOlder, TableState
  <2>3. FrozenRows(s) \subseteq Older(s.active)
    BY <2>2 DEF Ordered, FrozenRows, Older, NoMem, MemIds
  <2>4. ASSUME NEW g \in s.groups PROVE groupRows[g] \subseteq Older(s.active)
    <3>1. \A j \in MemIds : j < g => j < s.active
      BY <2>2 DEF Ordered, MemIds
    <3>2. QED
      BY <2>2, <3>1 DEF GroupsAreOlder, Older
  <2>5. Stored(s) \subseteq Older(s.active)
    BY <2>4 DEF Stored
  <2>6. got[t] \subseteq Older(s.active)
    BY DEF CompactionsAreOlder
  <2>7. QED
    BY <2>2, <2>3, <2>5, <2>6 DEF CompactionsAreOlder
<1>6. QED
  BY <1>2, <1>3, <1>4, <1>5

LEMMA NoStateOrdered == ASSUME TypeOK PROVE Ordered(NoState)
  BY DEF Ordered, NoState, NoMem, TypeOK, MemIds

LEMMA InsertLineage ==
  ASSUME TypeOK, LineageInv, NEW t \in Clients,
         NEW B \in SUBSET Rows, BeginInsert(t, B)
  PROVE  LineageInv'
<1> USE DEF LineageInv
<1>1. t \in Threads /\ t \notin {Daemon} /\ Compactors \subseteq Threads
  BY ThreadsAssumption DEF Threads, Compactors
<1>2. UNCHANGED <<registry, nmem, mem, groupRows, alive, todo, got>>
  BY DEF BeginInsert, heap
<1>3. pc' = [pc EXCEPT ![t] = "append"] /\ arg' = [arg EXCEPT ![t] = B]
      /\ st' = [st EXCEPT ![t] = registry]
  BY DEF BeginInsert
<1>4. \A m : Older(m)' = Older(m)
  BY <1>2 DEF Older
<1>5. MemTablesDisjoint' /\ GroupsAreOlder'
  BY <1>2, <1>4 DEF MemTablesDisjoint, GroupsAreOlder
<1>6. StatesOrdered'
  BY <1>1, <1>2, <1>3 DEF StatesOrdered, Ordered, TypeOK
<1>7. CompactionsAreOlder'
  BY <1>1, <1>2, <1>3, <1>4 DEF CompactionsAreOlder, TypeOK
<1>8. BatchesFresh'
  <2>1. B \cap Issued = {}
    BY DEF BeginInsert
  <2>2. \A m \in MemIds : B \cap mem[m] = {}
    BY <2>1 DEF Issued, TypeOK
  <2>3. B \cap Preloaded = {}
    <3>1. 1 \in MemIds
      BY BoundsAssumption DEF MemIds
    <3>2. groupRows[1] \subseteq Issued
      BY <3>1 DEF Issued, TypeOK
    <3>3. QED
      BY <2>1, <3>2 DEF MemTablesDisjoint
  <2>4. ASSUME NEW u \in Threads, pc[u] = "append" PROVE B \cap arg[u] = {}
    <3>1. arg[u] \subseteq Issued
      BY <2>4 DEF Issued, TypeOK
    <3>2. QED
      BY <2>1, <3>1
  <2>5. QED
    BY <1>1, <1>2, <1>3, <2>2, <2>3, <2>4 DEF BatchesFresh, TypeOK
<1>9. QED
  BY <1>5, <1>6, <1>7, <1>8

LEMMA AppendLineage ==
  ASSUME TypeOK, LineageInv, NEW t \in Clients, AppendBatch(t)
  PROVE  LineageInv'
<1> USE DEF LineageInv
<1> DEFINE a == st[t].active
<1>1. t \in Threads /\ Compactors \subseteq Threads /\ a \in MemIds
  BY ThreadsAssumption DEF Threads, Compactors, TypeOK, TableState
<1>2. UNCHANGED <<registry, nmem, groupRows, alive, todo, got>>
  BY DEF AppendBatch
<1>3. /\ pc[t] = "append" /\ pc' = [pc EXCEPT ![t] = "idle"]
      /\ st' = [st EXCEPT ![t] = NoState] /\ arg' = [arg EXCEPT ![t] = {}]
      /\ mem' = [mem EXCEPT ![a] = @ \cup arg[t]]
  BY DEF AppendBatch
<1>4. \A m \in MemIds : mem'[m] = IF m = a THEN mem[a] \cup arg[t] ELSE mem[m]
  BY <1>1, <1>3 DEF TypeOK
<1>5. \A m : Older(m) \subseteq Older(m)'
  BY <1>4 DEF Older
<1>6. MemTablesDisjoint'
  BY <1>1, <1>2, <1>3, <1>4 DEF MemTablesDisjoint, BatchesFresh
<1>7. BatchesFresh'
  <2> SUFFICES ASSUME NEW u \in Threads, pc'[u] = "append"
               PROVE  /\ arg'[u] \cap Preloaded = {}
                      /\ \A m \in MemIds : arg'[u] \cap mem'[m] = {}
                      /\ \A v \in Threads \ {u} :
                            pc'[v] = "append" => arg'[u] \cap arg'[v] = {}
    BY DEF BatchesFresh
  <2>1. u # t /\ pc[u] = "append" /\ arg'[u] = arg[u]
    BY <1>1, <1>3 DEF TypeOK
  <2>2. arg[u] \cap arg[t] = {}
    BY <1>1, <1>3, <2>1 DEF BatchesFresh
  <2>3. \A v \in Threads : pc'[v] = "append" => pc[v] = "append" /\ arg'[v] = arg[v]
    BY <1>1, <1>3 DEF TypeOK
  <2>4. QED
    BY <1>1, <1>4, <2>1, <2>2, <2>3 DEF BatchesFresh
<1>8. StatesOrdered'
  BY <1>1, <1>2, <1>3, NoStateOrdered DEF StatesOrdered, Ordered, TypeOK
<1>9. GroupsAreOlder'
  BY <1>2, <1>5 DEF GroupsAreOlder
<1>10. CompactionsAreOlder'
  BY <1>1, <1>2, <1>3, <1>5 DEF CompactionsAreOlder, TypeOK
<1>11. QED
  BY <1>6, <1>7, <1>8, <1>9, <1>10

LEMMA RegisterLineage ==
  ASSUME TypeOK, LineageInv, NEW t \in Clients, RegisterTable(t)
  PROVE  LineageInv'
<1> USE DEF LineageInv
<1>1. StatesOrdered'
  BY DEF RegisterTable, local, StatesOrdered, Ordered, TypeOK, TableState,
         MemIds, NoMem
<1>2. QED
  BY <1>1, LineageFrame DEF RegisterTable, local

LEMMA FreezeLineage ==
  ASSUME TypeOK, LineageInv, NEW t \in Compactors, Freeze(t)
  PROVE  LineageInv'
<1> USE DEF LineageInv
<1> DEFINE s == st[t]
           f == FreezeState(s)
<1>1. t \in Threads /\ Compactors \subseteq Threads /\ s \in TableState /\ Ordered(s)
  BY ThreadsAssumption DEF Threads, Compactors, TypeOK, StatesOrdered
<1>2. s.active \in MemIds /\ s.active < nmem + 1 /\ nmem \in MemIds
      /\ s.groups \subseteq MemIds
  BY <1>1 DEF TableState, Ordered, TypeOK, MemIds
<1>3. /\ UNCHANGED <<mem, groupRows, alive, arg>>
      /\ nmem' = nmem + 1 /\ registry' = f /\ st' = [st EXCEPT ![t] = f]
      /\ got' = [got EXCEPT ![t] = {}] /\ pc' = [pc EXCEPT ![t] = "scan"]
  BY DEF Freeze
<1>4. /\ f.groups = s.groups /\ f.active = nmem + 1
      /\ f.frozen = s.active
  BY DEF FreezeState
<1>5. Ordered(registry)'
  <2>1. nmem + 1 <= nmem' /\ f.frozen < f.active
    BY <1>2, <1>3, <1>4 DEF MemIds
  <2>2. \A g \in s.groups : g <= s.active /\ g <= nmem + 1
    BY <1>1, <1>2 DEF Ordered, MemIds
  <2>3. \A g, h \in s.groups : g = h
    BY <1>1 DEF Ordered
  <2>4. QED
    BY <1>3, <1>4, <2>1, <2>2, <2>3 DEF Ordered
<1>7. StatesOrdered'
  <2> SUFFICES ASSUME NEW u \in Threads PROVE Ordered(st[u])'
    BY <1>5 DEF StatesOrdered
  <2>1. CASE u = t
    <3>1. st'[u] = registry'
      BY <1>1, <1>3, <2>1 DEF TypeOK
    <3>2. QED
      BY <1>5, <3>1 DEF Ordered
  <2>2. CASE u # t
    <3>1. st'[u] = st[u] /\ st[u] \in TableState /\ Ordered(st[u])
      BY <1>3, <2>2 DEF TypeOK, StatesOrdered
    <3>2. QED
      BY <1>2, <1>3, <3>1 DEF Ordered, TableState, MemIds
  <2>3. QED
    BY <2>1, <2>2
<1>8. \A m : Older(m)' = Older(m)
  BY <1>3 DEF Older
<1>9. MemTablesDisjoint' /\ GroupsAreOlder'
  BY <1>3, <1>8 DEF MemTablesDisjoint, GroupsAreOlder
<1>10. BatchesFresh'
  BY <1>1, <1>3 DEF BatchesFresh, TypeOK
<1>11. CompactionsAreOlder'
  <2> SUFFICES ASSUME NEW c \in Compactors, pc'[c] \in {"scan", "install"}
               PROVE  /\ st'[c].frozen # NoMem
                      /\ got'[c] \subseteq Older(st'[c].active)
    BY <1>8 DEF CompactionsAreOlder
  <2>1. CASE c = t
    BY <1>1, <1>2, <1>3, <1>4, <2>1 DEF TypeOK, MemIds, NoMem
  <2>2. CASE c # t
    BY <1>1, <1>3, <2>2 DEF TypeOK, CompactionsAreOlder
  <2>3. QED
    BY <2>1, <2>2
<1>12. QED
  BY <1>7, <1>9, <1>10, <1>11

LEMMA InstallLineage ==
  ASSUME TypeOK, LineageInv, NEW t \in Compactors, Install(t)
  PROVE  LineageInv'
<1> USE DEF LineageInv
<1> DEFINE s == st[t]
           i == CompactState(s, got[t])
<1>1. t \in Threads /\ Compactors \subseteq Threads /\ s \in TableState /\ Ordered(s)
  BY ThreadsAssumption DEF Threads, Compactors, TypeOK, StatesOrdered
<1>2. /\ UNCHANGED <<nmem, mem, arg>>
      /\ pc[t] = "install"
      /\ groupRows' = [groupRows EXCEPT ![s.active] = got[t]]
      /\ alive' = [alive EXCEPT ![s.active] = got[t]]
      /\ registry' = i /\ pc' = [pc EXCEPT ![t] = Home(t)]
      /\ st' = [st EXCEPT ![t] = NoState] /\ got' = [got EXCEPT ![t] = {}]
  BY DEF Install
<1>3. /\ s.active \in MemIds /\ s.active # 1
      /\ got[t] \subseteq Older(s.active)
  <2>1. s.frozen \in MemIds /\ s.active \in MemIds /\ s.frozen < s.active
    BY <1>1, <1>2 DEF CompactionsAreOlder, TableState, Ordered
  <2>2. QED
    BY <1>2, <2>1 DEF CompactionsAreOlder, MemIds
<1>4. \A m : Older(m)' = Older(m)
  BY <1>2 DEF Older
<1>5. MemTablesDisjoint'
  BY <1>2, <1>3 DEF MemTablesDisjoint, TypeOK
<1>6. GroupsAreOlder'
  BY <1>2, <1>3, <1>4 DEF GroupsAreOlder, TypeOK
<1>7. Home(t) \in {"idle", "wait"}
  BY DEF Home
<1>8. BatchesFresh'
  BY <1>1, <1>2, <1>7 DEF BatchesFresh, TypeOK
<1>9. CompactionsAreOlder'
  BY <1>1, <1>2, <1>4, <1>7 DEF CompactionsAreOlder, TypeOK
<1>10. StatesOrdered'
  <2>1. Ordered(i)
    BY <1>1, <1>3 DEF Ordered, CompactState, NoMem, MemIds
  <2>2. QED
    BY <1>1, <1>2, <2>1, NoStateOrdered DEF StatesOrdered, Ordered, TypeOK
<1>11. QED
  BY <1>5, <1>6, <1>8, <1>9, <1>10

LEMMA OtherStatesOrdered ==
  ASSUME TypeOK, StatesOrdered, UNCHANGED <<registry, nmem>>,
         NEW t \in Threads,
         NEW x \in {registry, NoState, st[t]},
         st' = [st EXCEPT ![t] = x]
  PROVE  StatesOrdered'
  BY NoStateOrdered DEF StatesOrdered, Ordered, TypeOK

LEMMA NextLineage == TypeOK /\ LineageInv /\ [Next]_vars => LineageInv'
<1> SUFFICES ASSUME TypeOK, LineageInv, [Next]_vars PROVE LineageInv'
  OBVIOUS
<1>0. /\ Clients \subseteq Threads /\ Manual \subseteq Clients
      /\ Compactors \subseteq Threads /\ Registrars \subseteq Clients
      /\ Daemon \in Threads
  BY ThreadsAssumption DEF Threads, Compactors
<1>s. StatesOrdered
  BY DEF LineageInv
<1>1. ASSUME NEW t \in Clients, ClientCall(t) PROVE LineageInv'
  <2>1. ASSUME NEW r \in Rows, BeginDelete(t, r) PROVE LineageInv'
    <3>1. StatesOrdered'
      BY <1>0, <1>s, <2>1, OtherStatesOrdered DEF BeginDelete, heap
    <3>2. QED
      BY <1>0, <2>1, <3>1, LineageFrame DEF BeginDelete, heap, TypeOK
  <2>2. QED
    BY <1>1, <2>1, InsertLineage DEF ClientCall
<1>2. ASSUME NEW t \in Clients, ClientStep(t) PROVE LineageInv'
  <2>1. CASE ClearBit(t)
    <3>1. StatesOrdered'
      BY <1>0, <1>s, <2>1, OtherStatesOrdered DEF ClearBit
    <3>2. \A g \in MemIds : alive'[g] \subseteq alive[g]
      BY <2>1 DEF ClearBit
    <3>3. QED
      BY <1>0, <2>1, <3>1, <3>2, LineageFrame DEF ClearBit, TypeOK
  <2>2. QED
    BY <1>2, <2>1, AppendLineage DEF ClientStep
<1>3. ASSUME NEW t \in Manual, BeginCompact(t) PROVE LineageInv'
  <2>1. StatesOrdered'
    BY <1>0, <1>s, <1>3, OtherStatesOrdered DEF BeginCompact, heap
  <2>2. QED
    BY <1>0, <1>3, <2>1, LineageFrame DEF BeginCompact, heap, TypeOK
<1>4. ASSUME NEW t \in Registrars, RegisterTable(t) PROVE LineageInv'
  BY <1>0, <1>4, RegisterLineage
<1>5. ASSUME NEW t \in Compactors, Compaction(t) PROVE LineageInv'
  <2>1. CASE SkipCompact(t)
    <3>1. StatesOrdered'
      BY <1>0, <1>s, <2>1, OtherStatesOrdered DEF SkipCompact, heap
    <3>2. QED
      BY <1>0, <2>1, <3>1, LineageFrame DEF SkipCompact, heap, TypeOK, Home
  <2>2. CASE Freeze(t)
    BY <2>2, FreezeLineage
  <2>3. ASSUME NEW K \in SUBSET todo[t], ScanBlock(t, K) PROVE LineageInv'
    <3>1. StatesOrdered'
      BY <1>s, <2>3 DEF ScanBlock, heap, StatesOrdered, Ordered
    <3>2. Surviving(st[t]) \subseteq Stored(st[t])
      BY <1>0 DEF Surviving, Stored, LineageInv, GroupsAreOlder, TypeOK, TableState
    <3>3. QED
      BY <1>0, <2>3, <3>1, <3>2, LineageFrame DEF ScanBlock, heap, TypeOK
  <2>4. CASE CopyFrozen(t)
    <3>1. StatesOrdered'
      BY <1>s, <2>4 DEF CopyFrozen, heap, StatesOrdered, Ordered
    <3>2. QED
      BY <1>0, <2>4, <3>1, LineageFrame DEF CopyFrozen, heap, TypeOK
  <2>5. CASE Install(t)
    BY <2>5, InstallLineage
  <2>6. QED
    BY <1>5, <2>1, <2>2, <2>3, <2>4, <2>5 DEF Compaction
<1>6. CASE StartDaemon \/ StopDaemon \/ DaemonExit
  <2>1. StatesOrdered'
    BY <1>s, <1>6 DEF StartDaemon, StopDaemon, DaemonExit, heap, local,
                     StatesOrdered, Ordered
  <2>2. QED
    BY <1>0, <1>6, <2>1, LineageFrame
    DEF StartDaemon, StopDaemon, DaemonExit, heap, local, TypeOK
<1>7. CASE DaemonPeek \/ DaemonDecide
  <2>1. StatesOrdered'
    BY <1>0, <1>s, <1>7, OtherStatesOrdered DEF DaemonPeek, DaemonDecide, heap
  <2>2. QED
    BY <1>0, <1>7, <2>1, LineageFrame DEF DaemonPeek, DaemonDecide, heap, TypeOK
<1>8. CASE UNCHANGED vars
  <2>1. StatesOrdered'
    BY <1>s, <1>8 DEF vars, heap, local, StatesOrdered, Ordered
  <2>2. QED
    BY <1>8, <2>1, LineageFrame DEF vars, heap, local
<1>9. QED
  BY <1>1, <1>2, <1>3, <1>4, <1>5, <1>6, <1>7, <1>8 DEF Next, DaemonLoop

\* The lineage of rows: each batch is in one memtable, and what a state's
\* groups hold is older than its memtables.
THEOREM LineageCorrect == Spec => []LineageInv
<1>1. QED
  BY InitTypeOK, NextTypeOK, InitLineage, NextLineage, PTL DEF Spec

\* Whatever the number of concurrent compactions, re-registrations, inserts
\* and deletes, no TableState that is published or in use holds a row twice.
THEOREM RowsCountOnce == Spec => []NoRowTwice
<1>1. QED
  BY TypeCorrect, LineageCorrect, LineageCountsOnce, PTL
-----------------------------------------------------------------------------
(* What the store promises when the daemon is the only compacting thread.  *)

LEMMA SoleCompactor ==
  ASSUME DaemonOnly
  PROVE  /\ Compactors = {Daemon}
         /\ Daemon \in Threads /\ Clients \subseteq Threads
         /\ \A t \in Clients : t # Daemon
  BY ThreadsAssumption DEF DaemonOnly, Compactors, Threads

LEMMA InitSole == Init => SoleCompactorInv
<1> SUFFICES ASSUME Init PROVE SoleCompactorInv
  OBVIOUS
<1>1. Daemon \in Threads /\ 1 \in MemIds
  BY BoundsAssumption DEF Threads, MemIds
<1>2. pc[Daemon] = "off" /\ got[Daemon] = {} /\ registry.frozen = NoMem
  BY <1>1 DEF Init
<1>3. Harvested
  BY <1>2 DEF Harvested
<1>4. LateRowsStayBehind
  BY DEF Init, LateRowsStayBehind
<1>5. HistoryInv
  BY ThreadsAssumption DEF Init, HistoryInv, Threads
<1>6. acked \subseteq Visible(registry)
  BY <1>1 DEF Init, Visible, Surviving
<1>7. QED
  BY <1>3, <1>4, <1>5, <1>6
  DEF Init, SoleCompactorInv, AckedRowsSurvive, ErasedRowsStayAway

\* Steps of a thread that touch neither the heap, nor the published state,
\* nor the compaction, nor the histories the invariant is about.
LEMMA SoleFrame ==
  ASSUME SoleCompactorInv,
         UNCHANGED <<registry, nmem, mem, groupRows, alive,
                     acked, late, erased, raced>>,
         got'[Daemon] = got[Daemon], todo'[Daemon] = todo[Daemon],
         \/ pc'[Daemon] = pc[Daemon] /\ st'[Daemon] = st[Daemon]
         \/ /\ {pc[Daemon], pc'[Daemon]} \cap {"scan", "install"} = {}
            /\ pc'[Daemon] = "freeze" => st'[Daemon] = registry,
         \A t \in Threads : pc'[t] = "delete" => \E r \in Rows : arg'[t] = {r}
  PROVE  SoleCompactorInv'
<1> USE DEF SoleCompactorInv
<1>1. Visible(registry)' = Visible(registry)
      /\ Surviving(registry)' = Surviving(registry)
      /\ FrozenRows(registry)' = FrozenRows(registry)
  BY DEF Visible, Surviving, FrozenRows
<1>2. Harvested'
  BY <1>1 DEF Harvested
<1>3. LateRowsStayBehind'
  BY <1>1 DEF LateRowsStayBehind
<1>4. HistoryInv'
  BY DEF HistoryInv
<1>5. AckedRowsSurvive' /\ ErasedRowsStayAway'
  BY <1>1 DEF AckedRowsSurvive, ErasedRowsStayAway
<1>6. QED
  BY <1>2, <1>3, <1>4, <1>5

LEMMA AppendSole ==
  ASSUME TypeOK, LineageInv, SoleCompactorInv, DaemonOnly,
         NEW t \in Clients, AppendBatch(t)
  PROVE  /\ SoleCompactorInv'
         /\ Contract!Next
<1> USE DEF SoleCompactorInv
<1> DEFINE a == st[t].active
           B == arg[t]
<1>0. /\ Compactors = {Daemon} /\ Daemon \in Threads /\ t \in Threads
      /\ t # Daemon
  BY SoleCompactor
<1>1. /\ a \in MemIds /\ a <= nmem /\ B \in SUBSET Rows
      /\ registry \in TableState
  BY <1>0 DEF TypeOK, TableState, LineageInv, StatesOrdered, Ordered
<1>2. UNCHANGED <<registry, nmem, groupRows, alive, todo, got, erased, raced>>
  BY DEF AppendBatch
<1>3. /\ pc[t] = "append" /\ pc' = [pc EXCEPT ![t] = "idle"]
      /\ st' = [st EXCEPT ![t] = NoState] /\ arg' = [arg EXCEPT ![t] = {}]
      /\ mem' = [mem EXCEPT ![a] = @ \cup B]
      /\ acked' = acked \cup B
      /\ late' = IF StillRead(a) THEN late ELSE late \cup B
  BY DEF AppendBatch
<1>4. /\ pc'[Daemon] = pc[Daemon] /\ st'[Daemon] = st[Daemon]
  BY <1>0, <1>3 DEF TypeOK
<1>5. \A m \in MemIds : mem'[m] = IF m = a THEN mem[a] \cup B ELSE mem[m]
  BY <1>1, <1>3 DEF TypeOK
<1>6. /\ B \cap Preloaded = {}
      /\ \A m \in MemIds : B \cap mem[m] = {}
  BY <1>0, <1>3 DEF LineageInv, BatchesFresh
<1>7. \A g \in MemIds : B \cap groupRows[g] = {} /\ alive[g] \subseteq groupRows[g]
  <2> SUFFICES ASSUME NEW g \in MemIds
               PROVE  B \cap groupRows[g] = {} /\ alive[g] \subseteq groupRows[g]
    OBVIOUS
  <2>1. groupRows[g] \subseteq Older(g) /\ alive[g] \subseteq groupRows[g]
    BY DEF LineageInv, GroupsAreOlder
  <2>2. B \cap Older(g) = {}
    BY <1>6 DEF Older
  <2>3. QED
    BY <2>1, <2>2
<1>8. /\ B \cap erased = {} /\ B \cap raced = {} /\ B \cap late = {}
      /\ B \cap acked = {}
  BY <1>6 DEF HistoryInv
<1>9. got[Daemon] \cap B = {}
  <2>1. CASE pc[Daemon] \in {"scan", "install"}
    <3>1. got[Daemon] \subseteq Older(st[Daemon].active)
      BY <1>0, <2>1 DEF LineageInv, CompactionsAreOlder
    <3>2. QED
      BY <1>6, <3>1 DEF Older
  <2>2. CASE pc[Daemon] \notin {"scan", "install"}
    BY <2>2 DEF Harvested
  <2>3. QED
    BY <2>1, <2>2
<1>10. Surviving(registry)' = Surviving(registry)
  BY <1>2 DEF Surviving
<1>11. FrozenRows(registry)' = IF a = registry.frozen
                               THEN FrozenRows(registry) \cup B
                               ELSE FrozenRows(registry)
  <2>1. CASE registry.frozen = NoMem
    <3>1. a # registry.frozen
      BY <1>1, <2>1 DEF MemIds, NoMem
    <3>2. FrozenRows(registry)' = {} /\ FrozenRows(registry) = {}
      BY <1>2, <2>1 DEF FrozenRows
    <3>3. QED
      BY <3>1, <3>2
  <2>2. CASE registry.frozen # NoMem
    <3>1. registry.frozen \in MemIds
      BY <1>1, <2>2 DEF TableState
    <3>2. /\ FrozenRows(registry)' = mem'[registry.frozen]
          /\ FrozenRows(registry) = mem[registry.frozen]
      BY <1>2, <2>2 DEF FrozenRows
    <3>3. QED
      BY <1>5, <3>1, <3>2
  <2>3. QED
    BY <2>1, <2>2
<1>12. mem'[registry.active] = IF a = registry.active
                               THEN mem[registry.active] \cup B
                               ELSE mem[registry.active]
  BY <1>1, <1>5 DEF TableState
<1>13. /\ Visible(registry) \subseteq Visible(registry)'
       /\ Visible(registry)' \subseteq Visible(registry) \cup B
  BY <1>2, <1>10, <1>11, <1>12 DEF Visible
<1>14. HistoryInv'
  <2>1. \A m \in MemIds : mem[m] \subseteq mem'[m]
    BY <1>5
  <2>2. B \subseteq mem'[a]
    BY <1>1, <1>5
  <2>3. acked' \cup erased' \subseteq Preloaded \cup UNION {mem'[m] : m \in MemIds}
    BY <1>1, <1>2, <1>3, <2>1, <2>2 DEF HistoryInv
  <2>4. \A m \in MemIds : m > nmem => mem'[m] = {}
    BY <1>1, <1>5 DEF HistoryInv, MemIds, TypeOK
  <2>5. \A u \in Threads : pc'[u] = "delete" => \E r \in Rows : arg'[u] = {r}
    BY <1>0, <1>3 DEF HistoryInv, TypeOK
  <2>6. QED
    BY <1>2, <1>3, <2>3, <2>4, <2>5 DEF HistoryInv
<1>15. ErasedRowsStayAway'
  BY <1>2, <1>8, <1>13 DEF ErasedRowsStayAway
<1>16. CASE StillRead(a)
  <2>1. late' = late /\ (a = registry.active \/ a = registry.frozen)
    BY <1>3, <1>16 DEF StillRead
  <2>2. Visible(registry)' = Visible(registry) \cup B
    BY <1>2, <1>10, <1>11, <1>12, <2>1 DEF Visible
  <2>3. pc[Daemon] = "install" => a # registry.frozen
    BY <1>0, <1>1, <1>16 DEF StillRead, Harvested, StatesOrdered, Ordered,
       LineageInv, MemIds, NoMem, TableState
  <2>4. Harvested'
    BY <1>2, <1>4, <1>10, <1>11, <2>1, <2>3 DEF Harvested
  <2>5. LateRowsStayBehind'
    BY <1>2, <1>4, <1>8, <1>11, <1>12, <2>1 DEF LateRowsStayBehind
  <2>6. AckedRowsSurvive'
    BY <1>2, <1>3, <2>1, <2>2 DEF AckedRowsSurvive
  <2>7. Contract!Insert(B)
    BY <1>2, <1>3, <1>8, <2>1, <2>2 DEF Contract!Insert
  <2>8. QED
    BY <1>1, <1>14, <1>15, <2>4, <2>5, <2>6, <2>7 DEF Contract!Next
<1>17. CASE ~StillRead(a)
  <2>1. late' = late \cup B /\ a # registry.active
        /\ (a = registry.frozen => pc[Daemon] = "install")
    BY <1>0, <1>3, <1>17 DEF StillRead
  <2>2. Harvested'
    <3>1. pc'[Daemon] = "scan" => a # registry.frozen
      BY <1>4, <2>1
    <3>2. FrozenRows(registry)' \ late' = FrozenRows(registry) \ late'
      BY <1>11, <2>1
    <3>3. QED
      BY <1>2, <1>4, <1>10, <2>1, <3>1, <3>2 DEF Harvested
  <2>3. LateRowsStayBehind'
    BY <1>2, <1>4, <1>6, <1>7, <1>9, <1>11, <1>12, <1>1, <2>1, <1>14
    DEF LateRowsStayBehind, TableState, FrozenRows
  <2>4. AckedRowsSurvive'
    BY <1>2, <1>3, <1>13, <2>1 DEF AckedRowsSurvive
  <2>5. Contract!InsertOvertaken(B)
    BY <1>2, <1>3, <1>8, <1>13, <2>1 DEF Contract!InsertOvertaken
  <2>6. QED
    BY <1>1, <1>14, <1>15, <2>2, <2>3, <2>4, <2>5 DEF Contract!Next
<1>18. QED
  BY <1>16, <1>17

LEMMA ClearBitSole ==
  ASSUME TypeOK, LineageInv, SoleCompactorInv, DaemonOnly,
         NEW t \in Clients, ClearBit(t)
  PROVE  /\ SoleCompactorInv'
         /\ Contract!Next \/ UNCHANGED Contract!vars
<1> USE DEF SoleCompactorInv
<1> DEFINE s == st[t]
           hit == arg[t] \cap Surviving(s)
<1>0. /\ Compactors = {Daemon} /\ Daemon \in Threads /\ t \in Threads
      /\ t # Daemon
  BY SoleCompactor
<1>1. PICK r \in Rows : arg[t] = {r}
  BY <1>0 DEF ClearBit, HistoryInv
<1>2. /\ s \in TableState /\ registry \in TableState
      /\ s.groups \subseteq MemIds /\ registry.groups \subseteq MemIds
      /\ registry.active \in MemIds
  BY <1>0 DEF TypeOK, TableState
<1>3. /\ UNCHANGED <<registry, nmem, mem, groupRows, todo, got, acked, late>>
      /\ alive' = [g \in MemIds |-> IF g \in s.groups
                                    THEN alive[g] \ {r} ELSE alive[g]]
      /\ erased' = erased \cup hit
      /\ raced' = raced \cup {x \in hit : TooLate(s, x)}
      /\ pc' = [pc EXCEPT ![t] = "idle"]
      /\ st' = [st EXCEPT ![t] = NoState]
      /\ arg' = [arg EXCEPT ![t] = {}]
  BY <1>1 DEF ClearBit
<1>4. pc'[Daemon] = pc[Daemon] /\ st'[Daemon] = st[Daemon]
  BY <1>0, <1>3 DEF TypeOK
<1>5. \A g \in MemIds : alive'[g] = IF g \in s.groups
                                    THEN alive[g] \ {r} ELSE alive[g]
  BY <1>3
<1>6. hit \subseteq {r} /\ (r \in hit <=> \E g \in s.groups : r \in alive[g])
  BY <1>1 DEF Surviving
<1>7. /\ Surviving(registry)' \subseteq Surviving(registry)
      /\ Surviving(registry) \ {r} \subseteq Surviving(registry)'
  BY <1>2, <1>3, <1>5 DEF Surviving
<1>8. FrozenRows(registry)' = FrozenRows(registry)
  BY <1>3 DEF FrozenRows
<1>9. /\ Visible(registry)' \subseteq Visible(registry)
      /\ Visible(registry) \ {r} \subseteq Visible(registry)'
  BY <1>3, <1>7, <1>8 DEF Visible
<1>10. ASSUME r \notin hit
      PROVE  /\ Surviving(registry)' = Surviving(registry)
             /\ Visible(registry)' = Visible(registry)
  <2>1. \A g \in MemIds : alive'[g] = alive[g]
    BY <1>5, <1>6, <1>10
  <2>2. ASSUME NEW g \in registry.groups
        PROVE  alive[g] \subseteq Surviving(registry)'
    BY <1>2, <1>3, <2>1 DEF Surviving
  <2>3. Surviving(registry)' = Surviving(registry)
    BY <1>7, <2>2 DEF Surviving
  <2>4. QED
    BY <1>3, <1>8, <2>3 DEF Visible
<1>11. LateRowsStayBehind'
  BY <1>3, <1>4, <1>8 DEF LateRowsStayBehind
<1>12. HistoryInv'
  <2>1. hit \subseteq Preloaded \cup UNION {mem[m] : m \in MemIds}
    <3> SUFFICES ASSUME NEW g \in s.groups
                 PROVE  alive[g] \subseteq Preloaded \cup UNION {mem[m] : m \in MemIds}
      BY DEF Surviving
    <3>1. alive[g] \subseteq Older(g)
      BY <1>2 DEF LineageInv, GroupsAreOlder
    <3>2. QED
      BY <3>1 DEF Older
  <2>2. \A u \in Threads : pc'[u] = "delete" => \E x \in Rows : arg'[u] = {x}
    BY <1>0, <1>3 DEF HistoryInv, TypeOK
  <2>3. QED
    BY <1>3, <2>1, <2>2 DEF HistoryInv
<1>13. AckedRowsSurvive'
  BY <1>3, <1>6, <1>9, <1>10 DEF AckedRowsSurvive
<1>14. CASE r \notin hit
  <2>1. hit = {}
    BY <1>6, <1>14
  <2>2. Harvested'
    BY <1>3, <1>4, <1>8, <1>10, <1>14, <2>1 DEF Harvested
  <2>3. ErasedRowsStayAway'
    BY <1>3, <1>10, <1>14, <2>1 DEF ErasedRowsStayAway
  <2>4. UNCHANGED Contract!vars
    BY <1>3, <1>10, <1>14, <2>1 DEF Contract!vars
  <2>5. QED
    BY <1>11, <1>12, <1>13, <2>2, <2>3, <2>4
<1>15. CASE r \in hit /\ TooLate(s, r)
  <2>1. erased' = erased \cup {r} /\ raced' = raced \cup {r}
    BY <1>3, <1>6, <1>15
  <2>2. Surviving(registry)' \ {r} = Surviving(registry) \ {r}
    BY <1>7
  <2>3. Harvested'
    BY <1>3, <1>4, <1>8, <2>1, <2>2 DEF Harvested
  <2>4. ErasedRowsStayAway'
    BY <1>9, <2>1 DEF ErasedRowsStayAway
  <2>5. Contract!DeleteOvertaken(r)
    BY <1>3, <1>9, <2>1 DEF Contract!DeleteOvertaken
  <2>6. Contract!Next
    BY <2>5 DEF Contract!Next
  <2>7. QED
    BY <1>11, <1>12, <1>13, <2>3, <2>4, <2>6
<1>16. CASE r \in hit /\ ~TooLate(s, r)
  <2>1. erased' = erased \cup {r} /\ raced' = raced
    BY <1>3, <1>6, <1>16
  <2>2. PICK g \in s.groups \cap registry.groups : r \in alive[g]
    BY <1>16 DEF TooLate
  <2>3. pc[Daemon] \in {"scan", "install"} => r \in todo[Daemon]
    BY <1>0, <1>16 DEF TooLate
  <2>4. \A h \in registry.groups : h = g
    BY <2>2 DEF LineageInv, StatesOrdered, Ordered
  <2>5. r \notin Surviving(registry)'
    BY <1>2, <1>3, <1>5, <2>2, <2>4 DEF Surviving
  <2>6. r \in Stored(registry)
    BY <1>2, <2>2 DEF Stored, LineageInv, GroupsAreOlder
  <2>7. r \notin mem[registry.active] /\ r \notin FrozenRows(registry)
    BY <2>6, LineageCountsOnce DEF NoRowTwice, CountsOnce
  <2>8. Visible(registry)' = Visible(registry) \ {r}
    BY <1>3, <1>8, <1>9, <2>5, <2>7 DEF Visible
  <2>9. Surviving(registry)' = Surviving(registry) \ {r}
    BY <1>7, <2>5
  <2>10. Harvested'
    <3>1. pc[Daemon] = "install" => todo[Daemon] = {}
      BY DEF Harvested
    <3>2. pc[Daemon] # "install"
      BY <2>3, <3>1
    <3>3. QED
      BY <1>3, <1>4, <2>1, <2>3, <2>9, <3>2 DEF Harvested
  <2>11. ErasedRowsStayAway'
    BY <2>1, <2>8 DEF ErasedRowsStayAway
  <2>12. Contract!Delete(r)
    BY <1>3, <2>1, <2>8 DEF Contract!Delete
  <2>13. Contract!Next
    BY <2>12 DEF Contract!Next
  <2>14. QED
    BY <1>11, <1>12, <1>13, <2>10, <2>11, <2>13
<1>17. QED
  BY <1>14, <1>15, <1>16

LEMMA FreezeSole ==
  ASSUME TypeOK, LineageInv, SoleCompactorInv, DaemonOnly, Freeze(Daemon)
  PROVE  SoleCompactorInv' /\ UNCHANGED Contract!vars
<1> USE DEF SoleCompactorInv
<1>0. Compactors = {Daemon} /\ Daemon \in Threads
  BY SoleCompactor
<1>1. /\ registry = st[Daemon] /\ registry.frozen = NoMem /\ got[Daemon] = {}
      /\ pc[Daemon] = "freeze"
  BY DEF Freeze, Harvested
<1>2. /\ UNCHANGED <<mem, groupRows, alive, arg, acked, late, erased, raced>>
      /\ nmem < MaxMem /\ nmem' = nmem + 1
      /\ registry' = FreezeState(registry)
      /\ st'[Daemon] = registry'
      /\ todo'[Daemon] = Stored(registry) /\ got'[Daemon] = {}
      /\ pc'[Daemon] = "scan"
      /\ pc' = [pc EXCEPT ![Daemon] = "scan"]
  BY <1>0, <1>1 DEF Freeze, TypeOK, history
<1>3. /\ registry'.groups = registry.groups /\ registry'.active = nmem + 1
      /\ registry'.frozen = registry.active
  BY <1>2 DEF FreezeState
<1>4. nmem \in MemIds /\ nmem + 1 \in MemIds /\ registry.active \in MemIds
  BY <1>2, BoundsAssumption DEF TypeOK, MemIds, TableState
<1>5. mem[nmem + 1] = {}
  BY <1>4 DEF HistoryInv, MemIds
<1>6. /\ Surviving(registry)' = Surviving(registry)
      /\ FrozenRows(registry)' = mem[registry.active]
      /\ FrozenRows(registry) = {}
      /\ mem'[registry'.active] = {}
  BY <1>1, <1>2, <1>3, <1>4, <1>5 DEF Surviving, FrozenRows, NoMem, MemIds
<1>7. Visible(registry)' = Visible(registry)
  BY <1>6 DEF Visible
<1>8. Surviving(registry) \subseteq Stored(registry)
  BY DEF Surviving, Stored, LineageInv, GroupsAreOlder, TypeOK, TableState
<1>9. Harvested'
  BY <1>2, <1>6, <1>8 DEF Harvested
<1>10. LateRowsStayBehind'
  BY <1>2, <1>6 DEF LateRowsStayBehind
<1>11. HistoryInv'
  BY <1>0, <1>2, <1>4 DEF HistoryInv, TypeOK, MemIds
<1>12. AckedRowsSurvive' /\ ErasedRowsStayAway' /\ UNCHANGED Contract!vars
  BY <1>2, <1>7 DEF AckedRowsSurvive, ErasedRowsStayAway, Contract!vars
<1>13. QED
  BY <1>9, <1>10, <1>11, <1>12

LEMMA ScanSole ==
  ASSUME TypeOK, LineageInv, SoleCompactorInv, DaemonOnly,
         NEW K \in SUBSET todo[Daemon], ScanBlock(Daemon, K)
  PROVE  SoleCompactorInv' /\ UNCHANGED Contract!vars
<1> USE DEF SoleCompactorInv
<1>0. Compactors = {Daemon} /\ Daemon \in Threads
  BY SoleCompactor
<1>1. /\ UNCHANGED <<registry, nmem, mem, groupRows, alive, pc, st, arg,
                     acked, late, erased, raced>>
      /\ pc[Daemon] = "scan" /\ registry = st[Daemon]
      /\ got'[Daemon] = got[Daemon] \cup (K \cap Surviving(registry))
      /\ todo'[Daemon] = todo[Daemon] \ K
  BY <1>0 DEF ScanBlock, Harvested, TypeOK, heap, history
<1>2. /\ Visible(registry)' = Visible(registry)
      /\ Surviving(registry)' = Surviving(registry)
      /\ FrozenRows(registry)' = FrozenRows(registry)
  BY <1>1 DEF Visible, Surviving, FrozenRows
<1>3. Surviving(registry) \subseteq Stored(registry)
  BY DEF Surviving, Stored, LineageInv, GroupsAreOlder, TypeOK, TableState
<1>4. late \cap Stored(registry) = {}
  BY DEF LateRowsStayBehind, Stored, TypeOK, TableState
<1>5. Harvested'
  BY <1>1, <1>2 DEF Harvested
<1>6. LateRowsStayBehind'
  BY <1>1, <1>2, <1>3, <1>4 DEF LateRowsStayBehind
<1>7. HistoryInv'
  BY <1>1 DEF HistoryInv
<1>8. AckedRowsSurvive' /\ ErasedRowsStayAway' /\ UNCHANGED Contract!vars
  BY <1>1, <1>2 DEF AckedRowsSurvive, ErasedRowsStayAway, Contract!vars
<1>9. QED
  BY <1>5, <1>6, <1>7, <1>8

LEMMA CopySole ==
  ASSUME TypeOK, LineageInv, SoleCompactorInv, DaemonOnly, CopyFrozen(Daemon)
  PROVE  SoleCompactorInv' /\ UNCHANGED Contract!vars
<1> USE DEF SoleCompactorInv
<1>0. Compactors = {Daemon} /\ Daemon \in Threads
  BY SoleCompactor
<1>1. /\ UNCHANGED <<registry, nmem, mem, groupRows, alive, st, arg, todo,
                     acked, late, erased, raced>>
      /\ pc[Daemon] = "scan" /\ registry = st[Daemon] /\ todo[Daemon] = {}
      /\ got'[Daemon] = got[Daemon] \cup FrozenRows(registry)
      /\ pc' = [pc EXCEPT ![Daemon] = "install"]
  BY <1>0 DEF CopyFrozen, Harvested, TypeOK, heap, history
<1>2. pc'[Daemon] = "install"
  BY <1>0, <1>1 DEF TypeOK
<1>3. /\ Visible(registry)' = Visible(registry)
      /\ Surviving(registry)' = Surviving(registry)
      /\ FrozenRows(registry)' = FrozenRows(registry)
  BY <1>1 DEF Visible, Surviving, FrozenRows
<1>4. got[Daemon] \ raced = Surviving(registry) \ raced
  BY <1>1 DEF Harvested
<1>5. Harvested'
  BY <1>1, <1>2, <1>3, <1>4 DEF Harvested
<1>6. LateRowsStayBehind'
  BY <1>1, <1>2, <1>3 DEF LateRowsStayBehind
<1>7. HistoryInv'
  BY <1>0, <1>1 DEF HistoryInv, TypeOK
<1>8. AckedRowsSurvive' /\ ErasedRowsStayAway' /\ UNCHANGED Contract!vars
  BY <1>1, <1>3 DEF AckedRowsSurvive, ErasedRowsStayAway, Contract!vars
<1>9. QED
  BY <1>5, <1>6, <1>7, <1>8

LEMMA InstallSole ==
  ASSUME TypeOK, LineageInv, SoleCompactorInv, DaemonOnly, Install(Daemon)
  PROVE  SoleCompactorInv' /\ Contract!Next
<1> USE DEF SoleCompactorInv
<1> DEFINE G == got[Daemon]
           a == registry.active
<1>0. Compactors = {Daemon} /\ Daemon \in Threads
  BY SoleCompactor
<1>1. /\ UNCHANGED <<nmem, mem, arg, todo, acked, late, erased, raced>>
      /\ pc[Daemon] = "install" /\ registry = st[Daemon]
      /\ groupRows' = [groupRows EXCEPT ![a] = G]
      /\ alive' = [alive EXCEPT ![a] = G]
      /\ registry' = CompactState(registry, G)
      /\ pc' = [pc EXCEPT ![Daemon] = "wait"]
      /\ got' = [got EXCEPT ![Daemon] = {}]
  BY <1>0 DEF Install, Harvested, history, Home
<1>2. a \in MemIds /\ pc'[Daemon] = "wait" /\ got'[Daemon] = {}
  BY <1>0, <1>1 DEF TypeOK, TableState
<1>3. /\ registry'.groups = IF G = {} THEN {} ELSE {a}
      /\ registry'.active = a /\ registry'.frozen = NoMem
  BY <1>1 DEF CompactState
<1>4. alive'[a] = G /\ groupRows'[a] = G
      /\ \A g \in MemIds \ {a} : groupRows'[g] = groupRows[g]
  BY <1>1, <1>2 DEF TypeOK
<1>5. Surviving(registry)' = G
  BY <1>3, <1>4 DEF Surviving
<1>6. FrozenRows(registry)' = {}
  BY <1>3 DEF FrozenRows
<1>7. Visible(registry)' = G \cup mem[a]
  BY <1>1, <1>3, <1>5, <1>6 DEF Visible
<1>8. G \ (late \cup raced)
        = (Surviving(registry) \cup FrozenRows(registry)) \ (late \cup raced)
  BY <1>1 DEF Harvested
<1>9. Visible(registry)' \ (late \cup raced) = Visible(registry) \ (late \cup raced)
  BY <1>7, <1>8 DEF Visible
<1>10. Harvested'
  BY <1>2, <1>3 DEF Harvested
<1>11. LateRowsStayBehind'
  <2>1. \A g \in MemIds : late \cap groupRows'[g] = {}
    BY <1>2, <1>4 DEF LateRowsStayBehind
  <2>2. QED
    BY <1>1, <1>2, <1>3, <1>6, <2>1 DEF LateRowsStayBehind
<1>12. HistoryInv'
  BY <1>0, <1>1 DEF HistoryInv, TypeOK
<1>13. AckedRowsSurvive'
  BY <1>1, <1>9 DEF AckedRowsSurvive, HistoryInv
<1>14. late \cap mem[a] = {} /\ late \cap G = {}
  BY DEF LateRowsStayBehind
<1>15. ErasedRowsStayAway'
  BY <1>1, <1>7, <1>9, <1>14 DEF ErasedRowsStayAway
<1>16. Contract!Reorganise
  BY <1>1, <1>9 DEF Contract!Reorganise
<1>17. QED
  BY <1>10, <1>11, <1>12, <1>13, <1>15, <1>16 DEF Contract!Next

LEMMA NextSole ==
  ASSUME TypeOK, LineageInv, SoleCompactorInv, DaemonOnly, [Next]_vars
  PROVE  SoleCompactorInv' /\ [Contract!Next]_(Contract!vars)
<1>0. /\ Compactors = {Daemon} /\ Daemon \in Threads
      /\ Manual = {} /\ Registrars = {}
      /\ Clients \subseteq Threads /\ \A t \in Clients : t # Daemon
  BY SoleCompactor DEF DaemonOnly
<1>s. registry.frozen = NoMem \/ pc[Daemon] \in {"scan", "install"}
  BY DEF SoleCompactorInv, Harvested
<1>d. \A t \in Threads : pc[t] = "delete" => \E r \in Rows : arg[t] = {r}
  BY DEF SoleCompactorInv, HistoryInv
<1>v. ASSUME UNCHANGED <<registry, mem, alive, acked, late, erased, raced>>
      PROVE  UNCHANGED Contract!vars
  BY <1>v DEF Contract!vars, Visible, Surviving, FrozenRows
<1>1. ASSUME NEW t \in Clients, ClientCall(t)
      PROVE  SoleCompactorInv' /\ UNCHANGED Contract!vars
  <2>1. ASSUME NEW B \in SUBSET Rows \ {{}}, BeginInsert(t, B)
        PROVE  SoleCompactorInv' /\ UNCHANGED Contract!vars
    BY <1>0, <1>d, <1>v, <2>1, SoleFrame DEF BeginInsert, heap, history, TypeOK
  <2>2. ASSUME NEW r \in Rows, BeginDelete(t, r)
        PROVE  SoleCompactorInv' /\ UNCHANGED Contract!vars
    BY <1>0, <1>d, <1>v, <2>2, SoleFrame DEF BeginDelete, heap, history, TypeOK
  <2>3. QED
    BY <1>1, <2>1, <2>2 DEF ClientCall
<1>2. ASSUME NEW t \in Clients, ClientStep(t)
      PROVE  SoleCompactorInv' /\ [Contract!Next]_(Contract!vars)
  BY <1>2, AppendSole, ClearBitSole DEF ClientStep
<1>3. CASE SkipCompact(Daemon)
  BY <1>0, <1>d, <1>v, <1>3, SoleFrame DEF SkipCompact, heap, history, TypeOK, Home
<1>4. ASSUME Compaction(Daemon)
      PROVE  SoleCompactorInv' /\ [Contract!Next]_(Contract!vars)
  BY <1>3, <1>4, FreezeSole, ScanSole, CopySole, InstallSole DEF Compaction
<1>5. CASE StartDaemon \/ StopDaemon \/ DaemonExit
  BY <1>0, <1>d, <1>v, <1>5, SoleFrame
  DEF StartDaemon, StopDaemon, DaemonExit, heap, local, history, TypeOK
<1>6. CASE DaemonPeek \/ DaemonDecide
  BY <1>0, <1>d, <1>v, <1>6, SoleFrame
  DEF DaemonPeek, DaemonDecide, heap, history, TypeOK
<1>7. CASE UNCHANGED vars
  BY <1>d, <1>v, <1>7, SoleFrame DEF vars, heap, local, history
<1>8. QED
  BY <1>0, <1>1, <1>2, <1>4, <1>5, <1>6, <1>7 DEF Next, DaemonLoop

LEMMA DaemonInvariant == DaemonOnly => (Spec => []SoleCompactorInv)
<1> SUFFICES ASSUME DaemonOnly PROVE Spec => []SoleCompactorInv
  OBVIOUS
<1>1. TypeOK /\ LineageInv /\ SoleCompactorInv /\ [Next]_vars => SoleCompactorInv'
  BY NextSole
<1>2. QED
  BY <1>1, InitSole, TypeCorrect, LineageCorrect, PTL DEF Spec

\* With the daemon as the only compacting thread, an insert that returned is
\* lost only if its batch reached a memtable after the compaction copied it.
THEOREM AckedSurvive == DaemonOnly => (Spec => []AckedRowsSurvive)
<1> SUFFICES ASSUME DaemonOnly PROVE Spec => []AckedRowsSurvive
  OBVIOUS
<1>1. SoleCompactorInv => AckedRowsSurvive
  BY DEF SoleCompactorInv
<1>2. QED
  BY <1>1, DaemonInvariant, PTL

\* ... and a delete whose mask bit was cleared in time is never undone.
THEOREM ErasedStayAway == DaemonOnly => (Spec => []ErasedRowsStayAway)
<1> SUFFICES ASSUME DaemonOnly PROVE Spec => []ErasedRowsStayAway
  OBVIOUS
<1>1. SoleCompactorInv => ErasedRowsStayAway
  BY DEF SoleCompactorInv
<1>2. QED
  BY <1>1, DaemonInvariant, PTL

\* The whole store implements TableContract: every step of it is an insert, a
\* delete, a lost race or no change to the rows a query counts.
THEOREM StoreImplementsContract == DaemonOnly => (Spec => ImplementsContract)
<1> SUFFICES ASSUME DaemonOnly PROVE Spec => ImplementsContract
  OBVIOUS
<1>1. Init => Contract!Init
  <2> SUFFICES ASSUME Init PROVE Contract!Init
    OBVIOUS
  <2>1. TypeOK
    BY InitTypeOK
  <2>2. Visible(registry) \subseteq Rows
    BY <2>1, StatesTyped DEF Visible, TypeOK, TableState
  <2>3. late \cup raced = {}
    BY DEF Init
  <2>4. acked = Visible(registry)
    <3>1. 1 \in MemIds
      BY BoundsAssumption DEF MemIds
    <3>2. /\ mem[registry.active] = {} /\ FrozenRows(registry) = {}
          /\ acked = Preloaded /\ alive[1] = Preloaded
      BY <3>1 DEF Init, FrozenRows
    <3>3. registry.groups = IF Preloaded = {} THEN {} ELSE {1}
      BY DEF Init
    <3>4. Surviving(registry) = Preloaded
      BY <3>2, <3>3 DEF Surviving
    <3>5. QED
      BY <3>2, <3>4 DEF Visible
  <2>5. erased = {}
    BY DEF Init
  <2>6. QED
    BY <2>2, <2>3, <2>4, <2>5 DEF Contract!Init
<1>2. TypeOK /\ LineageInv /\ SoleCompactorInv /\ [Next]_vars
        => [Contract!Next]_(Contract!vars)
  BY NextSole
<1>3. QED
  BY <1>1, <1>2, DaemonInvariant, TypeCorrect, LineageCorrect, PTL
  DEF Spec, ImplementsContract, Contract!Spec
-----------------------------------------------------------------------------
(* The two maps of TableStates, and queries over them.                     *)

\* The states that somebody holds outside the registry.
GlobalTypeOK ==
    /\ globalTables \subseteq TableState
    /\ gst \in [Operators -> TableState]
    /\ qst \in [Readers -> TableState]
    /\ qpc \in [Readers -> {"idle", "look", "groups", "frozen", "done", "empty"}]
    /\ qtodo \in [Readers -> SUBSET Rows]
    /\ qgot \in [Readers -> SUBSET Rows]
    /\ count \in [Readers -> Nat]

\* They are made of memtables and groups in the order in which they came to
\* be, like the published one: what GroupsAreOlder says of any group then
\* keeps their containers apart.
HeldOrdered ==
    /\ \A s \in globalTables : Ordered(s)
    /\ \A o \in Operators : Ordered(gst[o])
    /\ \A q \in Readers : Ordered(qst[q])

HeldInv == TypeOK /\ LineageInv /\ GlobalTypeOK /\ HeldOrdered

\* Steps that replace no state but by one there is already, and lose no
\* memtable number.
LEMMA HeldFrame ==
  ASSUME HeldInv, nmem <= nmem', TypeOK',
         globalTables' \subseteq globalTables \cup {registry}
            \cup {gst[o] : o \in Operators},
         \A o \in Operators : gst'[o] \in {gst[o], NoState, registry} \cup globalTables,
         \A q \in Readers : qst'[q] \in {qst[q], NoState, registry} \cup globalTables
  PROVE  HeldOrdered'
<1>1. \A s \in TableState : Ordered(s) => Ordered(s)'
  BY DEF Ordered, HeldInv, TypeOK, TableState, MemIds
<1>2. Ordered(registry) /\ registry \in TableState
  BY DEF HeldInv, LineageInv, StatesOrdered, TypeOK
<1>3. Ordered(NoState) /\ NoState \in TableState
  BY NoStateOrdered, NoStateTyped DEF HeldInv
<1>4. /\ \A s \in globalTables : Ordered(s) /\ s \in TableState
      /\ \A o \in Operators : Ordered(gst[o]) /\ gst[o] \in TableState
      /\ \A q \in Readers : Ordered(qst[q]) /\ qst[q] \in TableState
  BY DEF HeldInv, HeldOrdered, GlobalTypeOK
<1>5. ASSUME NEW s \in globalTables' PROVE Ordered(s)'
  BY <1>1, <1>2, <1>4
<1>6. ASSUME NEW o \in Operators PROVE Ordered(gst[o])'
  <2>1. gst'[o] \in TableState /\ Ordered(gst'[o])
    BY <1>2, <1>3, <1>4
  <2>2. QED
    BY <1>1, <2>1 DEF Ordered
<1>7. ASSUME NEW q \in Readers PROVE Ordered(qst[q])'
  <2>1. qst'[q] \in TableState /\ Ordered(qst'[q])
    BY <1>2, <1>3, <1>4
  <2>2. QED
    BY <1>1, <2>1 DEF Ordered
<1>8. QED
  BY <1>5, <1>6, <1>7 DEF HeldOrdered

LEMMA InitHeld == GlobalInit => HeldInv
<1> SUFFICES ASSUME GlobalInit PROVE HeldInv
  OBVIOUS
<1>1. TypeOK /\ LineageInv
  BY InitTypeOK, InitLineage DEF GlobalInit
<1>2. GlobalTypeOK
  BY NoStateTyped DEF GlobalInit, QueryInit, GlobalTypeOK
<1>3. HeldOrdered
  BY <1>1, NoStateOrdered DEF GlobalInit, QueryInit, HeldOrdered
<1>4. QED
  BY <1>1, <1>2, <1>3 DEF HeldInv

\* Registering through the global map makes two memtables and two states, the
\* only step that puts a state into a map which nobody held before.
LEMMA RegisterGlobalHeld ==
  ASSUME HeldInv, NEW o \in Operators, RegisterGlobal(o)
  PROVE  HeldInv'
<1> USE DEF HeldInv
<1>1. /\ nmem \in MemIds /\ nmem + 1 \in MemIds /\ nmem + 2 \in MemIds
      /\ nmem' = nmem + 2
      /\ registry' = Registered(nmem + 2)
      /\ globalTables' = {Registered(nmem + 1)}
  BY BoundsAssumption DEF RegisterGlobal, TypeOK, MemIds
<1>2. UNCHANGED <<mem, groupRows, alive, pc, st, arg, todo, got, running, acked,
                  late, erased, raced, qpc, qst, qtodo, qgot, count, gpc, gst>>
  BY DEF RegisterGlobal, local, history, readers, operators
<1>3. ASSUME NEW m \in MemIds, m <= nmem + 2
      PROVE  Registered(m) \in TableState /\ Ordered(Registered(m))'
  BY <1>1, <1>3 DEF Registered, TableState, Ordered, NoMem, MemIds
<1>4. TypeOK'
  BY <1>1, <1>2, <1>3 DEF TypeOK, MemIds
<1>5. ASSUME NEW s \in TableState, Ordered(s) PROVE Ordered(s)'
  BY <1>1, <1>5 DEF Ordered, TableState, MemIds
<1>6. StatesOrdered'
  <2>1. Ordered(registry)'
    BY <1>1, <1>3 DEF Ordered, MemIds
  <2>2. ASSUME NEW t \in Threads PROVE Ordered(st[t])'
    BY <1>2, <1>5 DEF TypeOK, LineageInv, StatesOrdered, Ordered
  <2>3. QED
    BY <2>1, <2>2 DEF StatesOrdered
<1>7. LineageInv'
  BY <1>2, <1>6, LineageFrame
<1>8. GlobalTypeOK'
  BY <1>1, <1>2, <1>3 DEF GlobalTypeOK, MemIds
<1>9. HeldOrdered'
  <2>1. ASSUME NEW s \in globalTables' PROVE Ordered(s)'
    BY <1>1, <1>3 DEF MemIds
  <2>2. ASSUME NEW p \in Operators PROVE Ordered(gst[p])'
    BY <1>2, <1>5 DEF GlobalTypeOK, HeldOrdered, Ordered
  <2>3. ASSUME NEW q \in Readers PROVE Ordered(qst[q])'
    BY <1>2, <1>5 DEF GlobalTypeOK, HeldOrdered, Ordered
  <2>4. QED
    BY <2>1, <2>2, <2>3 DEF HeldOrdered
<1>10. QED
  BY <1>4, <1>7, <1>8, <1>9

\* SyncLocalNode may take back what a compaction has installed: the state it
\* publishes is old, and ordered all the same.
LEMMA OperateHeld ==
  ASSUME HeldInv, NEW o \in Operators, Operate(o)
  PROVE  HeldInv'
<1> USE DEF HeldInv
<1>t. gst[o] \in TableState /\ registry \in TableState /\ NoState \in TableState
  BY NoStateTyped DEF GlobalTypeOK, TypeOK
<1>1. CASE RegisterGlobal(o)
  BY <1>1, RegisterGlobalHeld
<1>2. CASE EndSync(o)
  <2>1. /\ registry' = gst[o] /\ gst' = [gst EXCEPT ![o] = NoState]
        /\ UNCHANGED <<heap, pc, local, running, history, readers, globalTables>>
    BY <1>2 DEF EndSync, Leave
  <2>2. TypeOK'
    BY <1>t, <2>1 DEF TypeOK, heap, local, history
  <2>3. StatesOrdered'
    BY <2>1 DEF LineageInv, StatesOrdered, HeldOrdered, Ordered, heap, local
  <2>4. LineageInv'
    BY <2>1, <2>3, LineageFrame DEF heap, local
  <2>5. GlobalTypeOK'
    BY <1>t, <2>1 DEF GlobalTypeOK, readers
  <2>6. HeldOrdered'
    BY <2>1, <2>2, HeldFrame DEF GlobalTypeOK, heap, readers, TypeOK, MemIds
  <2>7. QED
    BY <2>2, <2>4, <2>5, <2>6
<1>3. CASE BeginSync(o) \/ BeginPublish(o) \/ EndPublish(o) \/ ClearGlobal(o)
  <2>1. UNCHANGED <<vars, readers>>
    BY <1>3 DEF BeginSync, BeginPublish, Enter, EndPublish, ClearGlobal
  <2>2. TypeOK' /\ LineageInv'
    BY <2>1, NextTypeOK, NextLineage
  <2>3. /\ globalTables' \subseteq globalTables \cup {gst[o]}
        /\ \E x \in {gst[o], NoState, registry} \cup globalTables :
              gst' = [gst EXCEPT ![o] = x]
    <3>1. CASE BeginSync(o) \/ BeginPublish(o)
      BY <3>1 DEF BeginSync, BeginPublish, Enter
    <3>2. CASE EndPublish(o)
      BY <3>2 DEF EndPublish, Leave
    <3>3. CASE ClearGlobal(o)
      BY <3>3 DEF ClearGlobal, operators, GlobalTypeOK
    <3>4. QED
      BY <1>3, <3>1, <3>2, <3>3
  <2>4. GlobalTypeOK'
    BY <1>t, <2>1, <2>3 DEF GlobalTypeOK, readers
  <2>5. HeldOrdered'
    BY <2>1, <2>2, <2>3, HeldFrame DEF GlobalTypeOK, vars, heap, readers, TypeOK, MemIds
  <2>6. QED
    BY <2>2, <2>4, <2>5
<1>4. QED
  BY <1>1, <1>2, <1>3 DEF Operate

LEMMA NextAllocates == TypeOK /\ Next => nmem <= nmem'
<1> SUFFICES ASSUME TypeOK, Next PROVE nmem <= nmem'
  OBVIOUS
<1>1. nmem' \in {nmem, nmem + 1}
  BY DEF Next, ClientCall, BeginInsert, BeginDelete, ClientStep, AppendBatch,
         ClearBit, BeginCompact, RegisterTable, Compaction, SkipCompact, Freeze,
         ScanBlock, CopyFrozen, Install, StartDaemon, StopDaemon, DaemonLoop,
         DaemonPeek, DaemonDecide, DaemonExit, heap
<1>2. QED
  BY <1>1 DEF TypeOK, MemIds

LEMMA StoreHeld ==
  ASSUME HeldInv, Next, UNCHANGED <<readers, globals>>
  PROVE  HeldInv'
<1>1. TypeOK' /\ LineageInv'
  BY NextTypeOK, NextLineage DEF HeldInv
<1>2. GlobalTypeOK'
  BY DEF HeldInv, GlobalTypeOK, readers, globals, operators
<1>3. HeldOrdered'
  BY <1>1, NextAllocates, HeldFrame DEF HeldInv, readers, globals, operators
<1>4. QED
  BY <1>1, <1>2, <1>3 DEF HeldInv

LEMMA RowsCounted == \A R \in SUBSET Rows : IsFiniteSet(R) /\ Cardinality(R) \in Nat
  BY FiniteAssumption, FS_Subset, FS_CardinalityType

LEMMA ReaderHeld ==
  ASSUME HeldInv, NEW q \in Readers, Query(q) \/ BeginWireQuery(q) \/ Look(q),
         UNCHANGED <<vars, globals>>
  PROVE  HeldInv'
<1> USE DEF HeldInv
<1>1. TypeOK' /\ LineageInv'
  BY NextTypeOK, NextLineage
<1>2. /\ qst[q] \in TableState /\ registry \in TableState
      /\ \A s \in globalTables : s \in TableState
  BY DEF GlobalTypeOK, TypeOK
<1>3. ASSUME NEW s \in {registry} \cup globalTables, NEW where \in {"groups", "look"},
             TakeState(q, s, where)
      PROVE  GlobalTypeOK' /\ qst' = [qst EXCEPT ![q] = s]
  <2>1. Stored(s) \in SUBSET Rows
    BY <1>2, StatesTyped
  <2>2. QED
    BY <1>2, <1>3, <2>1 DEF TakeState, GlobalTypeOK, globals, operators
<1>4. CASE BeginQuery(q) \/ BeginWireQuery(q)
  <2>1. PICK s \in {registry} \cup globalTables, where \in {"groups", "look"} :
           TakeState(q, s, where)
    BY <1>4 DEF BeginQuery, BeginWireQuery
  <2>2. GlobalTypeOK' /\ qst' = [qst EXCEPT ![q] = s]
    BY <1>3, <2>1
  <2>3. HeldOrdered'
    BY <1>1, <2>2, HeldFrame DEF GlobalTypeOK, vars, heap, globals, operators, TypeOK, MemIds
  <2>4. QED
    BY <1>1, <2>2, <2>3
<1>5. ASSUME NEW R \in SUBSET Rows, Counted(q, R)
      PROVE  qgot' \in [Readers -> SUBSET Rows] /\ count' \in [Readers -> Nat]
  BY <1>5, RowsCounted DEF Counted, GlobalTypeOK
<1>6. ASSUME NEW K \in SUBSET qtodo[q], QueryBlock(q, K) PROVE GlobalTypeOK'
  <2>1. K \cap Surviving(qst[q]) \in SUBSET Rows
    BY <1>2, StatesTyped
  <2>2. QED
    BY <1>5, <1>6, <2>1 DEF QueryBlock, GlobalTypeOK, globals, operators
<1>7. ASSUME QueryActive(q) PROVE GlobalTypeOK'
  <2>1. mem[qst[q].active] \in SUBSET Rows
    BY <1>2 DEF TypeOK, TableState
  <2>2. QED
    BY <1>5, <1>7, <2>1 DEF QueryActive, GlobalTypeOK, globals, operators
<1>8. ASSUME QueryFrozen(q) PROVE GlobalTypeOK'
  <2>1. FrozenRows(qst[q]) \in SUBSET Rows
    BY <1>2, StatesTyped
  <2>2. QED
    BY <1>5, <1>8, <2>1 DEF QueryFrozen, GlobalTypeOK, globals, operators
<1>9. ASSUME EndQuery(q) PROVE GlobalTypeOK'
  BY <1>9, NoStateTyped DEF EndQuery, GlobalTypeOK, globals, operators
<1>10. ASSUME Look(q) PROVE GlobalTypeOK'
  BY <1>10 DEF Look, GlobalTypeOK, globals, operators
<1>11. ASSUME \/ \E K \in SUBSET qtodo[q] : QueryBlock(q, K)
              \/ QueryActive(q) \/ QueryFrozen(q) \/ EndQuery(q) \/ Look(q)
       PROVE  HeldInv'
  <2>1. GlobalTypeOK'
    BY <1>6, <1>7, <1>8, <1>9, <1>10, <1>11
  <2>2. qst' = qst \/ qst' = [qst EXCEPT ![q] = NoState]
    BY <1>11 DEF QueryBlock, QueryActive, QueryFrozen, EndQuery, Look
  <2>3. HeldOrdered'
    BY <1>1, <2>2, HeldFrame DEF GlobalTypeOK, vars, heap, globals, operators, TypeOK, MemIds
  <2>4. QED
    BY <1>1, <2>1, <2>3
<1>12. QED
  BY <1>4, <1>11 DEF Query

LEMMA NextHeld == HeldInv /\ [GlobalNext]_gvars => HeldInv'
<1> SUFFICES ASSUME HeldInv, [GlobalNext]_gvars PROVE HeldInv'
  OBVIOUS
<1>1. CASE UNCHANGED gvars
  <2>1. TypeOK' /\ LineageInv'
    BY <1>1, NextTypeOK, NextLineage DEF gvars, HeldInv
  <2>2. GlobalTypeOK'
    BY <1>1 DEF gvars, HeldInv, GlobalTypeOK, readers, globals, operators
  <2>3. HeldOrdered'
    BY <1>1, <2>1, HeldFrame
    DEF gvars, vars, heap, readers, globals, operators, HeldInv, TypeOK, MemIds
  <2>4. QED
    BY <2>1, <2>2, <2>3 DEF HeldInv
<1>2. QED
  BY <1>1, StoreHeld, OperateHeld, ReaderHeld DEF GlobalNext

\* However often the two maps are copied over each other, in the middle of
\* compactions and queries, no state anybody holds has a row twice.
THEOREM RowsCountOnceAnywhere == GlobalSpec => []NoRowTwiceAnywhere
<1>1. HeldInv => NoRowTwiceAnywhere
  BY OrderedCountsOnce, LineageCountsOnce
  DEF HeldInv, GlobalTypeOK, HeldOrdered, NoRowTwiceAnywhere
<1>2. QED
  BY <1>1, InitHeld, NextHeld, PTL DEF GlobalSpec
-----------------------------------------------------------------------------
(* What a query has counted *)

\* The rows of memtables before the first one of state s.
Behind(s) == Older(IF s.frozen = NoMem THEN s.active ELSE s.frozen)

\* What a query has counted lies behind what it goes on to.  This stays true
\* while memtables grow and groups are replaced, which the rows themselves do
\* not: Stored(qst[q]) may change under the query.
Scanned(q) ==
    /\ qgot[q] \cap qtodo[q] = {}
    /\ qpc[q] \in {"idle", "look", "empty"} => qgot[q] = {}
    /\ qpc[q] = "groups" => qgot[q] \subseteq Behind(qst[q])
    /\ qpc[q] = "frozen" =>
          qtodo[q] = {} /\ qgot[q] \subseteq Behind(qst[q]) \cup mem[qst[q].active]

CountInv == TotalCountsRowsOnce /\ \A q \in Readers : Scanned(q)

LEMMA PartsApart ==
  ASSUME HeldInv, NEW s \in TableState, Ordered(s)
  PROVE  /\ Surviving(s) \subseteq Behind(s)
         /\ Behind(s) \cap mem[s.active] = {}
         /\ (Behind(s) \cup mem[s.active]) \cap FrozenRows(s) = {}
<1> DEFINE m == IF s.frozen = NoMem THEN s.active ELSE s.frozen
<1> USE DEF HeldInv, LineageInv
<1>1. /\ s.active \in MemIds /\ s.groups \subseteq MemIds /\ m \in MemIds
      /\ m <= s.active /\ \A g \in s.groups : g <= m
      /\ s.frozen # NoMem => m < s.active /\ m = s.frozen
  BY DEF TableState, Ordered, MemIds
<1>2. \A k \in MemIds : k >= m => Older(m) \cap mem[k] = {}
  BY <1>1 DEF Older, MemTablesDisjoint, MemIds
<1>3. ASSUME NEW g \in s.groups PROVE alive[g] \subseteq Older(m)
  <2>1. \A j \in MemIds : j < g => j < m
    BY <1>1 DEF MemIds
  <2>2. QED
    BY <1>1, <2>1 DEF GroupsAreOlder, Older
<1>4. Surviving(s) \subseteq Older(m)
  BY <1>3 DEF Surviving
<1>5. Older(m) \cap mem[s.active] = {}
  BY <1>1, <1>2 DEF MemIds
<1>6. Older(m) \cap FrozenRows(s) = {}
  BY <1>1, <1>2 DEF FrozenRows, MemIds
<1>7. mem[s.active] \cap FrozenRows(s) = {}
  BY OrderedCountsOnce DEF CountsOnce
<1>8. QED
  BY <1>4, <1>5, <1>6, <1>7 DEF Behind

LEMMA NextAppends ==
  ASSUME TypeOK, Next
  PROVE  \A m \in MemIds : mem[m] \subseteq mem'[m]
<1>1. ASSUME NEW t \in Clients, AppendBatch(t)
      PROVE  \A m \in MemIds : mem[m] \subseteq mem'[m]
  BY <1>1 DEF AppendBatch, TypeOK
<1>2. mem' = mem \/ \E t \in Clients : AppendBatch(t)
  BY DEF Next, ClientCall, BeginInsert, BeginDelete, ClientStep, ClearBit,
         BeginCompact, RegisterTable, Compaction, SkipCompact, Freeze, ScanBlock,
         CopyFrozen, Install, StartDaemon, StopDaemon, DaemonLoop, DaemonPeek,
         DaemonDecide, DaemonExit, heap
<1>3. QED
  BY <1>1, <1>2

\* A query that does not move is disturbed by nothing that happens to the store.
LEMMA CountFrame ==
  ASSUME HeldInv, CountInv, UNCHANGED readers,
         \A m \in MemIds : mem[m] \subseteq mem'[m]
  PROVE  CountInv'
<1>1. UNCHANGED <<qpc, qst, qtodo, qgot, count>>
  BY DEF readers
<1>2. TotalCountsRowsOnce'
  BY <1>1 DEF CountInv, TotalCountsRowsOnce
<1>3. ASSUME NEW q \in Readers PROVE Scanned(q)'
  <2>1. qst[q].active \in MemIds
    BY DEF HeldInv, GlobalTypeOK, TableState
  <2>2. \A m : Older(m) \subseteq Older(m)'
    BY DEF Older
  <2>3. Behind(qst[q]) \subseteq Behind(qst[q])'
    BY <1>1, <2>2 DEF Behind
  <2>4. mem[qst[q].active] \subseteq mem'[qst'[q].active]
    BY <1>1, <2>1
  <2>5. QED
    BY <1>1, <2>3, <2>4 DEF CountInv, Scanned
<1>4. QED
  BY <1>2, <1>3 DEF CountInv

LEMMA CountedApart ==
  ASSUME HeldInv, CountInv, NEW q \in Readers, NEW R \in SUBSET Rows,
         Counted(q, R), qgot[q] \cap R = {}
  PROVE  /\ TotalCountsRowsOnce'
         /\ qgot' = [qgot EXCEPT ![q] = qgot[q] \cup R]
<1>1. /\ qgot' = [qgot EXCEPT ![q] = qgot[q] \cup R]
      /\ count' = [count EXCEPT ![q] = count[q] + Cardinality(R)]
  BY DEF Counted
<1>2. qgot[q] \in SUBSET Rows
  BY DEF HeldInv, GlobalTypeOK
<1>3. IsFiniteSet(R) /\ IsFiniteSet(qgot[q])
      /\ Cardinality(R) \in Nat /\ Cardinality(qgot[q]) \in Nat
  BY <1>2, RowsCounted
<1>4. Cardinality({}) = 0
  BY FS_EmptySet
<1>5. Cardinality(qgot[q] \cup R) = Cardinality(qgot[q]) + Cardinality(R)
  <2>1. Cardinality(qgot[q] \cup R)
          = Cardinality(qgot[q]) + Cardinality(R) - Cardinality(qgot[q] \cap R)
    BY <1>3, FS_Union
  <2>2. Cardinality(qgot[q] \cap R) = 0
    BY <1>4
  <2>3. QED
    BY <1>3, <2>1, <2>2
<1>6. count[q] = Cardinality(qgot[q])
  BY DEF CountInv, TotalCountsRowsOnce
<1>7. ASSUME NEW p \in Readers PROVE count'[p] = Cardinality(qgot'[p])
  <2>1. CASE p = q
    BY <1>1, <1>5, <1>6, <2>1 DEF HeldInv, GlobalTypeOK
  <2>2. CASE p # q
    BY <1>1, <2>2 DEF HeldInv, GlobalTypeOK, CountInv, TotalCountsRowsOnce
  <2>3. QED
    BY <2>1, <2>2
<1>8. QED
  BY <1>1, <1>7 DEF TotalCountsRowsOnce

LEMMA ReaderCounts ==
  ASSUME HeldInv, CountInv, NEW q \in Readers,
         Query(q) \/ BeginWireQuery(q) \/ Look(q), UNCHANGED <<vars, globals>>
  PROVE  CountInv'
<1> DEFINE s == qst[q]
<1>1. /\ s \in TableState /\ Ordered(s) /\ s.active \in MemIds
      /\ qgot[q] \in SUBSET Rows
  BY DEF HeldInv, GlobalTypeOK, HeldOrdered, TableState
<1>2. /\ Surviving(s) \in SUBSET Rows /\ FrozenRows(s) \in SUBSET Rows
      /\ mem[s.active] \in SUBSET Rows
  BY <1>1, StatesTyped DEF HeldInv, TypeOK
<1>3. /\ Surviving(s) \subseteq Behind(s)
      /\ Behind(s) \cap mem[s.active] = {}
      /\ (Behind(s) \cup mem[s.active]) \cap FrozenRows(s) = {}
  BY <1>1, PartsApart
<1>4. mem' = mem /\ \A z : Behind(z)' = Behind(z)
  BY DEF vars, heap, Behind, Older
<1>5. Scanned(q) /\ \A p \in Readers : Scanned(p)
  BY DEF CountInv
\* The other readers.
<1>6. ASSUME qpc' = [qpc EXCEPT ![q] = qpc'[q]], qst' = [qst EXCEPT ![q] = qst'[q]],
             qtodo' = [qtodo EXCEPT ![q] = qtodo'[q]],
             qgot' = [qgot EXCEPT ![q] = qgot'[q]],
             Scanned(q)', TotalCountsRowsOnce'
      PROVE  CountInv'
  <2>1. ASSUME NEW p \in Readers, p # q PROVE Scanned(p)'
    <3>1. /\ qpc'[p] = qpc[p] /\ qst'[p] = qst[p]
          /\ qtodo'[p] = qtodo[p] /\ qgot'[p] = qgot[p]
      BY <1>6, <2>1 DEF HeldInv, GlobalTypeOK
    <3>2. Behind(qst[p])' = Behind(qst[p])
      BY <1>4, <3>1 DEF Behind, Older
    <3>3. QED
      BY <1>4, <1>5, <3>1, <3>2 DEF Scanned
  <2>2. QED
    BY <1>6, <2>1 DEF CountInv
<1> USE DEF HeldInv, GlobalTypeOK
<1>7. ASSUME NEW x, NEW where \in {"groups", "look"}, TakeState(q, x, where)
      PROVE  CountInv'
  <2>1. /\ qgot[q] = {} /\ UNCHANGED <<qgot, count>> /\ qpc'[q] = where
        /\ qpc' = [qpc EXCEPT ![q] = qpc'[q]] /\ qst' = [qst EXCEPT ![q] = qst'[q]]
        /\ qtodo' = [qtodo EXCEPT ![q] = qtodo'[q]]
        /\ qgot' = [qgot EXCEPT ![q] = qgot'[q]]
    BY <1>5, <1>7 DEF TakeState, Scanned
  <2>2. Scanned(q)' /\ TotalCountsRowsOnce'
    BY <2>1 DEF Scanned, CountInv, TotalCountsRowsOnce
  <2>3. QED
    BY <1>6, <2>1, <2>2
<1>8. ASSUME NEW K \in SUBSET qtodo[q], QueryBlock(q, K) PROVE CountInv'
  <2> DEFINE R == K \cap Surviving(s)
  <2>1. qgot[q] \cap R = {} /\ qgot[q] \subseteq Behind(s) /\ R \in SUBSET Rows
    BY <1>2, <1>5, <1>8 DEF QueryBlock, Scanned
  <2>2. TotalCountsRowsOnce' /\ qgot' = [qgot EXCEPT ![q] = qgot[q] \cup R]
    BY <1>8, <2>1, CountedApart DEF QueryBlock
  <2>3. /\ UNCHANGED <<qpc, qst>> /\ qpc[q] = "groups"
        /\ qtodo' = [qtodo EXCEPT ![q] = qtodo[q] \ K]
    BY <1>8 DEF QueryBlock
  <2>4. Scanned(q)'
    <3>1. qgot'[q] = qgot[q] \cup R /\ qtodo'[q] = qtodo[q] \ K
      BY <2>2, <2>3
    <3>2. qgot'[q] \cap qtodo'[q] = {}
      BY <1>5, <3>1 DEF Scanned
    <3>3. qgot'[q] \subseteq Behind(qst[q])'
      BY <1>3, <1>4, <2>1, <2>3, <3>1 DEF Behind, Older
    <3>4. QED
      BY <2>3, <3>2, <3>3 DEF Scanned
  <2>5. QED
    BY <1>6, <2>2, <2>3, <2>4
<1>9. ASSUME QueryActive(q) PROVE CountInv'
  <2>1. qgot[q] \subseteq Behind(s) /\ qtodo[q] = {}
    BY <1>5, <1>9 DEF QueryActive, Scanned
  <2>2. qgot[q] \cap mem[s.active] = {}
    BY <1>3, <2>1
  <2>3. /\ TotalCountsRowsOnce'
        /\ qgot' = [qgot EXCEPT ![q] = qgot[q] \cup mem[s.active]]
    BY <1>2, <1>9, <2>2, CountedApart DEF QueryActive
  <2>4. UNCHANGED <<qst, qtodo>> /\ qpc' = [qpc EXCEPT ![q] = "frozen"]
    BY <1>9 DEF QueryActive
  <2>5. Scanned(q)'
    <3>1. qgot'[q] = qgot[q] \cup mem[s.active] /\ qpc'[q] = "frozen"
      BY <2>3, <2>4
    <3>2. qgot'[q] \subseteq Behind(qst[q])' \cup mem'[qst'[q].active]
      BY <1>4, <2>1, <2>4, <3>1 DEF Behind, Older
    <3>3. QED
      BY <2>1, <2>4, <3>1, <3>2 DEF Scanned
  <2>6. QED
    BY <1>6, <2>3, <2>4, <2>5
<1>10. ASSUME QueryFrozen(q) PROVE CountInv'
  <2>1. qgot[q] \subseteq Behind(s) \cup mem[s.active]
    BY <1>5, <1>10 DEF QueryFrozen, Scanned
  <2>2. qgot[q] \cap FrozenRows(s) = {}
    BY <1>3, <2>1
  <2>3. /\ TotalCountsRowsOnce'
        /\ qgot' = [qgot EXCEPT ![q] = qgot[q] \cup FrozenRows(s)]
    BY <1>2, <1>10, <2>2, CountedApart DEF QueryFrozen
  <2>4. UNCHANGED <<qst, qtodo>> /\ qpc' = [qpc EXCEPT ![q] = "done"]
    BY <1>10 DEF QueryFrozen
  <2>5. Scanned(q)'
    <3>1. qpc'[q] = "done"
      BY <2>4
    <3>2. qtodo'[q] = {}
      BY <1>5, <1>10, <2>4 DEF QueryFrozen, Scanned
    <3>3. QED
      BY <3>1, <3>2 DEF Scanned
  <2>6. QED
    BY <1>6, <2>3, <2>4, <2>5
<1>11. ASSUME EndQuery(q) PROVE CountInv'
  <2>1. /\ qgot' = [qgot EXCEPT ![q] = {}] /\ count' = [count EXCEPT ![q] = 0]
        /\ qpc' = [qpc EXCEPT ![q] = "idle"] /\ qtodo' = [qtodo EXCEPT ![q] = {}]
        /\ qst' = [qst EXCEPT ![q] = NoState]
    BY <1>11 DEF EndQuery
  <2>2. TotalCountsRowsOnce'
    BY <2>1, FS_EmptySet DEF CountInv, TotalCountsRowsOnce
  <2>3. Scanned(q)'
    BY <2>1 DEF Scanned
  <2>4. QED
    BY <1>6, <2>1, <2>2, <2>3
<1>12. ASSUME Look(q) PROVE CountInv'
  <2>1. /\ UNCHANGED <<qst, qtodo, qgot, count>> /\ qgot[q] = {}
        /\ qpc' = [qpc EXCEPT ![q] = qpc'[q]] /\ qpc'[q] \in {"empty", "groups"}
    BY <1>5, <1>12 DEF Look, Scanned
  <2>2. TotalCountsRowsOnce' /\ Scanned(q)'
    BY <2>1 DEF CountInv, TotalCountsRowsOnce, Scanned
  <2>3. QED
    BY <1>6, <2>1, <2>2
<1>13. QED
  BY <1>7, <1>8, <1>9, <1>10, <1>11, <1>12 DEF Query, BeginQuery, BeginWireQuery

LEMMA NextCounts == HeldInv /\ CountInv /\ [GlobalNext]_gvars => CountInv'
<1> SUFFICES ASSUME HeldInv, CountInv, [GlobalNext]_gvars PROVE CountInv'
  OBVIOUS
<1>1. ASSUME UNCHANGED <<mem, readers>> PROVE CountInv'
  BY <1>1, CountFrame
<1>2. CASE Next /\ UNCHANGED <<readers, globals>>
  BY <1>2, NextAppends, CountFrame DEF HeldInv
<1>3. ASSUME NEW o \in Operators, Operate(o) PROVE CountInv'
  BY <1>1, <1>3 DEF Operate, RegisterGlobal, BeginSync, EndSync, BeginPublish,
     EndPublish, ClearGlobal, Enter, vars, heap
<1>4. CASE UNCHANGED gvars
  BY <1>1, <1>4 DEF gvars, vars, heap
<1>5. QED
  BY <1>2, <1>3, <1>4, ReaderCounts DEF GlobalNext

LEMMA InitCounts == GlobalInit => CountInv
<1>1. Cardinality({}) = 0
  BY FS_EmptySet
<1>2. QED
  BY <1>1 DEF GlobalInit, QueryInit, CountInv, TotalCountsRowsOnce, Scanned

\* The total of every query counts every row once, for any number of readers,
\* whatever inserts, compactions and synchronizations do meanwhile.
THEOREM TotalsCountOnce == GlobalSpec => []TotalCountsRowsOnce
<1>1. CountInv => TotalCountsRowsOnce
  BY DEF CountInv
<1>2. QED
  BY <1>1, InitCounts, InitHeld, NextHeld, NextCounts, PTL DEF GlobalSpec
-----------------------------------------------------------------------------
(* What a query answers, compared with what was there when it began *)

\* The states in somebody's hands.
Held == {registry} \cup globalTables \cup {st[t] : t \in Threads}
            \cup {gst[o] : o \in Operators} \cup {qst[q] : q \in Readers}

Building == {t \in Compactors : pc[t] \in {"scan", "install"}}

\* A compaction builds its row group under the number of the memtable that it
\* allocated, and nobody holds a state with a group of that number yet: what
\* it installs replaces no group that a query is reading.
GroupsUnheld ==
    /\ \A t, u \in Building : t # u => st[t].active # st[u].active
    /\ \A t \in Building : \A s \in Held : st[t].active \notin s.groups

\* The rows that query q has still to come to.
Ahead(q) ==
    (IF qpc[q] \in {"look", "groups"}
     THEN (qtodo[q] \cap Surviving(qst[q])) \cup mem[qst[q].active] ELSE {})
        \cup (IF qpc[q] = "done" THEN {} ELSE FrozenRows(qst[q]))

\* The containers of the state under query q lose rows to DeleteRow only, and
\* gain none of those that were there when it began.
PastShown(q) ==
    /\ Surviving(qst[q]) \subseteq qshown[q]
    /\ mem[qst[q].active] \cap qpast[q] \subseteq qshown[q]
    /\ FrozenRows(qst[q]) \cap qpast[q] \subseteq qshown[q]
    /\ qgot[q] \cap qpast[q] \subseteq qshown[q]

\* A row shown to q is counted, ahead or deleted.
NoneLost(q) == qshown[q] \ erased \subseteq qgot[q] \cup Ahead(q)

PastInv ==
    /\ qpast \in [Readers -> SUBSET Rows] /\ qshown \in [Readers -> SUBSET Rows]
    /\ GroupsUnheld
    /\ \A q \in Readers : /\ qpast[q] \subseteq Appended
                          /\ qpc[q] = "idle" => qpast[q] = {} /\ qshown[q] = {}
                          /\ PastShown(q)
                          /\ NoneLost(q)

LEMMA HeldTyped ==
  HeldInv => \A s \in Held : /\ s \in TableState /\ Ordered(s)
                            /\ \A g \in s.groups : g \in MemIds /\ g <= nmem
<1> SUFFICES ASSUME HeldInv, NEW s \in Held
             PROVE  /\ s \in TableState /\ Ordered(s)
                    /\ \A g \in s.groups : g \in MemIds /\ g <= nmem
  OBVIOUS
<1>1. s \in TableState
  BY DEF HeldInv, TypeOK, GlobalTypeOK, Held
<1>2. Ordered(s)
  BY DEF HeldInv, LineageInv, StatesOrdered, HeldOrdered, Held
<1>3. QED
  BY <1>1, <1>2 DEF HeldInv, TypeOK, TableState, Ordered, MemIds

\* Steps that start no compaction and make no state with a new group.
LEMMA UnheldFrame ==
  ASSUME GroupsUnheld, Building' \subseteq Building,
         \A t \in Building' : st'[t].active = st[t].active,
         \A s \in Held' : s.groups = {} \/ \E h \in Held : s.groups = h.groups
  PROVE  GroupsUnheld'
  BY DEF GroupsUnheld

LEMMA FreezeUnheld ==
  ASSUME HeldInv, GroupsUnheld, NEW t \in Compactors, Freeze(t),
         UNCHANGED <<readers, globals>>
  PROVE  GroupsUnheld'
<1>t. t \in Threads /\ st[t] \in Held /\ registry \in Held /\ nmem \in Nat
  BY ThreadsAssumption DEF HeldInv, TypeOK, Compactors, Threads, Held, MemIds
<1>1. /\ registry' = FreezeState(st[t])
      /\ st' = [st EXCEPT ![t] = FreezeState(st[t])]
      /\ pc' = [pc EXCEPT ![t] = "scan"]
      /\ UNCHANGED <<qst, gst, globalTables>>
  BY DEF Freeze, readers, globals, operators
<1>2. FreezeState(st[t]).groups = st[t].groups /\ FreezeState(st[t]).active = nmem + 1
  BY DEF FreezeState
<1>3. \A s \in Held' : \E h \in Held : s.groups = h.groups
  BY <1>t, <1>1, <1>2 DEF Held, HeldInv, TypeOK
<1>4. \A s \in Held : s.active <= nmem /\ s.active \in Nat /\ nmem + 1 \notin s.groups
  BY <1>t, HeldTyped DEF Ordered, TableState, MemIds
<1>5. /\ st'[t].active = nmem + 1 /\ t \in Building'
      /\ \A u \in Building' \ {t} : u \in Building /\ st'[u] = st[u]
  BY <1>t, <1>1, <1>2, ThreadsAssumption
  DEF Building, HeldInv, TypeOK, Compactors, Threads
<1>6. \A u \in Building : st[u] \in Held
  BY ThreadsAssumption DEF Building, Held, Compactors, Threads
<1>7. ASSUME NEW u \in Building', NEW v \in Building', u # v
      PROVE  st'[u].active # st'[v].active
  <2>1. \A w \in Building' \ {t} : st'[w].active # st'[t].active
    BY <1>t, <1>4, <1>5, <1>6
  <2>2. QED
    BY <1>5, <1>7, <2>1 DEF GroupsUnheld
<1>8. ASSUME NEW u \in Building', NEW s \in Held' PROVE st'[u].active \notin s.groups
  <2>1. PICK h \in Held : s.groups = h.groups
    BY <1>3
  <2>2. QED
    BY <1>4, <1>5, <2>1 DEF GroupsUnheld
<1>9. QED
  BY <1>7, <1>8 DEF GroupsUnheld

LEMMA InstallUnheld ==
  ASSUME HeldInv, GroupsUnheld, NEW t \in Compactors, Install(t),
         UNCHANGED <<readers, globals>>
  PROVE  GroupsUnheld'
<1>t. t \in Threads
  BY ThreadsAssumption DEF Compactors, Threads
<1>1. /\ registry' = CompactState(st[t], got[t])
      /\ st' = [st EXCEPT ![t] = NoState]
      /\ pc' = [pc EXCEPT ![t] = Home(t)]
      /\ UNCHANGED <<qst, gst, globalTables>>
  BY DEF Install, readers, globals, operators
<1>2. /\ t \in Building /\ t \notin Building'
      /\ \A u \in Building' : u \in Building /\ st'[u] = st[u]
  BY <1>t, <1>1, ThreadsAssumption
  DEF Building, HeldInv, TypeOK, Compactors, Threads, Home, Install
<1>3. registry'.groups \subseteq {st[t].active}
  BY <1>1 DEF CompactState
<1>4. \A s \in Held' : s = registry' \/ s.groups = {} \/ s \in Held
  BY <1>1, <1>t DEF Held, NoState, HeldInv, TypeOK
<1>5. QED
  BY <1>2, <1>3, <1>4 DEF GroupsUnheld

LEMMA StoreUnheld ==
  ASSUME HeldInv, GroupsUnheld, Next, UNCHANGED <<readers, globals>>
  PROVE  GroupsUnheld'
<1>1. UNCHANGED <<qst, gst, globalTables>>
  BY DEF readers, globals, operators
<1>2. /\ pc \in [Threads -> {"idle", "append", "delete", "freeze", "scan",
                           "install", "off", "wait", "size"}]
      /\ st \in [Threads -> TableState] /\ NoState.groups = {}
      /\ Clients \subseteq Threads /\ Compactors \subseteq Threads /\ Daemon \in Threads
  BY ThreadsAssumption DEF HeldInv, TypeOK, Threads, Compactors, NoState
\* A thread reads the published state, forgets the one it has, or keeps it.
<1>3. ASSUME NEW t \in Threads, NEW x \in {registry, NoState},
             st' = [st EXCEPT ![t] = x], pc' = [pc EXCEPT ![t] = pc'[t]],
             pc'[t] \notin {"scan", "install"}, UNCHANGED registry
      PROVE  GroupsUnheld'
  <2>1. Building' \subseteq Building /\ \A u \in Building' : st'[u] = st[u]
    BY <1>2, <1>3 DEF Building
  <2>2. \A s \in Held' : s.groups = {} \/ s \in Held
    BY <1>1, <1>2, <1>3 DEF Held
  <2>3. QED
    BY <2>1, <2>2, UnheldFrame
<1>4. ASSUME UNCHANGED st, Building' \subseteq Building,
             registry' = registry \/ registry'.groups = {}
      PROVE  GroupsUnheld'
  <2>1. \A s \in Held' : s.groups = {} \/ s \in Held
    BY <1>1, <1>4 DEF Held
  <2>2. QED
    BY <1>4, <2>1, UnheldFrame
<1>5. ASSUME NEW t \in Clients, ClientCall(t) \/ ClientStep(t) \/ BeginCompact(t)
      PROVE  GroupsUnheld'
  <2>1. /\ st' = [st EXCEPT ![t] = registry] \/ st' = [st EXCEPT ![t] = NoState]
        /\ \E p \in {"append", "delete", "freeze", "idle"} : pc' = [pc EXCEPT ![t] = p]
        /\ UNCHANGED registry
    BY <1>5 DEF ClientCall, BeginInsert, BeginDelete, ClientStep, AppendBatch,
                ClearBit, BeginCompact
  <2>2. pc'[t] \in {"append", "delete", "freeze", "idle"} /\ pc' = [pc EXCEPT ![t] = pc'[t]]
    BY <1>2, <2>1
  <2>3. QED
    BY <1>2, <1>3, <2>1, <2>2
<1>6. ASSUME NEW t \in Registrars, RegisterTable(t) PROVE GroupsUnheld'
  BY <1>4, <1>6 DEF RegisterTable, local, Building
<1>7. ASSUME NEW t \in Compactors, SkipCompact(t) PROVE GroupsUnheld'
  <2>1. /\ st' = [st EXCEPT ![t] = NoState] /\ UNCHANGED registry
        /\ pc' = [pc EXCEPT ![t] = Home(t)] /\ Home(t) \in {"wait", "idle"}
    BY <1>7 DEF SkipCompact, Home
  <2>2. QED
    BY <1>2, <1>3, <2>1
<1>8. ASSUME NEW t \in Compactors, NEW K, ScanBlock(t, K) PROVE GroupsUnheld'
  BY <1>4, <1>8 DEF ScanBlock, Building
<1>9. ASSUME NEW t \in Compactors, CopyFrozen(t) PROVE GroupsUnheld'
  <2>1. pc[t] = "scan" /\ pc' = [pc EXCEPT ![t] = "install"] /\ UNCHANGED <<st, registry>>
    BY <1>9 DEF CopyFrozen
  <2>2. Building' \subseteq Building
    BY <1>2, <2>1 DEF Building
  <2>3. QED
    BY <1>4, <2>1, <2>2
<1>10. ASSUME StartDaemon \/ DaemonExit PROVE GroupsUnheld'
  <2>1. /\ UNCHANGED <<st, registry>>
        /\ \E p \in {"wait", "off"} : pc' = [pc EXCEPT ![Daemon] = p]
    BY <1>10 DEF StartDaemon, DaemonExit, local
  <2>2. Building' \subseteq Building
    BY <1>2, <2>1 DEF Building
  <2>3. QED
    BY <1>4, <2>1, <2>2
<1>11. ASSUME StopDaemon PROVE GroupsUnheld'
  BY <1>4, <1>11 DEF StopDaemon, local, Building
<1>12. ASSUME DaemonPeek \/ DaemonDecide PROVE GroupsUnheld'
  <2>1. /\ \E x \in {registry, NoState} : st' = [st EXCEPT ![Daemon] = x]
        /\ \E p \in {"size", "freeze", "wait"} : pc' = [pc EXCEPT ![Daemon] = p]
        /\ UNCHANGED registry
    BY <1>12 DEF DaemonPeek, DaemonDecide
  <2>2. /\ pc'[Daemon] \in {"size", "freeze", "wait"}
        /\ pc' = [pc EXCEPT ![Daemon] = pc'[Daemon]]
    BY <1>2, <2>1
  <2>3. QED
    BY <1>2, <1>3, <2>1, <2>2
<1>13. QED
  BY <1>5, <1>6, <1>7, <1>8, <1>9, <1>10, <1>11, <1>12, FreezeUnheld, InstallUnheld,
     ThreadsAssumption
  DEF Next, Compaction, DaemonLoop

\* What a step of the store does to the groups of a state that somebody holds:
\* it deletes rows, and remembers them as erased.
LEMMA NextDeletes ==
  ASSUME HeldInv, GroupsUnheld, Next, NEW s \in Held
  PROVE  /\ Surviving(s)' \subseteq Surviving(s)
         /\ Surviving(s) \ erased' \subseteq Surviving(s)'
         /\ erased \subseteq erased'
<1>g. s.groups \subseteq MemIds
  BY HeldTyped
<1>1. ASSUME NEW t \in Clients, ClearBit(t)
      PROVE  /\ Surviving(s)' \subseteq Surviving(s)
             /\ Surviving(s) \ erased' \subseteq Surviving(s)'
             /\ erased \subseteq erased'
  <2>1. /\ alive' = [g \in MemIds |-> IF g \in st[t].groups
                                     THEN alive[g] \ arg[t] ELSE alive[g]]
        /\ erased' = erased \cup (arg[t] \cap Surviving(st[t]))
    BY <1>1 DEF ClearBit
  <2>2. ASSUME NEW g \in s.groups
        PROVE  alive'[g] \subseteq alive[g] /\ alive[g] \ erased' \subseteq alive'[g]
    BY <1>g, <2>1 DEF Surviving
  <2>3. QED
    BY <2>1, <2>2 DEF Surviving
<1>2. ASSUME NEW t \in Compactors, Install(t)
      PROVE  Surviving(s)' = Surviving(s) /\ erased' = erased
  <2>1. st[t].active \notin s.groups
    BY <1>2 DEF GroupsUnheld, Building, Install
  <2>2. alive' = [alive EXCEPT ![st[t].active] = got[t]] /\ erased' = erased
    BY <1>2 DEF Install, history
  <2>3. \A g \in s.groups : alive'[g] = alive[g]
    BY <1>g, <2>1, <2>2 DEF HeldInv, TypeOK
  <2>4. QED
    BY <2>2, <2>3 DEF Surviving
<1>3. ASSUME UNCHANGED <<alive, erased>>
      PROVE  Surviving(s)' = Surviving(s) /\ erased' = erased
  BY <1>3 DEF Surviving
<1>4. \/ UNCHANGED <<alive, erased>>
      \/ \E t \in Clients : ClearBit(t)
      \/ \E t \in Compactors : Install(t)
  BY DEF Next, ClientCall, BeginInsert, BeginDelete, ClientStep, AppendBatch,
         BeginCompact, RegisterTable, Compaction, SkipCompact, Freeze, ScanBlock,
         CopyFrozen, StartDaemon, StopDaemon, DaemonLoop, DaemonPeek,
         DaemonDecide, DaemonExit, heap, history
<1>5. QED
  BY <1>1, <1>2, <1>3, <1>4

\* A batch is new to every memtable when it is appended.
LEMMA NextAppendsNew ==
  ASSUME HeldInv, Next, NEW m \in MemIds
  PROVE  mem'[m] \cap Appended \subseteq mem[m]
<1>1. ASSUME NEW t \in Clients, AppendBatch(t)
      PROVE  mem'[m] \cap Appended \subseteq mem[m]
  <2>1. arg[t] \cap Appended = {}
    BY <1>1, ThreadsAssumption
    DEF AppendBatch, HeldInv, LineageInv, BatchesFresh, Appended, Threads
  <2>2. mem'[m] \subseteq mem[m] \cup arg[t]
    BY <1>1 DEF AppendBatch, HeldInv, TypeOK
  <2>3. QED
    BY <2>1, <2>2
<1>2. mem' = mem \/ \E t \in Clients : AppendBatch(t)
  BY DEF Next, ClientCall, BeginInsert, BeginDelete, ClientStep, ClearBit,
         BeginCompact, RegisterTable, Compaction, SkipCompact, Freeze, ScanBlock,
         CopyFrozen, Install, StartDaemon, StopDaemon, DaemonLoop, DaemonPeek,
         DaemonDecide, DaemonExit, heap
<1>3. QED
  BY <1>1, <1>2

\* A query that does not move loses nothing, and is shown nothing new.
LEMMA StorePast ==
  ASSUME HeldInv, PastInv, Next, UNCHANGED <<readers, globals>>
  PROVE  PastInv'
<1>1. UNCHANGED <<qpc, qst, qtodo, qgot, qpast, qshown>>
  BY DEF readers
<1>2. \A m \in MemIds : mem[m] \subseteq mem'[m]
  BY NextAppends DEF HeldInv
<1>3. Appended \subseteq Appended'
  BY <1>2 DEF Appended
<1>4. GroupsUnheld /\ GroupsUnheld'
  BY StoreUnheld DEF PastInv
<1>5. ASSUME NEW q \in Readers
      PROVE  /\ PastShown(q)' /\ NoneLost(q)'
             /\ qpast'[q] \subseteq Appended'
             /\ qpc'[q] = "idle" => qpast'[q] = {} /\ qshown'[q] = {}
  <2>s. PICK s : s = qst[q]
    OBVIOUS
  <2>1. s \in TableState /\ s \in Held
    BY <2>s DEF HeldInv, GlobalTypeOK, Held
  <2>2. /\ Surviving(s)' \subseteq Surviving(s)
        /\ Surviving(s) \ erased' \subseteq Surviving(s)'
        /\ erased \subseteq erased'
    BY <1>4, <2>1, NextDeletes
  <2>3. /\ qpast[q] \subseteq Appended /\ PastShown(q) /\ NoneLost(q)
        /\ qpc[q] = "idle" => qpast[q] = {} /\ qshown[q] = {}
    BY DEF PastInv
  <2>4. s.active \in MemIds /\ (s.frozen # NoMem => s.frozen \in MemIds)
    BY <2>1 DEF TableState
  <2>5. /\ mem[s.active] \subseteq mem'[s.active]
        /\ mem'[s.active] \cap qpast[q] \subseteq mem[s.active]
    BY <1>2, <2>3, <2>4, NextAppendsNew
  <2>6. /\ FrozenRows(s) \subseteq FrozenRows(s)'
        /\ FrozenRows(s)' \cap qpast[q] \subseteq FrozenRows(s)
    BY <1>2, <2>3, <2>4, NextAppendsNew DEF FrozenRows
  <2>7. Surviving(qst[q])' = Surviving(s)' /\ FrozenRows(qst[q])' = FrozenRows(s)'
        /\ mem'[qst'[q].active] = mem'[s.active]
    BY <1>1, <2>s DEF Surviving, FrozenRows
  <2>8. PastShown(q)'
    BY <1>1, <2>2, <2>3, <2>5, <2>6, <2>7, <2>s DEF PastShown
  <2>9. NoneLost(q)'
    <3>1. Ahead(q) \ erased' \subseteq Ahead(q)'
      BY <1>1, <2>2, <2>5, <2>6, <2>7, <2>s DEF Ahead
    <3>2. QED
      BY <1>1, <2>2, <2>3, <3>1 DEF NoneLost
  <2>10. QED
    BY <1>1, <1>3, <2>3, <2>8, <2>9
<1>6. QED
  BY <1>1, <1>4, <1>5 DEF PastInv

LEMMA OperatePast ==
  ASSUME HeldInv, PastInv, NEW o \in Operators, Operate(o)
  PROVE  PastInv'
<1>1. UNCHANGED <<mem, groupRows, alive, pc, st, erased, qpc, qst, qtodo, qgot,
                  qpast, qshown>>
  BY DEF Operate, RegisterGlobal, BeginSync, EndSync, BeginPublish, EndPublish,
         ClearGlobal, Enter, vars, heap, local, history, readers
<1>2. \A s \in Held' : s.groups = {} \/ s \in Held
  <2>1. \A s \in {registry'} \cup globalTables' \cup {gst'[p] : p \in Operators} :
           s.groups = {} \/ s \in Held
    <3>1. CASE RegisterGlobal(o)
      BY <3>1 DEF RegisterGlobal, operators, Registered, Held
    <3>2. CASE BeginSync(o) \/ BeginPublish(o)
      BY <3>2 DEF BeginSync, BeginPublish, Enter, vars, Held, HeldInv, GlobalTypeOK
    <3>3. CASE EndSync(o)
      BY <3>3 DEF EndSync, Leave, Held, HeldInv, GlobalTypeOK, NoState
    <3>4. CASE EndPublish(o)
      BY <3>4 DEF EndPublish, Leave, vars, Held, HeldInv, GlobalTypeOK, NoState
    <3>5. CASE ClearGlobal(o)
      BY <3>5 DEF ClearGlobal, operators, vars, Held
    <3>6. QED
      BY <3>1, <3>2, <3>3, <3>4, <3>5 DEF Operate
  <2>2. QED
    BY <1>1, <2>1 DEF Held
<1>3. GroupsUnheld'
  BY <1>1, <1>2, UnheldFrame DEF PastInv, Building
<1>4. QED
  BY <1>1, <1>3
  DEF PastInv, PastShown, NoneLost, Ahead, Surviving, FrozenRows, Appended

LEMMA ReaderPast ==
  ASSUME HeldInv, CountInv, PastInv, NEW q \in Readers,
         Query(q) \/ BeginWireQuery(q) \/ Look(q), UNCHANGED <<vars, globals>>
  PROVE  PastInv'
<1>1. UNCHANGED <<registry, nmem, mem, groupRows, alive, pc, st, erased, gst, globalTables>>
  BY DEF vars, heap, local, history, globals, operators
<1>2. /\ \A z : Surviving(z)' = Surviving(z) /\ FrozenRows(z)' = FrozenRows(z)
      /\ Appended' = Appended
  BY <1>1 DEF Surviving, FrozenRows, Appended
<1> USE DEF HeldInv, GlobalTypeOK
\* The other readers.
<1>3. ASSUME qpc' = [qpc EXCEPT ![q] = qpc'[q]], qst' = [qst EXCEPT ![q] = qst'[q]],
             qtodo' = [qtodo EXCEPT ![q] = qtodo'[q]],
             qgot' = [qgot EXCEPT ![q] = qgot'[q]],
             qpast' = [qpast EXCEPT ![q] = qpast'[q]],
             qshown' = [qshown EXCEPT ![q] = qshown'[q]],
             qpast'[q] \in SUBSET Rows, qshown'[q] \in SUBSET Rows,
             qst'[q].groups = {} \/ qst'[q] \in Held,
             PastShown(q)', NoneLost(q)', qpast'[q] \subseteq Appended,
             qpc'[q] = "idle" => qpast'[q] = {} /\ qshown'[q] = {}
      PROVE  PastInv'
  <2>1. ASSUME NEW p \in Readers, p # q
        PROVE  /\ PastShown(p)' /\ NoneLost(p)' /\ qpast'[p] \subseteq Appended
               /\ qpc'[p] = "idle" => qpast'[p] = {} /\ qshown'[p] = {}
    <3>1. /\ qpc'[p] = qpc[p] /\ qst'[p] = qst[p] /\ qtodo'[p] = qtodo[p]
          /\ qgot'[p] = qgot[p] /\ qpast'[p] = qpast[p] /\ qshown'[p] = qshown[p]
      BY <1>3, <2>1 DEF PastInv
    <3>2. Surviving(qst[p])' = Surviving(qst[p]) /\ FrozenRows(qst[p])' = FrozenRows(qst[p])
      BY <1>1, <3>1 DEF Surviving, FrozenRows
    <3>3. Ahead(p)' = Ahead(p)
      BY <1>1, <3>1, <3>2 DEF Ahead
    <3>4. QED
      BY <1>1, <3>1, <3>2, <3>3 DEF PastInv, PastShown, NoneLost
  <2>2. GroupsUnheld'
    <3>1. \A s \in Held' : s.groups = {} \/ s \in Held
      BY <1>1, <1>3 DEF Held
    <3>2. QED
      BY <1>1, <3>1, UnheldFrame DEF PastInv, Building
  <2>3. qpast' \in [Readers -> SUBSET Rows] /\ qshown' \in [Readers -> SUBSET Rows]
    BY <1>3 DEF PastInv
  <2>4. QED
    BY <1>2, <1>3, <2>1, <2>2, <2>3 DEF PastInv
<1>p. /\ PastShown(q) /\ NoneLost(q) /\ qpast[q] \subseteq Appended
      /\ qpc[q] = "idle" => qpast[q] = {} /\ qshown[q] = {}
      /\ qpast[q] \in SUBSET Rows /\ qshown[q] \in SUBSET Rows
      /\ qst[q] \in Held
  BY DEF PastInv, Held
<1>c. Scanned(q)
  BY DEF CountInv
<1>4. ASSUME NEW s \in {registry} \cup globalTables, NEW where \in {"groups", "look"},
             TakeState(q, s, where)
      PROVE  PastInv'
  <2>1. /\ qpc' = [qpc EXCEPT ![q] = where] /\ qst' = [qst EXCEPT ![q] = s]
        /\ qtodo' = [qtodo EXCEPT ![q] = Stored(s)]
        /\ qpast' = [qpast EXCEPT ![q] = Appended]
        /\ qshown' = [qshown EXCEPT ![q] = Visible(s)]
        /\ UNCHANGED qgot /\ qgot[q] = {}
    BY <1>4, <1>c DEF TakeState, Scanned
  <2>2. /\ qpc'[q] = where /\ qst'[q] = s /\ qtodo'[q] = Stored(s)
        /\ qpast'[q] = Appended /\ qshown'[q] = Visible(s) /\ qgot'[q] = {}
    BY <2>1 DEF PastInv
  <2>3. s \in Held /\ s \in TableState
    BY HeldTyped DEF Held
  <2>4. Appended \in SUBSET Rows /\ Visible(s) \in SUBSET Rows
    <3>1. Appended \in SUBSET Rows
      BY RowsAssumption DEF Appended, TypeOK
    <3>2. mem[s.active] \in SUBSET Rows
      BY <2>3 DEF TypeOK, TableState
    <3>3. QED
      BY <2>3, <3>1, <3>2, StatesTyped DEF Visible
  <2>5. Surviving(s) \subseteq Stored(s)
    BY <2>3 DEF Surviving, Stored, TableState, LineageInv, GroupsAreOlder
  <2>6. Surviving(qst[q])' = Surviving(s) /\ FrozenRows(qst[q])' = FrozenRows(s)
    BY <1>1, <2>2 DEF Surviving, FrozenRows
  <2>7. PastShown(q)'
    BY <1>1, <2>2, <2>6 DEF PastShown, Visible
  <2>8. NoneLost(q)'
    BY <1>1, <2>2, <2>5, <2>6 DEF NoneLost, Ahead, Visible
  <2>9. QED
    BY <1>3, <2>1, <2>2, <2>3, <2>4, <2>7, <2>8
\* The steps that go on with the state q has.
<1>5. ASSUME UNCHANGED <<qst, qpast, qshown>>,
             qpc' = [qpc EXCEPT ![q] = qpc'[q]], qpc'[q] # "idle",
             qtodo' = [qtodo EXCEPT ![q] = qtodo'[q]],
             qgot' = [qgot EXCEPT ![q] = qgot'[q]],
             qgot'[q] \cap qpast[q] \subseteq qshown[q],
             qgot[q] \cup Ahead(q) \subseteq qgot'[q] \cup Ahead(q)'
      PROVE  PastInv'
  <2>1. Surviving(qst[q])' = Surviving(qst[q]) /\ FrozenRows(qst[q])' = FrozenRows(qst[q])
    BY <1>1, <1>5 DEF Surviving, FrozenRows
  <2>2. PastShown(q)'
    BY <1>1, <1>5, <1>p, <2>1 DEF PastShown
  <2>3. NoneLost(q)'
    BY <1>1, <1>5, <1>p DEF NoneLost
  <2>4. QED
    BY <1>3, <1>5, <1>p, <2>2, <2>3 DEF PastInv
<1>6. ASSUME NEW K \in SUBSET qtodo[q], QueryBlock(q, K) PROVE PastInv'
  <2>1. /\ UNCHANGED <<qpc, qst, qpast, qshown>> /\ qpc[q] = "groups"
        /\ qtodo' = [qtodo EXCEPT ![q] = qtodo[q] \ K]
        /\ qgot' = [qgot EXCEPT ![q] = qgot[q] \cup (K \cap Surviving(qst[q]))]
    BY <1>6 DEF QueryBlock, Counted
  <2>2. Surviving(qst[q])' = Surviving(qst[q]) /\ FrozenRows(qst[q])' = FrozenRows(qst[q])
    BY <1>1, <2>1 DEF Surviving, FrozenRows
  <2>3. qgot'[q] = qgot[q] \cup (K \cap Surviving(qst[q])) /\ qtodo'[q] = qtodo[q] \ K
    BY <2>1
  <2>4. qgot'[q] \cap qpast[q] \subseteq qshown[q]
    BY <1>p, <2>3 DEF PastShown
  <2>5. qgot[q] \cup Ahead(q) \subseteq qgot'[q] \cup Ahead(q)'
    BY <1>1, <2>1, <2>2, <2>3 DEF Ahead
  <2>6. QED
    BY <1>5, <2>1, <2>4, <2>5
<1>7. ASSUME QueryActive(q) PROVE PastInv'
  <2>1. /\ UNCHANGED <<qst, qtodo, qpast, qshown>> /\ qpc[q] = "groups" /\ qtodo[q] = {}
        /\ qpc' = [qpc EXCEPT ![q] = "frozen"]
        /\ qgot' = [qgot EXCEPT ![q] = qgot[q] \cup mem[qst[q].active]]
    BY <1>7 DEF QueryActive, Counted
  <2>2. FrozenRows(qst[q])' = FrozenRows(qst[q])
    BY <1>1, <2>1 DEF FrozenRows
  <2>3. qgot'[q] = qgot[q] \cup mem[qst[q].active] /\ qpc'[q] = "frozen"
    BY <2>1
  <2>4. qgot'[q] \cap qpast[q] \subseteq qshown[q]
    BY <1>p, <2>3 DEF PastShown
  <2>5. qgot[q] \cup Ahead(q) \subseteq qgot'[q] \cup Ahead(q)'
    BY <1>1, <2>1, <2>2, <2>3 DEF Ahead
  <2>6. QED
    BY <1>5, <2>1, <2>3, <2>4, <2>5
<1>8. ASSUME QueryFrozen(q) PROVE PastInv'
  <2>1. /\ UNCHANGED <<qst, qtodo, qpast, qshown>> /\ qpc[q] = "frozen"
        /\ qpc' = [qpc EXCEPT ![q] = "done"]
        /\ qgot' = [qgot EXCEPT ![q] = qgot[q] \cup FrozenRows(qst[q])]
    BY <1>8 DEF QueryFrozen, Counted
  <2>2. qgot'[q] = qgot[q] \cup FrozenRows(qst[q]) /\ qpc'[q] = "done"
    BY <2>1
  <2>3. qgot'[q] \cap qpast[q] \subseteq qshown[q]
    BY <1>p, <2>2 DEF PastShown
  <2>4. qgot[q] \cup Ahead(q) \subseteq qgot'[q] \cup Ahead(q)'
    BY <2>1, <2>2 DEF Ahead
  <2>5. QED
    BY <1>5, <2>1, <2>2, <2>3, <2>4
<1>9. ASSUME Look(q) PROVE PastInv'
  <2>1. /\ UNCHANGED <<qst, qtodo, qgot, qpast, qshown>> /\ qpc[q] = "look"
        /\ qpc'[q] = IF qst[q].groups = {} /\ mem[qst[q].active] = {}
                     THEN "empty" ELSE "groups"
        /\ qpc' = [qpc EXCEPT ![q] = qpc'[q]]
    BY <1>9 DEF Look
  <2>2. Surviving(qst[q])' = Surviving(qst[q]) /\ FrozenRows(qst[q])' = FrozenRows(qst[q])
    BY <1>1, <2>1 DEF Surviving, FrozenRows
  <2>3. qst[q].groups = {} => Surviving(qst[q]) = {}
    BY DEF Surviving
  <2>4. Ahead(q) \subseteq Ahead(q)'
    BY <1>1, <2>1, <2>2, <2>3 DEF Ahead
  <2>5. qgot'[q] \cap qpast[q] \subseteq qshown[q] /\ qpc'[q] # "idle"
    BY <1>p, <2>1 DEF PastShown
  <2>6. QED
    BY <1>5, <2>1, <2>4, <2>5
<1>10. ASSUME EndQuery(q) PROVE PastInv'
  <2>1. /\ qpc' = [qpc EXCEPT ![q] = "idle"] /\ qst' = [qst EXCEPT ![q] = NoState]
        /\ qtodo' = [qtodo EXCEPT ![q] = {}] /\ qgot' = [qgot EXCEPT ![q] = {}]
        /\ qpast' = [qpast EXCEPT ![q] = {}] /\ qshown' = [qshown EXCEPT ![q] = {}]
    BY <1>10 DEF EndQuery
  <2>2. /\ qpc'[q] = "idle" /\ qst'[q] = NoState /\ qtodo'[q] = {} /\ qgot'[q] = {}
        /\ qpast'[q] = {} /\ qshown'[q] = {}
    BY <2>1 DEF PastInv
  <2>3. Surviving(qst[q])' = {}
    BY <2>2 DEF Surviving, NoState
  <2>4. PastShown(q)' /\ NoneLost(q)'
    BY <2>2, <2>3 DEF PastShown, NoneLost
  <2>5. QED
    BY <1>3, <2>1, <2>2, <2>4 DEF NoState
<1>11. QED
  BY <1>4, <1>6, <1>7, <1>8, <1>9, <1>10 DEF Query, BeginQuery, BeginWireQuery

\* A query answers for the rows of its past, for any number of rows, threads,
\* compactions and synchronizations: none that its state showed is missed
\* unless it was deleted, and none appended before comes in that it did not
\* show.
THEOREM QueriesAnswerTheirPast == GlobalSpec => []QueryAnswersItsPast
<1>1. GlobalInit => PastInv
  <2> SUFFICES ASSUME GlobalInit PROVE PastInv
    OBVIOUS
  <2>1. /\ \A q \in Readers : /\ qpc[q] = "idle" /\ qst[q] = NoState /\ qgot[q] = {}
                             /\ qpast[q] = {} /\ qshown[q] = {}
        /\ qpast \in [Readers -> SUBSET Rows] /\ qshown \in [Readers -> SUBSET Rows]
    BY DEF GlobalInit, QueryInit
  <2>2. Building = {}
    BY ThreadsAssumption DEF GlobalInit, Init, Building, Compactors, Threads
  <2>3. Surviving(NoState) = {}
    BY DEF Surviving, NoState
  <2>4. QED
    BY <2>1, <2>2, <2>3 DEF PastInv, GroupsUnheld, PastShown, NoneLost
<1>2. HeldInv /\ CountInv /\ PastInv /\ [GlobalNext]_gvars => PastInv'
  <2> SUFFICES ASSUME HeldInv, CountInv, PastInv, [GlobalNext]_gvars PROVE PastInv'
    OBVIOUS
  <2>1. CASE UNCHANGED gvars
    <3>1. UNCHANGED <<registry, mem, groupRows, alive, pc, st, erased, gst, globalTables,
                      qpc, qst, qtodo, qgot, qpast, qshown>>
      BY <2>1 DEF gvars, vars, heap, local, history, readers, globals, operators
    <3>2. QED
      BY <3>1 DEF PastInv, GroupsUnheld, Held, Building, PastShown, NoneLost, Ahead,
                  Surviving, FrozenRows, Appended
  <2>2. QED
    BY <2>1, StorePast, OperatePast, ReaderPast DEF GlobalNext
<1>3. CountInv /\ PastInv => QueryAnswersItsPast
  <2> SUFFICES ASSUME CountInv, PastInv, NEW q \in Readers
               PROVE  /\ qgot[q] \cap qpast[q] \subseteq qshown[q]
                      /\ qpc[q] = "done" => qshown[q] \ erased \subseteq qgot[q]
                      /\ qpc[q] = "empty" => qshown[q] \ erased \subseteq FrozenRows(qst[q])
    BY DEF QueryAnswersItsPast
  <2>1. PastShown(q) /\ NoneLost(q) /\ Scanned(q)
    BY DEF PastInv, CountInv
  <2>2. QED
    BY <2>1 DEF PastShown, NoneLost, Ahead, Scanned
<1>4. QED
  BY <1>1, <1>2, <1>3, InitCounts, InitHeld, NextHeld, NextCounts, PTL DEF GlobalSpec
=============================================================================
