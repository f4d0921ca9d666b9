----------------------------- MODULE LsmGlobal ------------------------------
(***************************************************************************)
(* GlobalMetadata beside the MetadataRegistry: a second map of TableStates *)
(* with a mutex of its own.  Registering through it makes two states with  *)
(* two memtables; SyncLocalNode copies the global state over the           *)
(* registry's, after which both maps share one state and its memtables     *)
(* until a compaction replaces the registry's; a later synchronization     *)
(* takes that back.  The wire server's queries of one table read the       *)
(* global state, the planner's own callers the registry.                   *)
(***************************************************************************)
EXTENDS LsmQuery

CONSTANTS
    Operators,        \* threads that register, synchronize and publish
    MaxCalls          \* bound: calls the operators make

ASSUME CallsAssumption == MaxCalls \in Nat

VARIABLES
    globalTables,     \* global_tables_: the state of the table, or nothing
    gpc,              \* operator -> the call it is in
    gst,              \* operator -> the state it read
    calls             \* calls of the operators so far, for the bound

operators == <<gpc, gst>>
globals == <<globalTables, operators, calls>>
gvars == <<vars, readers, globals>>

GlobalInit ==
    /\ Init
    /\ QueryInit
    /\ globalTables = {}
    /\ gpc = [o \in Operators |-> "idle"]
    /\ gst = [o \in Operators |-> NoState]
    /\ calls = 0

\* The state of a table that has just been registered with memtable m.
Registered(m) == [groups |-> {}, active |-> m, frozen |-> NoMem, version |-> 1]

Call(o) ==
    /\ gpc[o] = "idle"
    /\ calls < MaxCalls
    /\ calls' = calls + 1

\* The registry registers a state and a memtable of its own.  The global mutex
\* is held throughout, so that nobody sees one map without the other's change
\* who could not have read before both.  The bound is that of Room, for two.
RegisterGlobal(o) ==
    /\ Call(o)
    /\ nmem + 1 < MaxMem
    /\ nmem + 1 + Cardinality({t \in Threads : pc[t] = "freeze"}) < MaxMem
    /\ nmem' = nmem + 2
    /\ globalTables' = {Registered(nmem + 1)}
    /\ registry' = Registered(nmem + 2)
    /\ UNCHANGED <<mem, groupRows, alive, pc, local, running, history,
                   readers, operators>>

Enter(o, call, s) ==
    /\ Call(o)
    /\ gpc' = [gpc EXCEPT ![o] = call]
    /\ gst' = [gst EXCEPT ![o] = s]
    /\ UNCHANGED <<vars, readers, globalTables>>

Leave(o) ==
    /\ gpc' = [gpc EXCEPT ![o] = "idle"]
    /\ gst' = [gst EXCEPT ![o] = NoState]
    /\ UNCHANGED calls

\* SyncLocalNode lets go of the global mutex before it publishes.
BeginSync(o) == \E s \in globalTables : Enter(o, "sync", s)

EndSync(o) ==
    /\ gpc[o] = "sync"
    /\ registry' = gst[o]
    /\ Leave(o)
    /\ UNCHANGED <<heap, pc, local, running, history, readers, globalTables>>

\* UpdateGlobalState publishes a state its caller has read from the registry
\* (a state of the table comes from nowhere else).
BeginPublish(o) == Enter(o, "publish", registry)

EndPublish(o) ==
    /\ gpc[o] = "publish"
    /\ globalTables' = {gst[o]}
    /\ Leave(o)
    /\ UNCHANGED <<vars, readers>>

ClearGlobal(o) ==
    /\ Call(o)
    /\ globalTables' = {}
    /\ UNCHANGED <<vars, readers, operators>>
-----------------------------------------------------------------------------
(* The wire server's query of one table *)

BeginWireQuery(q) == \E s \in globalTables : TakeState(q, s, "look")

\* The server plans the query on the first row group or on the first batch of
\* the active memtable, and answers zeros if there is neither.
Look(q) ==
    /\ qpc[q] = "look"
    /\ qpc' = [qpc EXCEPT ![q] =
           IF qst[q].groups = {} /\ mem[qst[q].active] = {} THEN "empty" ELSE "groups"]
    /\ UNCHANGED <<qst, qtodo, qgot, count, qpast, qshown>>
-----------------------------------------------------------------------------
Operate(o) ==
    \/ RegisterGlobal(o)
    \/ BeginSync(o)
    \/ EndSync(o)
    \/ BeginPublish(o)
    \/ EndPublish(o)
    \/ ClearGlobal(o)

GlobalNext ==
    \/ Next /\ UNCHANGED <<readers, globals>>
    \/ \E o \in Operators : Operate(o)
    \/ \E q \in Readers : /\ Query(q) \/ BeginWireQuery(q) \/ Look(q)
                          /\ UNCHANGED <<vars, globals>>

GlobalSpec == GlobalInit /\ [][GlobalNext]_gvars
-----------------------------------------------------------------------------
\* No TableState that is published in either map, or that an operator or a
\* query still holds, has a row in two of its containers, although the two
\* maps are copied over each other at any time and a compaction may install
\* what it made of a state that was replaced long ago.
NoRowTwiceAnywhere ==
    /\ NoRowTwice
    /\ \A s \in globalTables : CountsOnce(s)
    /\ \A o \in Operators : CountsOnce(gst[o])
    /\ \A q \in Readers : CountsOnce(qst[q])
=============================================================================
