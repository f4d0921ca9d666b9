# GreenGate in TLA+

TLA+ models of the concurrent and distributed core of GreenGate, the TLC
configurations that check them on small instances, and TLAPS proofs of the
central invariants. Paths below are relative to the root of the repository.

Run `tlc -config X.cfg M` for a row of the table of runs, and `tlapm M.tla` for
each module whose name ends in `Proofs`.

## 1. The system

| Part | State | Operations | Who calls it, what it calls |
|---|---|---|---|
| `MetadataRegistry` (`src/lex/lsm/metadata_registry.cpp`) | `tables_`: name -> shared `TableState` (row groups, active and frozen memtable, version) | `RegisterTable`, `GetTableState`, `UpdateTableState`, `InsertBatch`, `DeleteRow` | a singleton shared by every thread; its mutex covers the map, not the states it hands out |
| `MemTable` (`mem_table.cpp`) | list of Arrow batches, row count, bytes | `Append`, `GetBatches`, `ExecuteQuery` | appended to by `InsertBatch`, copied by compaction, scanned by queries |
| `PromotionDaemon` (`promotion_daemon.cpp`) | `running_`, worker thread | `Start`, `Stop`, `DaemonLoop`, `TriggerCompaction` (also public) | reads and replaces whole `TableState`s in the registry |
| `QueryPlanner`, `QueryRunner`, `MicroOpCompiler` (`src/lex/jit`) | none between queries; a compiled scan | `Plan`, `Execute`, merging of partial results | runs over a `TableState` it was given |
| `AdaptiveIngester`, SIMD transposer (`src/lex/ingest`) | none | `Ingest`, transposition, KIM signatures | used by compaction, nodes, server |
| `SrdTransport` (`src/lex/distributed/srd_transport.cpp`) | socket, `next_msg_id_`, `recon_buffers_`, `completed_messages_`, receiver thread | `Start`, `Send`, `ReceiverLoop`, `ReceiveAll`, `Stop` | one per cluster node, over UDP |
| `ClusterNode`, `DistributedCoordinator` (`distributed_coordinator.cpp`) | partitions, local and received signatures | `DistributeAndIngest`, `ExecuteJoinQuery(Extended)`, shuffles, collections, local join | called by `PgWireServer`'s client threads |
| `GlobalMetadata` (`global_metadata.cpp`) | a second map of `TableState`s | `RegisterTable`, `UpdateGlobalState`, `SyncLocalNode` | overwrites the registry |
| `PgWireServer` (`src/lex/ecosystem`) | socket, `running_`, detached client threads | `Start`, `Stop`, session protocol | coordinator, global metadata, planner |
| `QueryDaemon`, `LocalCache` (`src/query_daemon.cpp`, `src/local_cache.cpp`) | socket, engine; `cache_` of mapped files, files on disk | `HandleClient`; `GetOrDownload`, `Release` | S3, the ApexEngine |
| `S3Writer` (`src/s3_writer.cpp`) | queue, `active_tasks_`, `stop_`, worker thread, two condition variables | `WriteAsync`, `Flush`, destructor | S3 |
| `Exporter` (`src/lex/storage/exporter.cpp`) | none | `Serialize`, `Deserialize`, `ExportToFile`, `ImportFromFile` (CBST files) | sequential; reads back files it wrote |
| `SqlParser` (`src/sql_parser.cpp`) | none | `Tokenize`, `Parse` | called by each request of the `QueryDaemon` |
| `ArrowConnector`, `ShmBridge` | none, or one shared-memory segment | conversions | sequential |
| `main`, `daemon_main`, `benchmark_client`, tests, Docker and k8s files | | | show how the parts are used |

The ApexEngine is a git submodule whose files are not in the repository.

### What is hard, and what correctness means

* **LSM table.** Inserts, deletes, queries and compactions each work on a
  `TableState` they fetched earlier, while others replace it. Correct: no
  acknowledged row is lost, no erased row returns, no row is counted twice, a
  compaction changes no answer, full memtables get compacted, `Stop` returns.
* **Transport.** Packets are reordered on purpose and may be lost or
  duplicated; nothing acknowledges or repeats, and an error of `recvfrom` ends the
  receiver. Correct: only whole messages are completed; a missing message means a
  lost packet or a receiver that has ended; a repeated one means that
  all its packets were repeated.
* **Join.** Two shuffles separated by sleeps, hot keys placed differently on
  either side, signatures that collide, rows that are added meanwhile. Correct: every matching
  pair of the rows a query began with meets at
  exactly one node; late messages lead to too few pairs, never to wrong ones,
  and a query that was in time leaves nothing to the next.
* **S3 writer.** Two condition variables, a counter and a destructor. Correct:
  no lost wakeup, no early `Flush`, order per key, nothing left at the end.
* **Query daemon.** Threads share a cache, its files, and an engine used
  without a lock; the files survive the process. Correct: mapped files do not
  change, answers come from whole files of one version, nobody waits for ever.
* **Global metadata.** Two maps of states, copied over each other while
  compactions replace one of them. Correct: no state shows a row twice, and a
  query that has begun is disturbed by none of it.
* **Wire server.** Detached threads that outlive `Stop`, connections that break,
  exceptions nobody catches, statements read by looking for words. Correct: what is
  executed is what was meant, a client that keeps to the protocol does not end the
  process, `Stop` returns, nobody is left without answer or end.
* **Parsing and files.** Correct: exactly the sentences of the grammar are
  accepted, with the tree the grammar gives them; a file is read back as it was
  written, and refused when it is cut.

`PROJECT.json` lists the hazards line by line with the properties that cover them.

## 2. Modules

| Module | Models | Correspondence |
|---|---|---|
| `LsmStore` | registry, memtables, row groups, clients, daemon | `registry` is `tables_[name]`; `mem`, `groupRows`, `alive` are the heap (`alive` is `delete_mask`); `st[t]` is the `shared_ptr<TableState>` a thread holds. `BeginInsert`/`AppendBatch`, `BeginDelete`/`ClearBit`, `BeginCompact`/`Freeze`/`ScanBlock`/`CopyFrozen`/`Install`, `DaemonPeek`/`DaemonDecide` cut the functions where they let go of the registry's mutex |
| `TableContract` | abstract: the table callers expect | what a query counts, which rows were inserted and erased, and the rows excused as `loose`; inserts, deletes, their overtaken variants, reorganisation |
| `LsmQuery` | `LsmStore` plus reader threads in `QueryRunner::Execute` | a query takes a state, then scans blocks, active and frozen memtable in the code's order |
| `LsmGlobal` | `LsmQuery` plus `GlobalMetadata` and its callers | `globalTables` is `global_tables_`; `BeginSync`/`EndSync` cut `SyncLocalNode` where it lets go of the global mutex, `BeginPublish`/`EndPublish` a caller that reads the registry and calls `UpdateGlobalState`; `Look` is the wire server's test before a query of one table |
| `SrdTransport` | transports and the network | `unsent` is the loop of `Send`, `wire` the network, `recon` and `completed` the receiver's containers; `up` says whether the receiver thread runs, has ended on an error of `recvfrom` (`deaf`), or how far `Stop` is |
| `MessageChannel` | abstract: messages posted, arrived, collected | implemented by `SrdTransport`, used by `ShuffleJoin` |
| `ShuffleJoin` | nodes, coordinator and sessions over a `MessageChannel` | `phase[s]` is the place of a client thread in `ExecuteJoinQueryExtended`, `next[s]` the next node in its loop over `PrepareJoinSignatures`; `loading[l]` is a call of `DistributeAndIngest` and the node whose slice comes next (`IngestPartition`); `signatures` are the `local_*_signatures_` and `received` the `received_*_signatures_`, which the sessions share; `PackRowId` and `UnpackRowId` have fields of `FieldBits` bits; `QueryResult` is what the extended query makes of the pairs; `Race` is the use of what another session or a loader is writing or `ShutdownCluster` has destroyed; `side` and `query` of a message are ghosts, since the code's messages carry neither |
| `S3Writer` | callers, worker, destructor | who sleeps on `cv_` and `flush_cv_` is in `worker` and `caller`; `Serialise` is `TransposeBatch`, after which the worker is in a `transfer` or its exception has ended the process (`dead`); `Upload` is the end of the transfer; `owner` runs the destructor |
| `QueryDaemon` | client threads, `LocalCache`, directory, engine | `holder` is the cache's mutex, `mapped` is `cache_`, `disk` the files, `schemas` and `expression` the engine's registry |
| `SqlParser` | the tokenizer and the descent of the daemon's WHERE clauses | `Descent` is `ParseExpression`, `ParseTerm` and `ParsePrimary` as one recursive function; `Derivations` is the grammar of the comments, as sets of trees, and not part of the code |
| `WireSql` | how the wire server reads a statement | `Find` and `Cut` are `find` and `substr`; `Clauses` and `Predicates` the WHERE clause, `OfSide` and `JoinOf` the sides of a join; `Write` and `Meaning` say what a client writes and means |
| `PgWireServer` | owner, accept thread, client threads, clients | `owner` is the place in `Start`, `Stop` and the destructor, `acceptor` and `session` those of the threads; `Outcomes` says what a statement can end in, `RegistersRunOut` when the compiled scan has too few registers for it; a join may end the process (`JoinOutcomes`), since other sessions use its nodes; `broken` is a connection on which a write raises SIGPIPE |
| `RowGroupFile` | CBST files | `Serialize` lays fields out at offsets, `Deserialize` walks them with the code's bounds checks; used by `ColumnScan` |
| `BitSlicedScan` | blocks and queries as operators: `AdaptiveIngester`, the transposers, `QueryPlanner`, the opcodes of the compiled scan | `IngestBlock` builds bit planes, validity, skeleton and signature planes; `CompareBits` and the opcodes next to it are the code the JIT emits for a bit-serial comparison; `FinalMask` is one call of the compiled scan on a block, with the deferred verification behind it |
| `ColumnScan` | one table's values: row groups, memtables, the answers of `Execute` | `group`, `active`, `frozen`, `version` are the fields of `TableState`; `Insert`, `DeleteRow` (by global row index), `Freeze` and `Install` (decode, drop erased rows, encode again); `Merge` joins the partial results of the parts; `Exported` is the group as a file |
| `RowTable` | abstract: a sequence of row values with tombstones, and the rows inserted since | implemented by `ColumnScan`: a compaction is a change of representation, a delete hits the row with that index |
| `Sums` | | the sum of a function's values, for the modules that add up |
| `LsmProofs`, `ColumnScanProofs`, `SrdTransportProofs`, `S3WriterProofs`, `QueryDaemonProofs`, `PgWireServerProofs`, `ShuffleJoinProofs` | theorems about the modules they are named after; `LsmProofs` about `LsmStore` and `LsmGlobal` | see section 5 |
| `SumProofs` | | lemmas about finite sums, division and joined sequences, used by `ColumnScanProofs` and `SrdTransportProofs` |
| `MC*` | small instances | names of model values, symmetry, the join's batches |

History variables are declared apart in each module and are read by properties only
(exception: bounds, which stand in guards and are named as such).

### Order of work

1. *Done:* `TableContract`, `LsmStore`, `LsmQuery`, `LsmGlobal` with proofs;
   `MessageChannel`, `SrdTransport`; `ShuffleJoin` with sessions, packed row ids and
   results; `S3Writer`; `SqlParser`, `QueryDaemon`; `RowTable`, `BitSlicedScan`,
   `RowGroupFile`, `ColumnScan`; `WireSql`, `PgWireServer`.
2. *Next, models:* the other column types of the ingester and the medians of a
   table, in `BitSlicedScan` and `ColumnScan`.
3. *Done, proofs:* the LSM store alone, with its daemon, and under global metadata and
   readers; the transport and its refinement of `MessageChannel`; the S3 writer; the
   query daemon's files and answers; the wire server's service; the join's matches;
   the transposition, the layout of row groups, what their scans find, add up and
   merge, and the refinement of `RowTable` by `ColumnScan`.

## 3. Runs

| Run | Checks | Bounds, and why they are enough |
|---|---|---|
| `lsm_daemon` | `AckedRowsSurvive`, `ErasedRowsStayAway`, refinement of `TableContract`, types; liveness: `FullMemTableIsFrozen`, `StopReturns` | 2 clients and the daemon; an empty table, 2 rows, 4 memtables: three freeze/install rounds, so that a row is inserted, persisted, deleted and compacted away, with inserts and deletes open in every phase. The threshold is 0, the one value at which the daemon also compacts when there is nothing to compact; a larger one only makes it wait longer, as it may anyway |
| `lsm_global` | `NoRowTwiceAnywhere`, `TotalCountsRowsOnce`, `QueryAnswersItsPast` | a client that also compacts by hand and registers again, the daemon, a reader and an operator with 3 calls; 1 row, 3 memtables: two compactions overlap, and a state is published, replaced and taken back |
| `lsm_incoming` | *violation* of `IncomingWritesKept` | 1 client, 2 rows |
| `scan_answers` | `ScanFindsMatchingRows` (row groups and memtables agree with the predicate on the values), `SumsAreOfFoundRows`, `MergedExtremes`, `FilesReadBack`, refinement of `RowTable`, types and empty padding | words of 4 bits, blocks of 4 rows, strings of 2-bit characters with skeletons of 2; starting empty, with one whole block, or with a whole and a padded one (5 rows), 4 further rows, 6 rows in all, a full compaction, deletes at indices 0, 2, 4 and 9 (first block, second block, beyond the end); nulls, negative and equal numbers, highest and lowest words, a string ending in `%`; files cut before every field and one byte earlier, column names with and without padding behind them, an empty name |
| `scan_average` | *violation* of `AverageIsMean` | as `scan_answers` |
| `srd_transport` | `WholeMessages`, `PacketsConserved`, refinement of `MessageChannel`, `MessagesArrive` | 2 nodes, 2 messages of 1 or 2 packets (the last one short), 2 duplicates (a whole message again), 1 loss, one node stopped at any moment, the receiver thread of either ended by an error at any moment |
| `join_exact` | `AnswersAreExact`, `LossOnlyUndercounts` | 2 nodes, 1 left batch of two kinds and up to 2 right batches, 3 keys of which two collide and one becomes hot or not with the predicate, a null key, batches with a remainder; row ids with fields of one bit: one of the left batches leaves 3 rows at the second node, so that the last one's index runs into the batch's field, the other fits; the loader starts and goes on at any point of the query; every message late or in time; the cluster shut down at any moment |
| `join_sessions` | `AnswersAreExact` for queries after or into each other; liveness: `QueryReturns` | 2 sessions, a loader, 2 queries, 1 batch of one row a side: one query follows the other, in the same session or not, or they overlap in any way. Two queries are enough for one that follows a late one; the theorems are about any number |
| `join_barrier` | *violation* of `BarrierWaits` | 1 query |
| `s3_writer` | `FlushedWritesAreSettled`, `LastUploadWins`, `FlushReturns`, `DestructorReturns` | 2 callers, 2 keys, 3 writes, any upload failing or stalling, any batch ending the process, spurious wakeups |
| `daemon_cache` | `ExpressionsAreSentences`, `AnswersFromWholeFiles`, `OneVersionPerObject`, `AnswersAConcurrentQuestion`, `MappedFilesAreStill`, `RequestAnswered` | 2 clients, 1 object of 2 chunks and 2 versions, 3 predicates (one unparsable; and for the grammar, every text of up to 4 lexemes behind each predicate's), 3 requests, 1 kill, downloads that fail or stall; the cache has one mutex for all objects, so one object shows its contention |
| `pg_service` | `ExecutesWhatIsMeant`, `OrderlyUseSurvives`, `OneAnswerAfterStop`; liveness: `StopReturns`, `AnsweredOrCutOff` | 2 clients with 3 and 1 messages (start-up, and what follows it), server started twice, 7 statements: one for each kind of outcome, one with comparisons that use up the registers among them; each with every condition of one or two comparisons over 5 columns, 4 signs and 5 values, when its reading is checked |

Deadlock is checked in the LSM and scan runs. The other systems may stop: callers
stop calling at the bound, a writer is destroyed, a transport closed.

### What the violations show

* `lsm_incoming`: `InsertBatch` returns after appending to a memtable that a
  compaction copied between its two steps; the rows are gone, though the
  compaction is meant to "keep incoming writes in active"
  (`promotion_daemon.cpp:260`). `AckedRowsSurvive` says precisely which rows are
  excused: those in `late`.
* `join_barrier`: the sleep called a barrier is none. `LossOnlyUndercounts` and
  `AnswersAreExact` say what that costs: too small a count, and, when a message
  turns up in a later collection, arbitrary pairs or a row id out of bounds (the
  phase `crashed`).
* `scan_average`: the average of several parts is the sum over the number of
  distinct values each part reports, not over the rows: two rows of value 2
  average to 4, where the test expects the mean (`ecosystem_test.cpp:120`).

`ScanFindsMatchingRows` says of which predicates a row group gives the answer a
memtable gives (`Plain`). The rest are real differences, each of which TLC
shows at once when its conjunct is left out: nulls, stored as 0 or the empty
string and compared as such; negative numbers, compared as unsigned words; `LIKE
'%'`, compiled to a comparison of 0 bits that means all of them; and an equality
whose pattern ends in `%`, which is cut as if it were a prefix. A `CONTAINS` of one
character is left out as well: its signature is hashed differently from those
stored, so the answer depends on the hash.

What the properties leave out shows limits of the wire server. `ExecutesWhatIsMeant`
speaks of plain questions (`PlainQuestion`): a name that contains `from`, `where`,
`join` or `on` moves the cuts; an `and` inside a name or a quoted value, which is no
separator, loses the text before it; `>=` and `<=` are read as `=` and leave the other
sign in the column's name, as an `=` in a value compared with `>` does; and an
aggregate over a column of the right table is looked up in the left one. `OrderlyUseSurvives`
excuses statements the planner cannot take (no WHERE, an unknown column, a word
compared as a number, or comparisons that take more than the 14 registers of the
compiled scan, as two text equalities and a number do), each of which ends the process;
joins, which may end it when sessions or loaders meet on the nodes; and clients that
send without waiting and then hang up. `AnsweredOrCutOff` excuses a client whose statement was no
SELECT: the error is sent without ReadyForQuery (`mute`).

The join's properties excuse a query that overlapped another one or took a message of
another (`stray`), and tables whose row ids do not fit (`Fits`). Each is a real limit of
the code: without `Fits`, TLC finds a row shuffled under the id of another one in the
tables of `join_exact`. `MessagesArrive` excuses a message to a node whose receiver has
ended on an error of `recvfrom`; the thread is not started again.

Two facts need no run of their own: `Flush` of the S3 writer returns after a failed
upload too (`failed` in `S3Writer`), and a file left short by a kill or a refused
write is served for as long as it stays on disk (`damaged` in `QueryDaemon`).

## 4. Fairness

Only threads that have something to do are assumed to go on: `WF` on the
steps after a call has begun, the daemon's and workers' loops, the send loop, the
hand-over of a packet on the wire to a waiting receiver, the coordinator's thread.
No call need be made, no daemon stopped, no `recvfrom` fail, no sleeper woken by chance, and
`ShuffleJoin` does not even assume that messages arrive. In `PgWireServer` the owner
that has begun `Stop`, the accept loop and the sessions go on, and `accept` does not
fail for ever while connections wait (`SF`): it may fail any number of times between.

A transfer to or from S3 need not end: curl is given no timeout (`s3_writer.cpp:96-108`,
`local_cache.cpp:73-81`), so neither `S3Writer` nor `QueryDaemon` has fairness on it.
Their liveness properties have the hypothesis `TransfersEnd`: no transfer goes on for
ever. A download that stalls keeps the cache's mutex, and every request with it; an
upload that stalls keeps `Flush` and the destructor waiting. Nor does anything wait for
a batch that cannot be serialised: it ends the process, which `FlushReturns` and
`DestructorReturns` name as the other outcome.

A mutex is granted under weak fairness only because the bound on calls ends contention;
`std::mutex` promises no more. Each assumption is stated next to its `FairSpec`.

## 5. Proofs

`LsmProofs`, about the store alone, for any rows, clients, compactors, registrations, threshold and
bound:

* `TypeCorrect`: `Spec => []TypeOK`.
* `LineageCorrect`: `Spec => []LineageInv`. `NoRowTwice` is not inductive: an
  installation could bring back rows that are in a memtable. What excludes it is
  age: memtables are pairwise disjoint, a batch being inserted is new, and a row
  group only holds rows of memtables older than the one whose number it bears
  (`Older`), as do the rows a running compaction has collected.
* `RowsCountOnce`: `Spec => []NoRowTwice`, from those two.

Its second half is about a store in which only the daemon compacts and a table is
registered once (`DaemonOnly`; with manual compactions, or a state synchronized over
the registry's, these properties do not hold of the code):

* `AckedSurvive`, `ErasedStayAway`: through `SoleCompactorInv`. Its core,
  `Harvested`, says what a compaction has collected at each of its steps in terms of
  the state still published; `LateRowsStayBehind` that rows appended too late reach
  no group.
* `StoreImplementsContract`: every step of the store is a step of
  `TableContract` or leaves its variables unchanged.

`LsmProofs`, about the store under global metadata, for any number of operators and readers beside all threads of
`LsmStore`, manual compactions and registrations included:

* `RowsCountOnceAnywhere`: `GlobalSpec => []NoRowTwiceAnywhere`. The steps of the store
  keep `LineageInv` whatever state the registry is given, as long as that state is
  `Ordered`; `HeldInv` says that everything anybody holds is. A state that
  `SyncLocalNode` takes back long after is old, not disordered.
* `TotalsCountOnce`: `GlobalSpec => []TotalCountsRowsOnce`, through `Scanned`: what a
  query has counted lies in memtables before those it goes on to (`Behind`). The rows
  of its groups would not do as a bound: an installation may replace what a group
  number stands for, but not what is older than a memtable.

* `QueriesAnswerTheirPast`: `GlobalSpec => []QueryAnswersItsPast`, by `PastInv`. A row
  shown to a query is counted, still ahead of it, or deleted (`NoneLost`), and what is
  ahead changes under it only by deletions and new rows (`PastShown`). The second needs
  `GroupsUnheld`: the group a compaction installs has the number of a memtable it
  allocated itself, and no state in anybody's hands has a group of that number, so that
  no installation replaces what a query reads.

`SrdTransportProofs`, for any nodes, packet size, message lengths, and any number of
lost and repeated packets:

* `OnlyWholeMessages` and `TransportTypes`: `Spec => []WholeMessages`, `Spec =>
  []TypeOK`. `TransportInv` says that a sender uses no id twice (`SentInv`) and that a
  buffer holds, in each slot, nothing or the payload which the one message with its key
  has there, and counts the slots it has filled (`BufferInv`); so a full count is a full
  buffer. That the payloads of a message, joined, are its body (`FlattenPayloads`) is
  shown for every length: were it not, there would be a least number of packets at which
  the joined payloads differ from the body's beginning (`LeastElement`).
* `PacketsAreConserved`: `Spec => []PacketsConserved`, from the accounts kept in
  `TransportInv` (`Accounts`). The receipts of a message, those of its completed copies
  and those in its buffer, exceed the packets of it that have left the network by what
  was repeated; over all messages, this excess is at most `dups`. A receipt raises it
  by one only if a copy stays on the wire, and no message has a negative one, because
  what was received of a message that is not complete is in its buffer. With no
  repetitions every excess is therefore 0, which puts each packet in one place.
* `TransportsImplementChannel`: `Spec => ImplementsChannel`. As long as nothing was
  repeated, each packet is in one place (`UnrepeatedInOnePlace`), so none is left of a
  message that was completed; and two messages never have the
  same body, so that the completed bodies tell which messages have arrived.

`S3WriterProofs`, for any callers, keys and number of writes:

* `CounterCorrect` (`[]TypeOK`), `FlushSettles` (`[]FlushedWritesAreSettled`) and
  `UploadsInOrder` (`[]LastUploadWins`), through `WriterInv`. None is inductive: that
  the counter is 0 only says something about a flush because the settled writes are
  always the first ones submitted, and queue and current request the ones that follow,
  in order (`FirstInFirstOut`); the destructor settles everything because the worker
  only exits on an empty queue after `stop_` (`EndsEmpty`).

`QueryDaemonProofs`, for any clients, objects, predicates, file lengths and kills:

* `WholeFiles`, `OneVersion`, `ConcurrentQuestions`: `[]AnswersFromWholeFiles`,
  `[]OneVersionPerObject`, `[]AnswersAConcurrentQuestion`, through `DaemonInv`. Its parts:
  a thread between the lookup and the mapping has the mutex and works on a file that is
  not mapped (`MutexHeld`); a file that is short is being downloaded or was damaged
  (`FilesAccountedFor`); a version that was answered is still on the disk
  (`AnswersTellVersions`); requests of one object handled together know of each other
  (`RivalsKnown`).
* `FilesStayStill`: `Spec => MappedFilesAreStill`, an action property, from `MutexHeld`.

`PgWireServerProofs`, for any clients, messages and statements:

* `OrderlyClientsSurvive`: `SoundAreRead /\ Spec => []OrderlyUseSurvives`. A client that
  waits for its answers has at most one message with the server, and none once its
  connection is reset (`Waits`), so no answer is written to a dead connection.
  The property is about questions to one table, with columns there are, a comparison the
  planner makes a mask of, and no more comparisons than the registers suffice for
  (`SoundQuestion`); joins are not among them, since one may end the process whenever
  another session or a loader is on the same nodes.
  `SoundAreRead` says that the server reads each of the statements called sound in a way
  the planner takes; the statements are a parameter, and `MCPgWireServer` assumes it of
  the ones it names, where TLC evaluates it.
* `SessionsStop`: `Spec => []OneAnswerAfterStop`. What counts is where a session is when
  `Stop` begins (`AnswersLeft`): past the test of `running_` it has one answer left,
  before it none.

`ShuffleJoinProofs`, for any nodes, sessions, batches, signatures, hot threshold and
number of queries:

* `LossesUndercount`: `RowIdsRoundTrip` gives `Spec => LossOnlyUndercounts`. `JoinInv`
  says that a session whose query took nothing foreign (`~stray`) is alone, and that
  all there is of its query, sent, waiting or collected, is of its own two shuffles
  (`OwnMessages`, `OwnReceived`), whose entries are of rows that are stored: rows are
  added while it runs, and none is changed or taken away (`TablesKept`). The entries of a
  pair then tell its rows, and a right entry has one target, so a pair is found at one
  node at most.
* `MatchesExact`: under the same hypothesis, `Spec => MatchesAreExact`: the ids of the
  pairs found are those of the rows that satisfy the query among the ones stored when it
  began, each pair found once, if no message was late either and no ingestion was under
  way between its beginning and the end of its preparation (`missed`). An ingestion that
  begins later may go on under the shuffles, the pauses and the join. It needs that the
  entries prepared are those of the tables the query began with (`SeenEntries`), that
  no message is lost on the way from the
  shuffle to the collection (`NothingLost`, `HasAll`), and that two entries of the same
  signature, hot or not, meet at exactly one node (`MeetAtOneNode`). It is the part of
  `AnswersAreExact` that precedes the aggregation; that the stored rows are the
  distributed ones is only model-checked.

`ColumnScanProofs`, for any word size, skeleton, hash of the signatures, rows, queries
and deletes:

* `TransposeTransposes`: the butterfly of `SimdTransposer` transposes every square bit
  matrix. After the stage of width k = 2^j, row i holds in bit b what was in the row and
  bit that i and b become when the digits below 2^j are left alone and those above are
  exchanged (`Exchanged`); one stage exchanges one digit (`StageSwaps`).
* `TypeCorrect` and `Refinement`: `Spec => []TypeOK`, `Spec => ImplementsRowTable`, through
  `IInv`. A published group is laid out from some sequence of rows (`LaidOut`): every
  block holds, in its planes, tiles and tail, the words of its part of them (`Holds`),
  whatever has been deleted of it since. `TypeOK` is not inductive: that a compaction
  reads back rows of the table needs what the planes hold, not only where they are
  empty. A word read back is the number that was stored (`SignedOfWord`,
  `UnsignedOfBits`), so a compaction changes the layout and no row.
* `ScanCorrect`: `Spec => []ScanFindsMatchingRows`. The planes up to the highest active
  one and the threshold's highest bit decide like the words (`ComparedBits`,
  `GreaterWords`: at the highest bit that differs), and words of numbers of one sign like
  the numbers (`SignedOrder`). Skeletons and signatures lose no string that matches
  (`SkeletonOfPrefix`, `KimOfPart`), and the verification keeps no other.
* `SumsCorrect`: `Spec => []SumsAreOfFoundRows`. A row group does not look at its rows: it
  adds up a power of two for every bit set in a plane. The bits of the rows found are a
  table, which adds up the same by planes and by rows (`RowsAndColumns`, `PlanesAddUp`); a
  row's bits add up to its word, which is the number modulo the word size. Blocks are
  groups of rows (`PartSumGroups`), and the values behind an answer are those of row
  group, frozen and active memtable, told apart by a tag (`FoundParts`). Planes above the
  highest active one are empty, so that stopping there loses nothing (`TopPlane`).
* `ExtremesCorrect`: `Spec => []MergedExtremes`. A partial result names its least and
  greatest value if it counts any (`Extremal`), and merging keeps that (`MergeExtremal`):
  a part that found nothing must not contribute its zeros.
* `FilesAreReadBack`: `Spec => []FilesReadBack`. `Deserialize` does not see the fields that
  were written, only offsets it adds up from the lengths it reads. It goes through a file
  in step with them (`Read`): at the end of the k-th field it has read the data among the
  first k, or it has failed and the file is not whole. A read of as many bytes as the
  next field has keeps that (`TakeReads`), and so does skipping padding, because both
  sides compute it from the same number (`PaddingIsSkipped`); a length that was read is
  the one that was written, because no other field has its bytes (`LengthIsRead`). The
  fields of columns and blocks follow each other (`Segment`), and by induction over the
  turns of the loops (`UptoInduction`, on a set of turns) everything is read
  (`FileIsRead`). The loops are recursive functions, shown to exist by `LoopDefined`.

`SumProofs` has what those proofs need of sums over finite sets, of counting up and of
joined sequences. The fold that `SumOver`
is takes the elements in an order nobody knows; that the order does not matter is shown
by taking a smallest set at which it would (`SumTables`).

`RowIdsRoundTrip` is the hypothesis that a row id unpacks to what was packed. It is a
sum of powers of two, which the prover cannot compute; `MCJoinSessions` has TLC
evaluate it for 1, 2 and 256 nodes and fields of 1 to 3 bits. With 257 nodes it fails,
as it does in the code, whose row ids have eight bits for the node.

TLC checked every strengthening on the instance of the run before it was proved.

Assumptions used are the named `ASSUME`s of the modules: preloaded rows are rows and
finitely many, the daemon is no client, packets hold at least one entry and messages
have some, bounds are naturals, no identifier is a client's or a statement's; names have lengths; rows have a number of
a word and a string of characters, or null, and queries are sets of predicates over
them. `PowerAssumption` is arithmetic, not a restriction: the provers do not know what
an exponent is, and it tells them that 2^0 is 1 and 2^(n+1) twice 2^n. TLC
evaluates each of them in the runs of that module.

Only model-checked, and why:

* all liveness: the prover has no `ENABLED`;
* `ExpressionsAreSentences`, `ExecutesWhatIsMeant`: about recursive descent over texts,
  modelled by recursion over sequences of lexemes;
* `AnswersAreExact`, which goes on from the matches to their aggregates: those are
  folds and a sorted sequence.

## 6. Abstractions and limits

* Rows of `LsmStore` are names, each inserted at most once; a container is a set
  of them, and the index that `DeleteRow` takes is the row it designates. Values and
  indices are in `ColumnScan`, whose steps are whole operations: what happens
  between the steps of a compaction is in `LsmStore` only. A memtable's size is its
  number of rows.
* `ColumnScan` has one numeric and one string column, a row group of any number of
  blocks, and queries of one or two predicates. Words are narrower than the code's 64
  and 32 bits, blocks smaller than 64 rows; the width is a constant that the operators
  use as the code does. Left out: other integer and boolean columns, medians, strings
  in aggregates, several row groups, the NEON variant of the transposer, and instruction
  encoding in the AsmJit emitter. How many registers a scan takes is counted in
  `PgWireServer`, where running out of them ends the process; an emitter that cannot
  allocate code memory (`micro_op_compiler.cpp:419`) is left out.
* A block of a row group is any subset of the rows not scanned yet, so every
  partition into blocks of 64 is covered.
* Message ids stay below 2^32. The fields of a packed row id have one bit
  in the join's runs for the code's 12. In `join_exact` the last row of one left batch has
  an index that takes two, and runs into the batch's field; the join's properties speak of
  tables without such rows (`Fits`), and what happens with them is explored, not promised.
* A data race in `ShuffleJoin` is the end of the process or one of the orders of its
  steps, which are those of one node each; a loop over the nodes that reads or writes
  nothing others do in between is one step. An ingestion makes a node's batch visible at
  once.
* `ShuffleJoin` abstracts strings in aggregates and the assignment of tasks to
  availability zones; the cluster is initialized once.
* Statements of `WireSql` are lexemes, not characters, in one case. Only the first item
  of a SELECT list is executed by the code, and only it is modelled. Lengths in messages
  are true, and a message arrives whole: `HandleClient` trusts both. The bytes of
  answers are left out.
* `RowGroupFile` counts bytes exactly and carries values whole; a file is a beginning of
  one that was written, never one with other contents.
* A query of the daemon is the file and predicate it evaluates. Reading past the end
  of a short file yields a wrong count or kills the process (`Kill`). The check of
  the magic bytes, which a short file may fail as well, is left out.
* The ApexEngine is modelled from its calls in `query_daemon.cpp`; what it does under
  concurrent calls beyond storing and reading an expression per schema is unknown.
* Not modelled: `ArrowConnector` and `ShmBridge`, sequential adapters to the absent
  ApexEngine; the executables, the benchmark client and deployment files, which only
  show how the parts are used; generated machine code below the opcodes.
