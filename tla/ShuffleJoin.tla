---------------------------- MODULE ShuffleJoin -----------------------------
(***************************************************************************)
(* The distributed equi-join: a DistributedCoordinator drives its          *)
(* ClusterNodes through a shuffle of the left rows, a pause, a shuffle of  *)
(* the right rows, a second pause and the local joins.  The nodes send     *)
(* over a MessageChannel, which the transports of SrdTransport implement;  *)
(* its messages do not say which side or which query they belong to (the   *)
(* fields side and query of a message below are ghosts), and the two       *)
(* pauses are sleeps, however many messages are still on their way.        *)
(*                                                                         *)
(* The callers are the sessions of the wire server, each a thread of its   *)
(* own, and nothing keeps two of them from running queries on the same     *)
(* nodes at the same time: they share the nodes' signatures, what the      *)
(* nodes have received, and the messages.  Nor does anything keep a thread *)
(* that ingests rows, a loader, from adding them while queries run.  The   *)
(* unlocked accesses of two threads to one vector are a data race; its     *)
(* outcomes here are the orders of the steps below, and the end of the     *)
(* process.                                                                *)
(*                                                                         *)
(* Ingestion and the preparation of a query go from node to node, one step *)
(* each, so that a query sees an ingestion done at some nodes only.  The   *)
(* receiver threads only ever append to completed, so what the other loops *)
(* do at one node commutes with arrivals at the others: each of these is   *)
(* one action.                                                             *)
(***************************************************************************)
EXTENDS Integers, Sequences, FiniteSets, FiniteSetsExt, SequencesExt

CONSTANTS
    NumNodes,
    Keys,          \* the values of the join columns
    Null,          \* the key of a row whose join column is null
    Signature,     \* key -> kim and xor_sum as one number, not injective
    HotThreshold,  \* 16 in the code: a left signature seen more often is hot
    FieldBits,     \* 12 in the code: the bits of a row id for batch and row
    Values,        \* of the numeric column predicates and aggregates are about
    Sessions,      \* the threads that call ExecuteJoinQuery(Extended)
    Loaders,       \* the threads that call DistributeAndIngest
    LeftBatches,   \* batches, sequences of rows, that may be ingested
    RightBatches,
    Predicates,    \* what a query may ask for: sets of left and of right values
    MaxBatches,    \* bound: batches ingested of each side
    MaxQueries     \* bound: queries of the history

Sides == {"left", "right"}
Rows == [key : Keys \cup {Null}, val : Values]

ASSUME JoinAssumption ==
    /\ NumNodes \in Nat \ {0}
    /\ Null \notin Keys
    /\ Signature \in [Keys -> Nat]
    /\ HotThreshold \in Nat /\ FieldBits \in Nat \ {0}
    /\ Values \subseteq Int
    /\ LeftBatches \subseteq Seq(Rows) /\ RightBatches \subseteq Seq(Rows)
    /\ Predicates \subseteq [Sides -> SUBSET Values]
    /\ MaxBatches \in [Sides -> Nat] /\ MaxQueries \in Nat

Nodes == 0..(NumNodes - 1)

VARIABLES
    stored,      \* side -> row id <<node, batch, row>> -> row
    loading,     \* loader -> the batch it distributes and the next node
    phase,       \* session -> where it is in ExecuteJoinQuery
    next,        \* session -> the next node to prepare
    signatures,  \* side -> node -> local_left_signatures_
    hot,         \* session -> global_hot_signatures
    posted, arrived, completed,                          \* the MessageChannel
    received,    \* side -> node -> the messages received_left_signatures_ is from
    matches,     \* session -> the pairs that passed its verification, by node
    up           \* the nodes exist

\* History, not part of the code.
VARIABLES
    ingested,    \* side -> the rows that were distributed, in order
    asked,       \* session -> side -> the predicate of its query
    seen,        \* session -> ingested and stored when its query began
    batches,     \* side -> batches ingested, for the bound
    query,       \* session -> the number of its query
    queries,     \* queries started
    missed,      \* session -> a message of its own came after its pause, or rows
                 \* were being distributed while it was prepared
    stray        \* session -> it may have taken what is not of its query

channel == <<posted, arrived, completed>>
history == <<ingested, asked, seen, batches, query, queries, missed, stray>>
vars == <<stored, loading, phase, next, signatures, hot, channel, received, matches,
          up, history>>

Busy == {s \in Sessions : phase[s] \notin {"idle", "crashed"}}

Resting == [side |-> "none", batch |-> <<>>, node |-> 0]
Active == {l \in Loaders : loading[l] # Resting}

Net == INSTANCE MessageChannel

-----------------------------------------------------------------------------
(* Ingesting *)

\* Node n's slice: an equal share, and what is left over for the last node.
Slice(batch, n) ==
    LET share == Len(batch) \div NumNodes
    IN  SubSeq(batch, n * share + 1,
               IF n = NumNodes - 1 THEN Len(batch) ELSE (n + 1) * share)

\* The batch index the next slice of that side has at node n.
BatchCount(side, n) == Cardinality({id[2] : id \in {i \in DOMAIN stored[side] : i[1] = n}})

\* A query that is being prepared may see the rows at some nodes only.
DistributeAndIngest(l, side, batch) ==
    /\ up
    /\ loading[l] = Resting
    /\ batches[side] < MaxBatches[side]
    /\ batches' = [batches EXCEPT ![side] = @ + 1]
    /\ loading' = [loading EXCEPT ![l] = [side |-> side, batch |-> batch, node |-> 0]]
    /\ missed' = [s \in Sessions |-> missed[s] \/ phase[s] = "prepare"]
    /\ UNCHANGED <<stored, phase, next, signatures, hot, channel, received, matches,
                   up, ingested, asked, seen, query, queries, stray>>

\* IngestLeftPartition or IngestRightPartition, at the next node.
IngestPartition(l) ==
    LET side == loading[l].side
        n == loading[l].node
        slice == Slice(loading[l].batch, n)
        new == {<<n, BatchCount(side, n), r>> : r \in 0..(Len(slice) - 1)}
    IN  /\ up
        /\ loading[l] # Resting
        /\ stored' = [stored EXCEPT ![side] =
               [id \in DOMAIN @ \cup new |->
                   IF id \in new THEN slice[id[3] + 1] ELSE @[id]]]
        /\ ingested' = [ingested EXCEPT ![side] = @ \o slice]
        /\ loading' = [loading EXCEPT ![l] =
               IF n = NumNodes - 1 THEN Resting ELSE [@ EXCEPT !.node = n + 1]]
        /\ UNCHANGED <<phase, next, signatures, hot, channel, received, matches, up,
                       asked, seen, batches, query, queries, missed, stray>>

-----------------------------------------------------------------------------
(* Row ids *)

\* The word of a row id has two fields of FieldBits and one of eight bits.
Word == 0..(2 * FieldBits + 7)
Bits(x) == {i \in Word : (x \div 2^i) % 2 = 1}
FromBits(B) == MapThenSumSet(LAMBDA i : 2^i, B)

PackRowIdShort(n, b, r) ==                              \* mutant of PackRowId
    FromBits(Bits(n * 2^(2 * FieldBits)) \cup Bits(b * 2^(FieldBits - 1)) \cup Bits(r))

\* The three numbers are shifted and ORed: one too large for its field runs
\* into the next.
PackRowId(n, b, r) ==
    FromBits(Bits(n * 2^(2 * FieldBits)) \cup Bits(b * 2^FieldBits) \cup Bits(r))

UnpackRowId(w) ==
    <<w \div 2^(2 * FieldBits), (w \div 2^FieldBits) % 2^FieldBits, w % 2^FieldBits>>

-----------------------------------------------------------------------------
(* A query *)

\* GetMatchingRows, for one row.
Matches(row, predicate) == row.val \in predicate

\* The entries PrepareJoinSignatures makes of the rows of a table at node n
\* that pass the predicates and whose join column is not null.  A node tells its
\* own entries by where they are, here the field at.
EntriesAt(table, n, predicate) ==
    {[sig |-> Signature[table[id].key], at |-> n, row |-> PackRowId(n, id[2], id[3])] :
        id \in {i \in DOMAIN table :
                  i[1] = n /\ Matches(table[i], predicate) /\ table[i].key # Null}}

\* What all nodes have prepared.
Entries(side) == UNION {signatures[side][n] : n \in Nodes}

HotSignatures(entries) ==
    {s \in {e.sig : e \in entries} :
        Cardinality({e \in entries : e.sig = s}) > HotThreshold}

\* ShuffleLeftSignatures replicates a hot entry to all nodes.
LeftTargetsByHash(h, e) == {e.sig % NumNodes}           \* mutant of LeftTargets
LeftTargets(h, e) == IF e.sig \in h THEN Nodes ELSE {e.sig % NumNodes}

\* ShuffleRightSignatures spreads hot entries by their batch index.
RightTargetsAll(h, e) ==                               \* mutant of RightTargets
    IF e.sig \in h THEN Nodes ELSE {e.sig % NumNodes}
RightTargets(h, e) ==
    {(IF e.sig \in h THEN e.sig + UnpackRowId(e.row)[2] ELSE e.sig) % NumNodes}

\* The messages of a shuffle, from each node to each target, unless empty;
\* targets is a function from entries to sets of nodes.
Shuffle(q, side, entries, targets) ==
    {m \in {[query |-> q, side |-> side, from |-> n, to |-> t,
             body |-> {e \in entries : e.at = n /\ t \in targets[e]}] :
               n, t \in Nodes} :
       m.body # {}}

\* received_left_signatures_ or received_right_signatures_ are cleared.
NotCleared(side) == received                                \* mutant of Cleared
Cleared(side) == [received EXCEPT ![side] = [n \in Nodes |-> {}]]

\* A query begins.
StartQuery(s, preds) ==
    /\ up
    /\ phase[s] = "idle" /\ phase' = [phase EXCEPT ![s] = "prepare"]
    /\ next' = [next EXCEPT ![s] = 0]
    /\ queries < MaxQueries /\ queries' = queries + 1
    /\ matches' = [matches EXCEPT ![s] = {}]
    /\ asked' = [asked EXCEPT ![s] = preds]
    /\ seen' = [seen EXCEPT ![s] = [ingested |-> ingested, stored |-> stored]]
    /\ query' = [query EXCEPT ![s] = queries']
    /\ missed' = [missed EXCEPT ![s] = Active # {}]
    /\ stray' = [t \in Sessions |->
           IF t = s THEN Busy # {} \/ \E n \in Nodes : completed[n] # {}
           ELSE stray[t] \/ t \in Busy]
    /\ UNCHANGED <<stored, loading, signatures, hot, channel, received, up, ingested,
                   batches>>

PrepareJoinSignatures(s) ==
    LET n == next[s]
    IN  /\ up
        /\ phase[s] = "prepare"
        /\ signatures' = [side \in Sides |-> [signatures[side] EXCEPT ![n] =
                              EntriesAt(stored[side], n, asked[s][side])]]
        /\ next' = [next EXCEPT ![s] = n + 1]
        /\ phase' = [phase EXCEPT ![s] = IF n = NumNodes - 1 THEN "prepared" ELSE @]
        /\ UNCHANGED <<stored, loading, hot, channel, received, matches, up, history>>

ShuffleLeft(s) ==
    LET left == Entries("left")
        h == HotSignatures(left)
    IN  /\ up
        /\ phase[s] = "prepared" /\ phase' = [phase EXCEPT ![s] = "left"]
        /\ hot' = [hot EXCEPT ![s] = h]
        /\ received' = Cleared("left")
        /\ Net!Post(Shuffle(query[s], "left", left, [e \in left |-> LeftTargets(h, e)]))
        /\ UNCHANGED <<stored, loading, next, signatures, matches, up, history>>

\* Message m is one that session s waits for.
Receivable(s, m) == m.query = query[s] /\ m.side = phase[s]

\* A receiver thread completes a message.
Arrive(m) ==
    /\ up
    /\ Net!Deliver(m)
    /\ stray' = [s \in Sessions |-> stray[s] \/ ~Receivable(s, m)]
    /\ UNCHANGED <<stored, loading, phase, next, signatures, hot, received, matches,
                   up, ingested, asked, seen, batches, query, queries, missed>>

CollectedPhase(side) ==
    IF side = "left" THEN "left collected" ELSE "right collected"

\* The sleep after a shuffle ends when its time is over.
PauseForAll(s, side) == phase[s] = side /\ arrived = posted  \* mutant of PauseOver
PauseOver(s, side) == phase[s] = side

\* What ReceiveAll leaves at the nodes.
AllTaken == [n \in Nodes |-> {}]

\* CollectLeftSignatures or CollectRightSignatures, at every node, take
\* whatever has been completed.
Collect(s, side) ==
    /\ up
    /\ PauseOver(s, side)
    /\ phase' = [phase EXCEPT ![s] = CollectedPhase(side)]
    /\ received' = [received EXCEPT ![side] = [n \in Nodes |-> @[n] \cup completed[n]]]
    /\ completed' = AllTaken
    /\ missed' = [missed EXCEPT ![s] = @ \/ \E m \in posted \ arrived : Receivable(s, m)]
    /\ UNCHANGED <<stored, loading, next, signatures, hot, posted, arrived, matches,
                   up, ingested, asked, seen, batches, query, queries, stray>>

ShuffleRight(s) ==
    /\ up
    /\ phase[s] = "left collected" /\ phase' = [phase EXCEPT ![s] = "right"]
    /\ received' = Cleared("right")
    /\ LET right == Entries("right")
       IN  Net!Post(Shuffle(query[s], "right", right,
                            [e \in right |-> RightTargets(hot[s], e)]))
    /\ UNCHANGED <<stored, loading, next, signatures, hot, matches, up, history>>

\* PerformLocalJoin: every pair of entries with the same signature at a node,
\* with the messages they came in; then UnpackRowId of both.
Candidates ==
    UNION {UNION {{<<n, p, q, UnpackRowId(e[1].row), UnpackRowId(e[2].row)>> :
                     e \in {pair \in p.body \X q.body : pair[1].sig = pair[2].sig}}
                   : p \in received.left[n], q \in received.right[n]}
            : n \in Nodes}

KeyAt(side, id) == stored[side][id].key

\* The verification of the join columns: a row id of the wrong table may be
\* out of the table's bounds, and what the code then compares, if it does not
\* crash, is any string.
Wild(c) == c[4] \notin DOMAIN stored.left \/ c[5] \notin DOMAIN stored.right

VerifiedPairs ==
    {c \in Candidates : ~Wild(c) /\ KeyAt("left", c[4]) = KeyAt("right", c[5])}

\* The end of the process.
Crash ==
    /\ phase' = [s \in Sessions |-> "crashed"]
    /\ loading' = [l \in Loaders |-> Resting]
    /\ up' = FALSE
    /\ UNCHANGED matches

Join(s) ==
    /\ up
    /\ phase[s] = "right collected"
    /\ LET wild == {c \in Candidates : Wild(c)}
       IN  \/ \E W \in SUBSET wild :
                 /\ phase' = [phase EXCEPT ![s] = "idle"]
                 /\ matches' = [matches EXCEPT ![s] = VerifiedPairs \cup W]
                 /\ UNCHANGED <<loading, up>>
           \/ wild # {} /\ Crash
    /\ UNCHANGED <<stored, next, signatures, hot, channel, received, history>>

\* The sessions that read the batches of the nodes.
Reading == {s \in Sessions : phase[s] \in {"prepare", "right collected"}}

\* Two threads are inside the nodes' vectors at once, or one is after the nodes
\* have been destroyed.
Race ==
    /\ \/ Cardinality(Busy) > 1
       \/ Cardinality(Active) > 1
       \/ Active # {} /\ Reading # {}
       \/ ~up /\ Busy \cup Active # {}
    /\ Crash
    /\ UNCHANGED <<stored, next, signatures, hot, channel, received, history>>

\* ShutdownCluster stops the transports and destroys the nodes; it waits for
\* no query and no loader.
ShutdownCluster ==
    /\ up /\ up' = FALSE
    /\ UNCHANGED <<stored, loading, phase, next, signatures, hot, channel, received,
                   matches, history>>

-----------------------------------------------------------------------------
Init ==
    /\ stored = [side \in Sides |-> <<>>]
    /\ loading = [l \in Loaders |-> Resting]
    /\ phase = [s \in Sessions |-> "idle"]
    /\ next = [s \in Sessions |-> 0]
    /\ signatures = [side \in Sides |-> [n \in Nodes |-> {}]]
    /\ hot = [s \in Sessions |-> {}]
    /\ Net!Init
    /\ received = [side \in Sides |-> [n \in Nodes |-> {}]]
    /\ matches = [s \in Sessions |-> {}]
    /\ up = TRUE
    /\ ingested = [side \in Sides |-> <<>>]
    /\ asked = [s \in Sessions |-> [side \in Sides |-> {}]]
    /\ seen = [s \in Sessions |-> [ingested |-> ingested, stored |-> stored]]
    /\ query = [s \in Sessions |-> 0]
    /\ batches = [side \in Sides |-> 0]
    /\ queries = 0
    /\ missed = [s \in Sessions |-> FALSE]
    /\ stray = [s \in Sessions |-> FALSE]

CoordinatorStep(s) ==
    \/ PrepareJoinSignatures(s)
    \/ ShuffleLeft(s)
    \/ \E side \in Sides : Collect(s, side)
    \/ ShuffleRight(s)
    \/ Join(s)

Next ==
    \/ \E l \in Loaders :
           \/ \E batch \in LeftBatches : DistributeAndIngest(l, "left", batch)
           \/ \E batch \in RightBatches : DistributeAndIngest(l, "right", batch)
           \/ IngestPartition(l)
    \/ \E s \in Sessions, preds \in Predicates : StartQuery(s, preds)
    \/ \E m \in posted : Arrive(m)
    \/ \E s \in Sessions : CoordinatorStep(s)
    \/ Race
    \/ ShutdownCluster

Spec == Init /\ [][Next]_vars

\* Every session's thread runs, and a use of destroyed nodes has its outcome;
\* the network need not deliver anything.
FairSpec ==
    /\ Spec
    /\ \A s \in Sessions : WF_vars(CoordinatorStep(s))
    /\ WF_vars(~up /\ Race)

-----------------------------------------------------------------------------
(* The QueryResult of ExecuteJoinQueryExtended *)

\* The aggregated values of the matched pairs' left rows, sorted; which of
\* several equal ones comes first decides nothing.
SortedValues(M) ==
    SortSeq(FoldSet(LAMBDA c, v : Append(v, stored.left[c[4]].val), <<>>, M), <)

Half(x) == IF x >= 0 THEN x \div 2 ELSE -((-x) \div 2)    \* as C++ divides

MedianLower(v) == v[(Len(v) + 1) \div 2]                \* mutant of Median
Median(v) ==
    LET h == Len(v) \div 2
    IN  IF Len(v) % 2 = 1 THEN v[h + 1] ELSE Half(v[h] + v[h + 1])

\* All but the average, which is sum over count.  Nothing is computed of no
\* pairs.
QueryResult(M) ==
    LET v == SortedValues(M)
    IN  IF M = {} THEN [count |-> 0, sum |-> 0]
        ELSE [count    |-> Len(v),
              sum      |-> FoldLeft(+, 0, v),
              min      |-> v[1],
              max      |-> v[Len(v)],
              distinct |-> Cardinality(ToSet(v)),
              median   |-> Median(v)]

-----------------------------------------------------------------------------
(* Properties *)

\* The rows of the tables have ids that do not run into one another.
Fits(tables) ==
    \A side \in Sides : \A id \in DOMAIN tables[side] :
        id[2] < 2^FieldBits /\ id[3] < 2^FieldBits

\* What PackRowId packs comes out of UnpackRowId: it takes that the number of
\* a node has eight bits.
RowIdsRoundTrip ==
    /\ 2^FieldBits \in Nat
    /\ \A n \in Nodes, b, r \in 0..(2^FieldBits - 1) :
           UnpackRowId(PackRowId(n, b, r)) = <<n, b, r>>

\* The pairs of rows that satisfy the query of session s, of those that had
\* been distributed when it began.
Wanted(s) ==
    LET rows == seen[s].ingested
    IN  {w \in (1..Len(rows.left)) \X (1..Len(rows.right)) :
            LET l == rows.left[w[1]]  r == rows.right[w[2]]
            IN  /\ l.key = r.key /\ l.key # Null
                /\ l.val \in asked[s].left /\ r.val \in asked[s].right}

\* Result res is what the pairs W say about the values of their left rows.
Describes(res, left, W) ==
    LET size == Cardinality(W)
        Val(w) == left[w[1]].val
        vs == {Val(w) : w \in W}
        Below(x) == Cardinality({w \in W : Val(w) < x})
        UpTo(x) == Cardinality({w \in W : Val(w) <= x})
        Smallest(k) == CHOOSE x \in vs : Below(x) < k /\ k <= UpTo(x)
    IN  /\ res.count = size
        /\ res.sum = MapThenSumSet(LAMBDA x : x * (UpTo(x) - Below(x)), vs)
        /\ W # {} =>
             /\ res.min \in vs /\ res.max \in vs /\ vs \subseteq res.min..res.max
             /\ res.distinct = Cardinality(vs)
             /\ res.median = Half(Smallest((size + 1) \div 2) + Smallest(size \div 2 + 1))

\* A query of which no message came late, whose preparation overlapped no
\* ingestion, and which overlapped no other query and took no message of
\* another, counts every pair of rows that satisfies it, of those that were
\* there when it began, once, and aggregates their left rows' values, once it
\* comes to its join: wherever the two rows are, hot or not, whatever signatures
\* collide, and whatever is ingested while it shuffles.  It may follow queries
\* that were late, or that ran into each other.
AnswersAreExact ==
    [][\A s \in Sessions :
        Join(s) /\ ~missed[s] /\ ~stray[s] /\ Fits(seen[s].stored) =>
            /\ phase'[s] = "idle"
            /\ Describes(QueryResult(matches'[s]), seen[s].ingested.left, Wanted(s))]_vars

\* A query that missed messages, or rows that were being distributed, but took
\* no message that is not its own, counts too little at most: only pairs that
\* satisfy it, each once.
LossOnlyUndercounts ==
    [][\A s \in Sessions :
        Join(s) /\ ~stray[s] /\ Fits(stored) =>
            /\ phase'[s] = "idle"
            /\ \A c \in matches'[s] :
                   /\ stored.left[c[4]].val \in asked[s].left
                   /\ stored.right[c[5]].val \in asked[s].right
                   /\ KeyAt("left", c[4]) = KeyAt("right", c[5])
            /\ \A c, d \in matches'[s] : c[4] = d[4] /\ c[5] = d[5] => c = d]_vars

\* A query answers, or crashes the process: it waits for no message and for no
\* other query.
QueryReturns == \A s \in Sessions : phase[s] # "idle" ~> phase[s] \in {"idle", "crashed"}

\* What the comments say at both sleeps: "Wait for all Left shuffles to be
\* fully received and reconstructed", and the same for Right.
BarrierWaits ==
    \A s \in Sessions, m \in posted :
        m.query = query[s] /\ phase[s] = CollectedPhase(m.side) => m \in arrived
=============================================================================
