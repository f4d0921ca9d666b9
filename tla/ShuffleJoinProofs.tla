------------------------- MODULE ShuffleJoinProofs --------------------------
(***************************************************************************)
(* Proofs about the join for every number of nodes, sessions, loaders,     *)
(* batches and queries: a query that took nothing foreign finds only pairs *)
(* that satisfy it, each once, and if it missed nothing, all of them.      *)
(*                                                                         *)
(* They take that row ids come out as they went in, RowIdsRoundTrip, which *)
(* is a statement about constants that TLC evaluates for its instances.    *)
(***************************************************************************)
EXTENDS ShuffleJoin, SequenceTheorems, FiniteSetTheorems, TLAPS

-----------------------------------------------------------------------------
(* The inductive invariant *)

\* The two shuffles of the query of session s.
LeftShuffle(s) ==
    Shuffle(query[s], "left", Entries("left"),
            [e \in Entries("left") |-> LeftTargets(hot[s], e)])
RightShuffle(s) ==
    Shuffle(query[s], "right", Entries("right"),
            [e \in Entries("right") |-> RightTargets(hot[s], e)])

Phases == {"idle", "prepare", "prepared", "left", "left collected",
           "right", "right collected", "crashed"}

\* The batch indices of that side's rows at node n.
BatchesAt(side, n) == {id[2] : id \in {i \in DOMAIN stored[side] : i[1] = n}}

\* The batches of a node are numbered from 0 without a gap.
StoredInv ==
    /\ DOMAIN stored = Sides
    /\ \A side \in Sides :
           /\ DOMAIN stored[side] \subseteq Nodes \X Nat \X Nat
           /\ \A id \in DOMAIN stored[side] : stored[side][id] \in Rows
           /\ \A n \in Nodes : \E k \in Nat : BatchesAt(side, n) = 0..(k - 1)

LoadingInv ==
    /\ DOMAIN loading = Loaders
    /\ \A l \in Active : loading[l] \in [side : Sides, batch : Seq(Rows), node : Nodes]

\* Messages are of queries that have begun, and wait where they were sent.
MessagesInv ==
    /\ queries \in Nat
    /\ DOMAIN completed = Nodes
    /\ arrived \subseteq posted
    /\ \A m \in posted : m.query \in 1..queries
    /\ \A s \in Busy : query[s] \in 1..queries
    /\ \A n \in Nodes : \A m \in completed[n] : m \in posted /\ m.to = n

SessionsInv ==
    /\ phase \in [Sessions -> Phases]
    /\ stray \in [Sessions -> BOOLEAN]
    /\ missed \in [Sessions -> BOOLEAN]
    /\ DOMAIN hot = Sessions /\ DOMAIN matches = Sessions
    /\ DOMAIN asked = Sessions /\ DOMAIN query = Sessions
    /\ DOMAIN seen = Sessions /\ DOMAIN next = Sessions
    /\ \A s \in Sessions : phase[s] = "prepare" => next[s] \in Nodes
    /\ DOMAIN received = Sides /\ DOMAIN signatures = Sides
    /\ \A side \in Sides : DOMAIN signatures[side] = Nodes

\* A session whose query took nothing foreign is alone, and what there is
\* of its query, anywhere, is of its own two shuffles.
Alone(s) == s \in Busy /\ ~stray[s]

\* The rows of the tables T are among those of the tables U.
Within(T, U) ==
    \A side \in Sides :
        /\ DOMAIN T[side] \subseteq DOMAIN U[side]
        /\ \A id \in DOMAIN T[side] : T[side][id] = U[side][id]

PreparedNodes(s) ==
    IF phase[s] = "prepare" THEN {n \in Nodes : n < next[s]} ELSE Nodes

\* What the nodes have prepared is of rows that are stored.
OwnEntries(s) ==
    /\ Within(seen[s].stored, stored)
    /\ \A side \in Sides : \A n \in PreparedNodes(s) :
           signatures[side][n] \subseteq EntriesAt(stored[side], n, asked[s][side])

\* Without rows distributed while it was prepared, a query has prepared the
\* rows that were there when it began.
SeenEntries(s) ==
    /\ phase[s] = "prepare" => Active = {} /\ seen[s].stored = stored
    /\ \A side \in Sides : \A n \in PreparedNodes(s) :
           signatures[side][n] = EntriesAt(seen[s].stored[side], n, asked[s][side])

OwnQuery(s) == Busy = {s} /\ query[s] = queries

LeftCollected(s) == phase[s] \in {"left collected", "right", "right collected"}
ShuffledLeft(s) == phase[s] = "left" \/ LeftCollected(s)
ShuffledRight(s) == phase[s] \in {"right", "right collected"}

OwnMessages(s) ==
    /\ \A m \in posted : m.query = query[s] =>
           \/ ShuffledLeft(s) /\ m \in LeftShuffle(s)
           \/ ShuffledRight(s) /\ m \in RightShuffle(s)
    /\ \A n \in Nodes : \A m \in completed[n] : Receivable(s, m)

\* The messages of M to node n.
To(n, M) == {m \in M : m.to = n}

OwnReceived(s) ==
    \A n \in Nodes :
        /\ phase[s] = "left" => received.left[n] = {}
        /\ LeftCollected(s) => received.left[n] \subseteq To(n, LeftShuffle(s))
        /\ phase[s] = "right" => received.right[n] = {}
        /\ phase[s] = "right collected" => received.right[n] \subseteq To(n, RightShuffle(s))

\* Of its messages none disappears, and without a late one it has them all.
NothingLost(s) ==
    /\ ShuffledLeft(s) => LeftShuffle(s) \subseteq posted
    /\ ShuffledRight(s) => RightShuffle(s) \subseteq posted
    /\ \A m \in arrived : Receivable(s, m) => m \in completed[m.to]

HasAll(s) ==
    \A n \in Nodes :
        /\ LeftCollected(s) => To(n, LeftShuffle(s)) \subseteq received.left[n]
        /\ phase[s] = "right collected" => To(n, RightShuffle(s)) \subseteq received.right[n]

\* What the shuffles of a query have done.
OwnShuffles(s) ==
    /\ OwnQuery(s) /\ OwnMessages(s) /\ OwnReceived(s) /\ NothingLost(s)
    /\ missed[s] \/ HasAll(s)

\* What its preparation has done.
OwnTables(s) == OwnEntries(s) /\ (missed[s] \/ SeenEntries(s))

Own(s) == OwnShuffles(s) /\ OwnTables(s)

JoinInv ==
    /\ StoredInv /\ LoadingInv /\ MessagesInv /\ SessionsInv
    /\ \A s \in Sessions : Alone(s) => Own(s)

-----------------------------------------------------------------------------
(* What is proved *)

\* The ids of the rows of tables T that satisfy the query of session s, in pairs.
WantedIds(T, s) ==
    {pair \in (DOMAIN T.left) \X (DOMAIN T.right) :
        LET l == T.left[pair[1]]  r == T.right[pair[2]]
        IN  /\ l.key = r.key /\ l.key # Null
            /\ l.val \in asked[s].left /\ r.val \in asked[s].right}

\* A query of which no message came late, whose preparation overlapped no
\* ingestion, and which overlapped no other query and took no message of
\* another, matches every pair of rows that satisfies it, of those that were
\* stored when it began, once, and no other pair, whatever is ingested while it
\* shuffles.
MatchesAreExact ==
    [][\A s \in Sessions :
        Join(s) /\ ~missed[s] /\ ~stray[s] /\ Fits(seen[s].stored) =>
            /\ phase'[s] = "idle"
            /\ {<<c[4], c[5]>> : c \in matches'[s]} = WantedIds(seen[s].stored, s)
            /\ \A c, d \in matches'[s] : c[4] = d[4] /\ c[5] = d[5] => c = d]_vars

-----------------------------------------------------------------------------
(* Shuffles *)

LEMMA ShuffleMessages ==
  ASSUME NEW q, NEW side, NEW E, NEW T, NEW m \in Shuffle(q, side, E, T)
  PROVE  /\ m.query = q /\ m.side = side
         /\ m.from \in Nodes /\ m.to \in Nodes
         /\ m.body = {e \in E : e.at = m.from /\ m.to \in T[e]}
         /\ m = [query |-> q, side |-> side, from |-> m.from, to |-> m.to,
                 body |-> {e \in E : e.at = m.from /\ m.to \in T[e]}]
  BY DEF Shuffle

\* An entry is sent to each of its targets.
LEMMA ShuffleSends ==
  ASSUME NEW q, NEW side, NEW E, NEW T, NEW e \in E, NEW t \in Nodes,
         e.at \in Nodes, t \in T[e]
  PROVE  \E m \in Shuffle(q, side, E, T) : m.from = e.at /\ m.to = t /\ e \in m.body
<1> DEFINE Message(from, to) ==
             [query |-> q, side |-> side, from |-> from, to |-> to,
              body |-> {x \in E : x.at = from /\ to \in T[x]}]
<1> DEFINE M == {Message(n, u) : n, u \in Nodes}
<1> DEFINE m == Message(e.at, t)
<1>1. m.from = e.at /\ m.to = t /\ e \in m.body
  OBVIOUS
<1>2. Shuffle(q, side, E, T) = {x \in M : x.body # {}}
  BY DEF Shuffle
<1> HIDE DEF Message
<1>3. m \in M
  OBVIOUS
<1> HIDE DEF m, M
<1>4. QED
  BY <1>1, <1>2, <1>3

\* Two messages of one shuffle between the same nodes are the same.
LEMMA OneMessage ==
  ASSUME NEW q, NEW side, NEW E, NEW T,
         NEW m \in Shuffle(q, side, E, T), NEW o \in Shuffle(q, side, E, T),
         m.from = o.from, m.to = o.to
  PROVE  m = o
<1> DEFINE Message(from, to) ==
             [query |-> q, side |-> side, from |-> from, to |-> to,
              body |-> {e \in E : e.at = from /\ to \in T[e]}]
<1>1. m = Message(m.from, m.to) /\ o = Message(o.from, o.to)
  BY ShuffleMessages
<1> HIDE DEF Message
<1>2. QED
  BY <1>1

LEMMA ShuffleSides ==
  ASSUME NEW s
  PROVE  /\ \A m \in LeftShuffle(s) : m.query = query[s] /\ m.side = "left"
         /\ \A m \in RightShuffle(s) : m.query = query[s] /\ m.side = "right"
  BY ShuffleMessages DEF LeftShuffle, RightShuffle

-----------------------------------------------------------------------------
(* The inductive invariant holds *)

LEMMA InitInv == Init => JoinInv
<1> SUFFICES ASSUME Init PROVE JoinInv
  OBVIOUS
<1>1. StoredInv
  <2>1. DOMAIN stored = Sides /\ \A side \in Sides : DOMAIN stored[side] = {}
    BY DEF Init
  <2>2. ASSUME NEW side \in Sides, NEW n \in Nodes
        PROVE  BatchesAt(side, n) = 0..(0 - 1)
    <3>1. BatchesAt(side, n) = {}
      BY <2>1 DEF BatchesAt
    <3>2. QED
      BY <3>1
  <2>3. QED
    BY <2>1, <2>2 DEF StoredInv
<1>2. LoadingInv
  BY DEF Init, LoadingInv, Active
<1>3. SessionsInv
  BY DEF Init, SessionsInv, Phases
<1>4. Busy = {}
  BY DEF Init, Busy
<1>5. MessagesInv
  BY <1>4 DEF Init, Net!Init, MessagesInv
<1>6. QED
  BY <1>1, <1>2, <1>3, <1>4, <1>5 DEF JoinInv, Alone

LEMMA SliceRows ==
  ASSUME NEW batch \in Seq(Rows), NEW n \in Nodes
  PROVE  Slice(batch, n) \in Seq(Rows)
<1> DEFINE share == Len(batch) \div NumNodes
<1> DEFINE first == n * share + 1
<1> DEFINE last == IF n = NumNodes - 1 THEN Len(batch) ELSE (n + 1) * share
<1>1. NumNodes \in Nat \ {0} /\ n \in Nat /\ n + 1 <= NumNodes /\ Len(batch) \in Nat
  BY JoinAssumption DEF Nodes
<1>2. share \in Nat /\ NumNodes * share <= Len(batch)
  BY <1>1
<1> HIDE DEF share
<1>3. n * share \in Nat /\ (n + 1) * share \in Nat
  BY <1>1, <1>2
<1>4. (n + 1) * share <= NumNodes * share
  BY <1>1, <1>2
<1>5. first \in Int /\ last \in Int /\ first >= 1 /\ last <= Len(batch)
  <2>1. NumNodes * share \in Nat
    BY <1>1, <1>2
  <2>2. QED
    BY <1>1, <1>2, <1>3, <1>4, <2>1
<1> HIDE DEF first, last
<1>6. \A i \in first..last : batch[i] \in Rows
  BY <1>1, <1>5
<1>7. SubSeq(batch, first, last) \in Seq(Rows)
  BY <1>5, <1>6, SubSeqProperties
<1>8. QED
  BY <1>7 DEF Slice, share, first, last

\* The next batch of a side at node n has an index no stored row has.
LEMMA BatchCountFresh ==
  ASSUME StoredInv, NEW side \in Sides, NEW n \in Nodes
  PROVE  /\ BatchCount(side, n) \in Nat
         /\ BatchesAt(side, n) = 0..(BatchCount(side, n) - 1)
<1>1. PICK k \in Nat : BatchesAt(side, n) = 0..(k - 1)
  BY DEF StoredInv
<1>2. BatchCount(side, n) = Cardinality(0..(k - 1))
  BY <1>1 DEF BatchCount, BatchesAt
<1>3. Cardinality(0..(k - 1)) = k
  BY FS_Interval
<1>4. QED
  BY <1>1, <1>2, <1>3

\* What ingestion does to the tables.
LEMMA IngestTables ==
  ASSUME StoredInv, LoadingInv, NEW l \in Loaders, IngestPartition(l)
  PROVE  StoredInv' /\ Within(stored, stored')
<1>0. PICK side \in Sides, n \in Nodes, slice \in Seq(Rows), b \in Nat :
          /\ b = BatchCount(side, n)
          /\ stored' = [stored EXCEPT ![side] =
                 LET new == {<<n, b, r>> : r \in 0..(Len(slice) - 1)}
                 IN  [id \in DOMAIN stored[side] \cup new |->
                         IF id \in new THEN slice[id[3] + 1] ELSE stored[side][id]]]
  <2>1. l \in Active
    BY DEF IngestPartition, Active
  <2>2. /\ loading[l].batch \in Seq(Rows)
        /\ loading[l].side \in Sides /\ loading[l].node \in Nodes
    BY <2>1 DEF LoadingInv
  <2>3. Slice(loading[l].batch, loading[l].node) \in Seq(Rows)
    BY <2>2, SliceRows
  <2> DEFINE Done(side, n, slice, b) ==
               /\ b = BatchCount(side, n)
               /\ stored' = [stored EXCEPT ![side] =
                      LET new == {<<n, b, r>> : r \in 0..(Len(slice) - 1)}
                      IN  [id \in DOMAIN stored[side] \cup new |->
                              IF id \in new THEN slice[id[3] + 1] ELSE stored[side][id]]]
  <2>4. Done(loading[l].side, loading[l].node, Slice(loading[l].batch, loading[l].node),
             BatchCount(loading[l].side, loading[l].node))
    BY DEF IngestPartition
  <2> HIDE DEF Done
  <2>5. \E side \in Sides, n \in Nodes, slice \in Seq(Rows), b \in Nat :
             Done(side, n, slice, b)
    BY <2>2, <2>3, <2>4, BatchCountFresh
  <2>6. QED
    BY <2>5 DEF Done
<1> DEFINE new == {<<n, b, r>> : r \in 0..(Len(slice) - 1)}
<1>1. stored' = [stored EXCEPT ![side] =
             [id \in DOMAIN stored[side] \cup new |->
                 IF id \in new THEN slice[id[3] + 1] ELSE stored[side][id]]]
  BY <1>0
<1>2. b \in Nat /\ BatchesAt(side, n) = 0..(b - 1)
  BY <1>0, BatchCountFresh
<1>3. ASSUME NEW id \in new
      PROVE  /\ id \in Nodes \X Nat \X Nat /\ id[1] = n /\ id[2] = b
             /\ slice[id[3] + 1] \in Rows /\ id \notin DOMAIN stored[side]
  <2>1. PICK r \in 0..(Len(slice) - 1) : id = <<n, b, r>>
    OBVIOUS
  <2>2. r \in Nat /\ r + 1 \in 1..Len(slice)
    BY <1>1
  <2>3. slice[r + 1] \in Rows
    BY <1>1, <2>2
  <2>4. id[1] = n /\ id[2] = b /\ id[3] = r
    BY <2>1
  <2>5. id \in DOMAIN stored[side] => b \in BatchesAt(side, n)
    BY <2>4 DEF BatchesAt
  <2>6. b \notin 0..(b - 1)
    BY <1>2
  <2>7. QED
    BY <1>1, <1>2, <2>1, <2>2, <2>3, <2>4, <2>5, <2>6
<1>n. new # {} => <<n, b, 0>> \in new
  BY <1>1
<1> HIDE DEF new
<1>4. /\ DOMAIN stored' = Sides
      /\ \A x \in Sides : x # side => stored'[x] = stored[x]
      /\ stored'[side] = [id \in DOMAIN stored[side] \cup new |->
             IF id \in new THEN slice[id[3] + 1] ELSE stored[side][id]]
  BY <1>1 DEF StoredInv
<1>5. DOMAIN stored'[side] = DOMAIN stored[side] \cup new
  BY <1>4
<1>6. \A id \in DOMAIN stored[side] : stored'[side][id] = stored[side][id]
  BY <1>3, <1>4
<1>7. \A id \in new : stored'[side][id] = slice[id[3] + 1]
  BY <1>4
<1>8. Within(stored, stored')
  BY <1>4, <1>5, <1>6 DEF Within
<1>9. ASSUME NEW k \in Nodes
      PROVE  \E c \in Nat : BatchesAt(side, k)' = 0..(c - 1)
  <2>1. PICK c \in Nat : BatchesAt(side, k) = 0..(c - 1)
    BY <1>1 DEF StoredInv
  <2>2. CASE k # n \/ new = {}
    <3>1. {i \in DOMAIN stored'[side] : i[1] = k} = {i \in DOMAIN stored[side] : i[1] = k}
      BY <1>3, <1>5, <2>2
    <3>2. BatchesAt(side, k)' = BatchesAt(side, k)
      BY <3>1 DEF BatchesAt
    <3>3. QED
      BY <2>1, <3>2
  <2>3. CASE k = n /\ new # {}
    <3>1. \A x \in {i \in DOMAIN stored'[side] : i[1] = n} :
              x \in new \/ x \in {i \in DOMAIN stored[side] : i[1] = n}
      BY <1>5
    <3> DEFINE At == {i \in DOMAIN stored[side] : i[1] = n}
    <3> DEFINE AtNext == {i \in DOMAIN stored'[side] : i[1] = n}
    <3>2. AtNext = At \cup new
      BY <1>3, <1>5
    <3>3. {id[2] : id \in new} = {b}
      BY <1>3, <1>n, <2>3
    <3> HIDE DEF At, AtNext
    <3>4. {id[2] : id \in AtNext} = {id[2] : id \in At} \cup {b}
      BY <3>2, <3>3
    <3>5. BatchesAt(side, n)' = BatchesAt(side, n) \cup {b}
      BY <2>3, <3>4 DEF BatchesAt, At, AtNext
    <3>6. (0..(b - 1)) \cup {b} = 0..((b + 1) - 1)
      BY <1>2
    <3>7. QED
      BY <1>2, <2>3, <3>5, <3>6
  <2>4. QED
    BY <2>2, <2>3
<1>10. StoredInv'
  <2>1. ASSUME NEW x \in Sides
        PROVE  /\ DOMAIN stored'[x] \subseteq Nodes \X Nat \X Nat
               /\ \A id \in DOMAIN stored'[x] : stored'[x][id] \in Rows
               /\ \A k \in Nodes : \E c \in Nat : BatchesAt(x, k)' = 0..(c - 1)
    <3>1. CASE x = side
      <4>1. DOMAIN stored'[side] \subseteq Nodes \X Nat \X Nat
        BY <1>1, <1>3, <1>5 DEF StoredInv
      <4>2. \A id \in DOMAIN stored'[side] : stored'[side][id] \in Rows
        BY <1>1, <1>3, <1>5, <1>6, <1>7 DEF StoredInv
      <4>3. QED
        BY <1>9, <3>1, <4>1, <4>2
    <3>2. CASE x # side
      <4>1. stored'[x] = stored[x]
        BY <1>4, <3>2
      <4>2. \A k : BatchesAt(x, k)' = BatchesAt(x, k)
        BY <4>1 DEF BatchesAt
      <4>3. QED
        BY <4>1, <4>2 DEF StoredInv
    <3>3. QED
      BY <3>1, <3>2
  <2>2. QED
    BY <1>4, <2>1 DEF StoredInv
<1>11. QED
  BY <1>8, <1>10

LEMMA ShufflesSame ==
  ASSUME UNCHANGED <<signatures, hot, query>>, NEW s
  PROVE  /\ LeftShuffle(s)' = LeftShuffle(s) /\ RightShuffle(s)' = RightShuffle(s)
         /\ \A n : /\ To(n, LeftShuffle(s))' = To(n, LeftShuffle(s))
                   /\ To(n, RightShuffle(s))' = To(n, RightShuffle(s))
<1>1. LeftShuffle(s)' = LeftShuffle(s) /\ RightShuffle(s)' = RightShuffle(s)
  BY DEF LeftShuffle, RightShuffle, Entries
<1>2. QED
  BY <1>1 DEF To

\* A step of others that touches nothing of the shuffles.
LEMMA ShufflesKept ==
  ASSUME NEW s, OwnShuffles(s), missed[s] => missed'[s], phase'[s] = phase[s],
         Busy' = Busy, UNCHANGED <<signatures, hot, query, queries, channel, received>>
  PROVE  OwnShuffles(s)'
<1>1. UNCHANGED <<signatures, hot, query, queries, posted, arrived, completed, received>>
  BY DEF channel
<1>2. /\ LeftShuffle(s)' = LeftShuffle(s) /\ RightShuffle(s)' = RightShuffle(s)
      /\ \A n : /\ To(n, LeftShuffle(s))' = To(n, LeftShuffle(s))
                /\ To(n, RightShuffle(s))' = To(n, RightShuffle(s))
  BY <1>1, ShufflesSame
<1>3. /\ LeftCollected(s)' <=> LeftCollected(s)
      /\ ShuffledLeft(s)' <=> ShuffledLeft(s)
      /\ ShuffledRight(s)' <=> ShuffledRight(s)
      /\ \A m : Receivable(s, m)' <=> Receivable(s, m)
  BY <1>1 DEF LeftCollected, ShuffledLeft, ShuffledRight, Receivable
<1>4. OwnQuery(s)'
  BY <1>1 DEF OwnShuffles, OwnQuery
<1>5. OwnMessages(s)'
  BY <1>1, <1>2, <1>3 DEF OwnShuffles, OwnMessages
<1>6. OwnReceived(s)'
  BY <1>1, <1>2, <1>3 DEF OwnShuffles, OwnReceived
<1>7. NothingLost(s)'
  BY <1>1, <1>2, <1>3 DEF OwnShuffles, NothingLost
<1>8. HasAll(s) => HasAll(s)'
  BY <1>1, <1>2, <1>3 DEF HasAll
<1>9. QED
  BY <1>4, <1>5, <1>6, <1>7, <1>8 DEF OwnShuffles

\* A step that touches neither the tables nor what was prepared of them.
LEMMA TablesKept ==
  ASSUME NEW s, OwnTables(s), missed[s] => missed'[s],
         UNCHANGED <<stored, signatures, asked, seen>>,
         \/ phase'[s] = phase[s] /\ UNCHANGED <<next, loading>>
         \/ phase[s] # "prepare" /\ phase'[s] # "prepare"
  PROVE  OwnTables(s)'
<1>1. PreparedNodes(s)' = PreparedNodes(s)
  BY DEF PreparedNodes
<1>2. \A T, n, p : EntriesAt(T, n, p)' = EntriesAt(T, n, p)
  OBVIOUS
<1>3. OwnEntries(s)'
  BY <1>1 DEF OwnTables, OwnEntries
<1>4. SeenEntries(s) => SeenEntries(s)'
  <2>1. phase'[s] = "prepare" => phase[s] = "prepare" /\ Active' = Active
    BY DEF Active
  <2>2. QED
    BY <1>1, <2>1 DEF SeenEntries
<1>5. QED
  BY <1>3, <1>4 DEF OwnTables

\* More rows make no fewer entries.
LEMMA EntriesGrow ==
  ASSUME NEW T, NEW U, Within(T, U), NEW side \in Sides, NEW n, NEW p
  PROVE  EntriesAt(T[side], n, p) \subseteq EntriesAt(U[side], n, p)
<1> SUFFICES ASSUME NEW e \in EntriesAt(T[side], n, p)
             PROVE  e \in EntriesAt(U[side], n, p)
  OBVIOUS
<1>1. PICK id \in DOMAIN T[side] :
          /\ id[1] = n /\ Matches(T[side][id], p) /\ T[side][id].key # Null
          /\ e = [sig |-> Signature[T[side][id].key], at |-> n,
                  row |-> PackRowId(n, id[2], id[3])]
  BY DEF EntriesAt
<1>2. id \in DOMAIN U[side] /\ U[side][id] = T[side][id]
  BY DEF Within
<1>3. QED
  BY <1>1, <1>2 DEF EntriesAt

\* While its query has shuffled nothing, no message waits.
LEMMA NothingWaits ==
  ASSUME MessagesInv, NEW s, OwnMessages(s), phase[s] \in {"prepare", "prepared"}
  PROVE  /\ \A n \in Nodes : completed[n] = {}
         /\ \A m \in posted : m.query # query[s]
<1>1. ~ShuffledLeft(s) /\ ~ShuffledRight(s)
  BY DEF ShuffledLeft, LeftCollected, ShuffledRight
<1>2. \A m \in posted : m.query # query[s]
  BY <1>1 DEF OwnMessages
<1>3. \A n \in Nodes : \A m \in completed[n] : FALSE
  BY <1>2 DEF OwnMessages, MessagesInv, Receivable
<1>4. QED
  BY <1>2, <1>3

LEMMA DistributeInv ==
  ASSUME JoinInv, NEW l \in Loaders, NEW side \in Sides, NEW batch \in Seq(Rows),
         DistributeAndIngest(l, side, batch)
  PROVE  JoinInv'
<1>1. /\ loading' = [loading EXCEPT ![l] = [side |-> side, batch |-> batch, node |-> 0]]
      /\ missed' = [s \in Sessions |-> missed[s] \/ phase[s] = "prepare"]
      /\ UNCHANGED <<stored, phase, next, signatures, hot, channel, received, matches,
                     asked, seen, query, queries, stray>>
  BY DEF DistributeAndIngest
<1>2. StoredInv /\ LoadingInv /\ MessagesInv /\ SessionsInv
  BY DEF JoinInv
<1>3. StoredInv'
  BY <1>1, <1>2 DEF StoredInv, BatchesAt
<1>4. LoadingInv'
  <2>1. 0 \in Nodes
    BY JoinAssumption DEF Nodes
  <2>2. \A x \in Loaders : x # l => loading'[x] = loading[x]
    BY <1>1, <1>2 DEF LoadingInv
  <2>3. loading'[l] = [side |-> side, batch |-> batch, node |-> 0]
    BY <1>1, <1>2 DEF LoadingInv
  <2>4. QED
    BY <1>1, <1>2, <2>1, <2>2, <2>3 DEF LoadingInv, Active
<1>5. Busy' = Busy
  BY <1>1 DEF Busy
<1>6. MessagesInv'
  BY <1>1, <1>2, <1>5 DEF MessagesInv, channel
<1>7. SessionsInv'
  BY <1>1, <1>2 DEF SessionsInv
<1>8. ASSUME NEW s \in Sessions, Alone(s)'
      PROVE  Own(s)'
  <2>1. Own(s)
    BY <1>1, <1>5, <1>8 DEF Alone, JoinInv
  <2>2. missed[s] => missed'[s]
    BY <1>1
  <2>3. OwnShuffles(s)'
    BY <1>1, <1>5, <2>1, <2>2, ShufflesKept DEF Own
  <2>4. CASE phase[s] # "prepare"
    BY <1>1, <2>1, <2>2, <2>3, <2>4, TablesKept DEF Own
  <2>5. CASE phase[s] = "prepare"
    <3>1. missed'[s]
      BY <1>1, <2>5
    <3>2. PreparedNodes(s)' = PreparedNodes(s)
      BY <1>1 DEF PreparedNodes
    <3>3. OwnEntries(s)'
      BY <1>1, <2>1, <3>2 DEF Own, OwnTables, OwnEntries
    <3>4. QED
      BY <2>3, <3>1, <3>3 DEF Own, OwnTables
  <2>6. QED
    BY <2>4, <2>5
<1>9. QED
  BY <1>3, <1>4, <1>6, <1>7, <1>8 DEF JoinInv

LEMMA IngestInv ==
  ASSUME JoinInv, NEW l \in Loaders, IngestPartition(l)
  PROVE  JoinInv'
<1>1. /\ l \in Active
      /\ loading' = [loading EXCEPT ![l] =
             IF loading[l].node = NumNodes - 1 THEN Resting
             ELSE [loading[l] EXCEPT !.node = loading[l].node + 1]]
      /\ UNCHANGED <<phase, next, signatures, hot, channel, received, matches,
                     asked, seen, query, queries, missed, stray>>
  BY DEF IngestPartition, Active
<1>2. StoredInv /\ LoadingInv /\ MessagesInv /\ SessionsInv
  BY DEF JoinInv
<1>3. StoredInv' /\ Within(stored, stored')
  BY <1>2, IngestTables
<1>4. LoadingInv'
  <2>1. loading[l] \in [side : Sides, batch : Seq(Rows), node : Nodes]
    BY <1>1, <1>2 DEF LoadingInv
  <2>2. \A x \in Loaders : x # l => loading'[x] = loading[x]
    BY <1>1, <1>2 DEF LoadingInv
  <2>3. loading[l].node # NumNodes - 1 => loading[l].node + 1 \in Nodes
    <3>1. \A n \in Nodes : n # NumNodes - 1 => n + 1 \in Nodes
      BY JoinAssumption DEF Nodes
    <3>2. loading[l].node \in Nodes
      BY <2>1
    <3>3. QED
      BY <3>1, <3>2
  <2>4. \/ loading'[l] = Resting
        \/ /\ loading[l].node + 1 \in Nodes
           /\ loading'[l] = [loading[l] EXCEPT !.node = loading[l].node + 1]
    BY <1>1, <1>2, <2>1, <2>3 DEF LoadingInv
  <2>5. QED
    BY <1>1, <1>2, <2>1, <2>2, <2>4 DEF LoadingInv, Active
<1>5. Busy' = Busy
  BY <1>1 DEF Busy
<1>6. MessagesInv'
  BY <1>1, <1>2, <1>5 DEF MessagesInv, channel
<1>7. SessionsInv'
  BY <1>1, <1>2 DEF SessionsInv
<1>8. ASSUME NEW s \in Sessions, Alone(s)'
      PROVE  Own(s)'
  <2>1. Own(s)
    BY <1>1, <1>5, <1>8 DEF Alone, JoinInv
  <2>2. OwnShuffles(s)'
    BY <1>1, <1>5, <2>1, ShufflesKept DEF Own
  <2>3. PreparedNodes(s)' = PreparedNodes(s)
    BY <1>1 DEF PreparedNodes
  <2>4. OwnEntries(s)'
    <3>1. Within(seen'[s].stored, stored')
      BY <1>1, <1>3, <2>1 DEF Own, OwnTables, OwnEntries, Within
    <3>2. ASSUME NEW side \in Sides, NEW n \in PreparedNodes(s)
          PROVE  signatures'[side][n] \subseteq
                    EntriesAt(stored'[side], n, asked'[s][side])
      <4>1. signatures[side][n] \subseteq EntriesAt(stored[side], n, asked[s][side])
        BY <2>1 DEF Own, OwnTables, OwnEntries
      <4>2. EntriesAt(stored[side], n, asked[s][side])
               \subseteq EntriesAt(stored'[side], n, asked[s][side])
        BY <1>3, EntriesGrow
      <4>3. QED
        BY <1>1, <4>1, <4>2
    <3>3. QED
      BY <2>3, <3>1, <3>2 DEF OwnEntries
  <2>5. SeenEntries(s) => SeenEntries(s)'
    <3>1. SeenEntries(s) => phase[s] # "prepare"
      BY <1>1 DEF SeenEntries
    <3>2. QED
      BY <1>1, <2>3, <3>1 DEF SeenEntries
  <2>6. QED
    BY <1>1, <2>1, <2>2, <2>4, <2>5 DEF Own, OwnTables
<1>9. QED
  BY <1>3, <1>4, <1>6, <1>7, <1>8 DEF JoinInv

LEMMA StartInv ==
  ASSUME JoinInv, NEW s \in Sessions, NEW preds, StartQuery(s, preds)
  PROVE  JoinInv'
<1>1. /\ phase[s] = "idle" /\ phase' = [phase EXCEPT ![s] = "prepare"]
      /\ next' = [next EXCEPT ![s] = 0]
      /\ queries' = queries + 1
      /\ matches' = [matches EXCEPT ![s] = {}]
      /\ asked' = [asked EXCEPT ![s] = preds]
      /\ seen' = [seen EXCEPT ![s] = [ingested |-> ingested, stored |-> stored]]
      /\ query' = [query EXCEPT ![s] = queries']
      /\ missed' = [missed EXCEPT ![s] = Active # {}]
      /\ stray' = [t \in Sessions |->
             IF t = s THEN Busy # {} \/ \E n \in Nodes : completed[n] # {}
             ELSE stray[t] \/ t \in Busy]
      /\ UNCHANGED <<stored, loading, signatures, hot, posted, arrived, completed, received>>
  BY DEF StartQuery, channel
<1>2. StoredInv /\ LoadingInv /\ MessagesInv /\ SessionsInv
  BY DEF JoinInv
<1>3. StoredInv' /\ LoadingInv'
  BY <1>1, <1>2 DEF StoredInv, BatchesAt, LoadingInv, Active
<1>4. MessagesInv'
  <2>1. queries' \in Nat /\ \A x \in 1..queries : x \in 1..queries'
    BY <1>1, <1>2 DEF MessagesInv
  <2>2. queries' \in 1..queries'
    BY <1>1, <1>2 DEF MessagesInv
  <2>3. \A m \in posted' : m.query \in 1..queries'
    BY <1>1, <1>2, <2>1 DEF MessagesInv
  <2>4. \A t \in Busy' : query'[t] \in 1..queries'
    BY <1>1, <1>2, <2>1, <2>2 DEF MessagesInv, SessionsInv, Busy
  <2>5. QED
    BY <1>1, <1>2, <2>1, <2>3, <2>4 DEF MessagesInv
<1>5. SessionsInv'
  <2>1. 0 \in Nodes
    BY JoinAssumption DEF Nodes
  <2>2. QED
    BY <1>1, <1>2, <2>1 DEF SessionsInv, Phases
<1>6. ASSUME NEW t \in Sessions, Alone(t)'
      PROVE  Own(t)'
  <2>1. t = s
    BY <1>1, <1>2, <1>6 DEF Alone, Busy, SessionsInv
  <2>2. Busy = {} /\ \A n \in Nodes : completed[n] = {}
    BY <1>1, <1>6, <2>1 DEF Alone
  <2>3. /\ phase'[s] = "prepare" /\ query'[s] = queries' /\ next'[s] = 0
        /\ seen'[s] = [ingested |-> ingested, stored |-> stored]
        /\ missed'[s] = (Active # {})
    BY <1>1, <1>2 DEF SessionsInv
  <2>4. seen'[s].stored = stored
    BY <2>3
  <2>5. OwnQuery(s)'
    <3>1. Busy' = {s}
      BY <1>1, <1>2, <2>2 DEF Busy, SessionsInv
    <3>2. QED
      BY <2>3, <3>1 DEF OwnQuery
  <2>6. \A m \in posted : m.query # queries'
    BY <1>1, <1>2 DEF MessagesInv
  <2>7. ~ShuffledLeft(s)' /\ ~LeftCollected(s)' /\ ~ShuffledRight(s)'
    BY <2>3 DEF ShuffledLeft, LeftCollected, ShuffledRight
  <2>8. OwnMessages(s)'
    BY <1>1, <2>2, <2>3, <2>6 DEF OwnMessages
  <2>9. OwnReceived(s)' /\ HasAll(s)'
    BY <2>3, <2>7 DEF OwnReceived, HasAll
  <2>10. NothingLost(s)'
    BY <1>1, <1>2, <2>3, <2>6, <2>7 DEF NothingLost, Receivable, MessagesInv
  <2>11. PreparedNodes(s)' = {}
    BY <2>3, JoinAssumption DEF PreparedNodes, Nodes
  <2>12. OwnEntries(s)'
    BY <1>1, <2>4, <2>11 DEF OwnEntries, Within
  <2>13. missed'[s] \/ SeenEntries(s)'
    <3>1. ~missed'[s] => Active' = {}
      BY <1>1, <2>3 DEF Active
    <3>2. QED
      BY <1>1, <2>4, <2>11, <3>1 DEF SeenEntries
  <2>14. QED
    BY <2>1, <2>5, <2>8, <2>9, <2>10, <2>12, <2>13 DEF Own, OwnShuffles, OwnTables
<1>7. QED
  BY <1>3, <1>4, <1>5, <1>6 DEF JoinInv

LEMMA PrepareInv ==
  ASSUME JoinInv, NEW s \in Sessions, PrepareJoinSignatures(s)
  PROVE  JoinInv'
<1> DEFINE n == next[s]
<1>1. /\ phase[s] = "prepare"
      /\ signatures' = [side \in Sides |-> [signatures[side] EXCEPT ![n] =
                            EntriesAt(stored[side], n, asked[s][side])]]
      /\ next' = [next EXCEPT ![s] = n + 1]
      /\ phase' = [phase EXCEPT ![s] = IF n = NumNodes - 1 THEN "prepared" ELSE phase[s]]
      /\ UNCHANGED <<stored, loading, hot, posted, arrived, completed, received, matches,
                     asked, seen, query, queries, missed, stray>>
  BY DEF PrepareJoinSignatures, channel, history
<1>2. StoredInv /\ LoadingInv /\ MessagesInv /\ SessionsInv
  BY DEF JoinInv
<1>3. StoredInv' /\ LoadingInv'
  BY <1>1, <1>2 DEF StoredInv, BatchesAt, LoadingInv, Active
<1>4. n \in Nodes /\ n \in 0..(NumNodes - 1) /\ NumNodes \in Nat
  BY <1>1, <1>2, JoinAssumption DEF SessionsInv, Nodes
<1>5. s \in Busy /\ Busy' = Busy
  BY <1>1, <1>2 DEF Busy, SessionsInv
<1>6. MessagesInv'
  BY <1>1, <1>2, <1>5 DEF MessagesInv
<1>7. SessionsInv'
  <2>1. n # NumNodes - 1 => n + 1 \in Nodes
    BY <1>4 DEF Nodes
  <2>2. phase' \in [Sessions -> Phases]
    BY <1>1, <1>2 DEF SessionsInv, Phases
  <2>3. \A t \in Sessions : phase'[t] = "prepare" => next'[t] \in Nodes
    BY <1>1, <1>2, <2>1 DEF SessionsInv
  <2>4. DOMAIN signatures' = Sides /\ \A side \in Sides : DOMAIN signatures'[side] = Nodes
    BY <1>1, <1>2 DEF SessionsInv
  <2>5. QED
    BY <1>1, <1>2, <2>2, <2>3, <2>4 DEF SessionsInv
<1>8. ASSUME NEW t \in Sessions, Alone(t)'
      PROVE  Own(t)'
  <2>1. Alone(t)
    BY <1>1, <1>5, <1>8 DEF Alone
  <2>2. Own(t) /\ t = s
    BY <1>5, <2>1 DEF JoinInv, Own, OwnShuffles, OwnQuery
  <2>3. /\ phase'[s] \in {"prepare", "prepared"}
        /\ phase'[s] = "prepare" <=> n # NumNodes - 1
        /\ next'[s] = n + 1
    BY <1>1, <1>2 DEF SessionsInv
  <2>4. /\ \A k \in Nodes : completed[k] = {}
        /\ \A m \in posted : m.query # query[s]
    BY <1>1, <1>2, <2>2, NothingWaits DEF Own, OwnShuffles
  <2>5. ~ShuffledLeft(s)' /\ ~LeftCollected(s)' /\ ~ShuffledRight(s)'
    BY <2>3 DEF ShuffledLeft, LeftCollected, ShuffledRight
  <2>6. OwnQuery(s)'
    BY <1>1, <1>5, <2>2 DEF Own, OwnShuffles, OwnQuery
  <2>7. OwnMessages(s)'
    BY <1>1, <2>4 DEF OwnMessages
  <2>8. OwnReceived(s)' /\ HasAll(s)'
    BY <2>3, <2>5 DEF OwnReceived, HasAll
  <2>9. NothingLost(s)'
    BY <1>1, <1>2, <2>4, <2>5 DEF NothingLost, Receivable, MessagesInv
  <2>10. PreparedNodes(s)' = PreparedNodes(s) \cup {n}
    <3>1. PreparedNodes(s) = {k \in Nodes : k < n}
      BY <1>1 DEF PreparedNodes
    <3>2. CASE n = NumNodes - 1
      <4>1. PreparedNodes(s)' = Nodes
        BY <2>3, <3>2 DEF PreparedNodes
      <4>2. QED
        BY <1>4, <3>1, <3>2, <4>1 DEF Nodes
    <3>3. CASE n # NumNodes - 1
      <4>1. PreparedNodes(s)' = {k \in Nodes : k < n + 1}
        BY <2>3, <3>3 DEF PreparedNodes
      <4>2. QED
        BY <1>4, <3>1, <4>1 DEF Nodes
    <3>4. QED
      BY <3>2, <3>3
  <2>11. /\ \A side \in Sides :
               signatures'[side][n] = EntriesAt(stored[side], n, asked[s][side])
         /\ \A side \in Sides : \A k \in Nodes : k # n =>
               signatures'[side][k] = signatures[side][k]
    BY <1>1, <1>2, <1>4 DEF SessionsInv
  <2>12. PreparedNodes(s) \subseteq Nodes
    BY DEF PreparedNodes
  <2> HIDE DEF n
  <2>13. OwnEntries(s)'
    <3>1. OwnEntries(s)
      BY <2>2 DEF Own, OwnTables
    <3>2. ASSUME NEW side \in Sides, NEW k \in PreparedNodes(s)'
          PROVE  signatures'[side][k] \subseteq EntriesAt(stored[side], k, asked[s][side])
      BY <2>10, <2>11, <2>12, <3>1 DEF OwnEntries
    <3>3. QED
      BY <1>1, <3>1, <3>2 DEF OwnEntries
  <2>14. SeenEntries(s) => SeenEntries(s)'
    <3> SUFFICES ASSUME SeenEntries(s) PROVE SeenEntries(s)'
      OBVIOUS
    <3>1. Active = {} /\ seen[s].stored = stored
      BY <1>1 DEF SeenEntries
    <3>2. Active' = {} /\ seen'[s].stored = stored'
      BY <1>1, <3>1 DEF Active
    <3>3. ASSUME NEW side \in Sides, NEW k \in PreparedNodes(s)'
          PROVE  signatures'[side][k] = EntriesAt(seen[s].stored[side], k, asked[s][side])
      BY <2>10, <2>11, <2>12, <3>1 DEF SeenEntries
    <3>4. QED
      BY <1>1, <3>2, <3>3 DEF SeenEntries
  <2>15. QED
    BY <1>1, <2>2, <2>6, <2>7, <2>8, <2>9, <2>13, <2>14 DEF Own, OwnShuffles, OwnTables
<1>9. QED
  BY <1>3, <1>6, <1>7, <1>8 DEF JoinInv

LEMMA ShuffleLeftInv ==
  ASSUME JoinInv, NEW s \in Sessions, ShuffleLeft(s)
  PROVE  JoinInv'
<1> DEFINE h == HotSignatures(Entries("left"))
<1>1. /\ phase[s] = "prepared" /\ phase' = [phase EXCEPT ![s] = "left"]
      /\ hot' = [hot EXCEPT ![s] = h]
      /\ received' = Cleared("left")
      /\ posted' = posted \cup Shuffle(query[s], "left", Entries("left"),
                          [e \in Entries("left") |-> LeftTargets(h, e)])
      /\ UNCHANGED <<stored, loading, next, signatures, arrived, completed, matches,
                     asked, seen, query, queries, missed, stray>>
  BY DEF ShuffleLeft, Net!Post, history
<1> HIDE DEF h
<1>2. StoredInv /\ LoadingInv /\ MessagesInv /\ SessionsInv
  BY DEF JoinInv
<1>3. StoredInv' /\ LoadingInv'
  BY <1>1, <1>2 DEF StoredInv, BatchesAt, LoadingInv, Active
<1>4. SessionsInv'
  BY <1>1, <1>2 DEF SessionsInv, Phases, Cleared
<1>5. s \in Busy /\ Busy' = Busy
  BY <1>1, <1>2 DEF Busy, SessionsInv
<1>6. hot'[s] = h /\ phase'[s] = "left"
  BY <1>1, <1>2 DEF SessionsInv
<1>7. posted' = posted \cup LeftShuffle(s)'
  <2>1. Entries("left")' = Entries("left")
    BY <1>1 DEF Entries
  <2>2. LeftShuffle(s)' = Shuffle(query[s], "left", Entries("left"),
                             [e \in Entries("left") |-> LeftTargets(h, e)])
    BY <1>1, <1>6, <2>1 DEF LeftShuffle
  <2>3. QED
    BY <1>1, <2>2
<1>8. \A m \in LeftShuffle(s)' : m.query = query[s] /\ m.side = "left"
  BY <1>1, ShuffleMessages DEF LeftShuffle
<1>9. MessagesInv'
  BY <1>1, <1>2, <1>5, <1>7, <1>8 DEF MessagesInv
<1>10. ASSUME NEW t \in Sessions, Alone(t)'
      PROVE  Own(t)'
  <2>1. Alone(t)
    BY <1>1, <1>5, <1>10 DEF Alone
  <2>2. Own(t) /\ t = s
    BY <1>5, <2>1 DEF JoinInv, Own, OwnShuffles, OwnQuery
  <2>3. /\ \A n \in Nodes : completed[n] = {}
        /\ \A m \in posted : m.query # query[s]
    BY <1>1, <1>2, <2>2, NothingWaits DEF Own, OwnShuffles
  <2>4. ShuffledLeft(s)' /\ ~LeftCollected(s)' /\ ~ShuffledRight(s)'
    BY <1>6 DEF ShuffledLeft, LeftCollected, ShuffledRight
  <2>5. OwnQuery(s)'
    BY <1>1, <1>5, <2>2 DEF Own, OwnShuffles, OwnQuery
  <2>6. OwnMessages(s)'
    BY <1>1, <1>7, <2>3, <2>4 DEF OwnMessages
  <2>7. OwnReceived(s)' /\ HasAll(s)'
    BY <1>1, <1>2, <1>6, <2>4 DEF OwnReceived, HasAll, Cleared, SessionsInv, Sides
  <2>8. NothingLost(s)'
    <3>1. \A m \in arrived : ~Receivable(s, m)'
      BY <1>1, <1>2, <2>3 DEF Receivable, MessagesInv
    <3>2. QED
      BY <1>1, <1>7, <2>4, <3>1 DEF NothingLost
  <2>9. OwnTables(s)'
    BY <1>1, <1>6, <2>2, TablesKept DEF Own
  <2>10. QED
    BY <2>2, <2>5, <2>6, <2>7, <2>8, <2>9 DEF Own, OwnShuffles
<1>11. QED
  BY <1>3, <1>4, <1>9, <1>10 DEF JoinInv

LEMMA ArriveInv ==
  ASSUME JoinInv, NEW m, Arrive(m)
  PROVE  JoinInv'
<1>1. /\ m \in posted \ arrived
      /\ arrived' = arrived \cup {m}
      /\ completed' = [completed EXCEPT ![m.to] = @ \cup {m}]
      /\ stray' = [s \in Sessions |-> stray[s] \/ ~Receivable(s, m)]
      /\ UNCHANGED <<posted, stored, loading, phase, next, signatures, hot, received,
                     matches, asked, seen, query, queries, missed>>
  BY DEF Arrive, Net!Deliver
<1>2. StoredInv /\ LoadingInv /\ MessagesInv /\ SessionsInv
  BY DEF JoinInv
<1>3. StoredInv' /\ LoadingInv'
  BY <1>1, <1>2 DEF StoredInv, BatchesAt, LoadingInv, Active
<1>4. MessagesInv'
  <2>1. Busy' = Busy
    BY <1>1 DEF Busy
  <2>2. QED
    BY <1>1, <1>2, <2>1 DEF MessagesInv
<1>5. SessionsInv'
  BY <1>1, <1>2 DEF SessionsInv
<1>6. ASSUME NEW s \in Sessions, Alone(s)'
      PROVE  Own(s)'
  <2>1. Busy' = Busy /\ Alone(s) /\ Receivable(s, m)
    BY <1>1, <1>2, <1>6 DEF Alone, Busy, SessionsInv
  <2>2. Own(s)
    BY <2>1 DEF JoinInv
  <2>3. /\ LeftShuffle(s)' = LeftShuffle(s) /\ RightShuffle(s)' = RightShuffle(s)
        /\ \A n : /\ To(n, LeftShuffle(s))' = To(n, LeftShuffle(s))
                  /\ To(n, RightShuffle(s))' = To(n, RightShuffle(s))
    BY <1>1, ShufflesSame
  <2>4. /\ ShuffledLeft(s)' <=> ShuffledLeft(s)
        /\ LeftCollected(s)' <=> LeftCollected(s)
        /\ ShuffledRight(s)' <=> ShuffledRight(s)
    BY <1>1 DEF ShuffledLeft, LeftCollected, ShuffledRight
  <2>5. OwnQuery(s)'
    BY <1>1, <2>1, <2>2 DEF Own, OwnShuffles, OwnQuery
  <2>6. OwnMessages(s)'
    <3>1. \A x : Receivable(s, x)' <=> Receivable(s, x)
      BY <1>1 DEF Receivable
    <3>2. \A n \in Nodes : \A x \in completed'[n] : x = m \/ x \in completed[n]
      BY <1>1, <1>2 DEF MessagesInv
    <3>3. OwnMessages(s)
      BY <2>2 DEF Own, OwnShuffles
    <3>4. QED
      BY <1>1, <2>1, <2>3, <2>4, <3>1, <3>2, <3>3 DEF OwnMessages
  <2>7. OwnReceived(s)'
    <3>1. received' = received /\ phase' = phase /\ OwnReceived(s)
      BY <1>1, <2>2 DEF Own, OwnShuffles
    <3>2. QED
      BY <2>3, <2>4, <3>1 DEF OwnReceived
  <2>8. NothingLost(s)'
    <3>1. m \in LeftShuffle(s) \/ m \in RightShuffle(s)
      BY <1>1, <2>1, <2>2 DEF Own, OwnShuffles, OwnMessages, Receivable
    <3>2. m.to \in Nodes
      BY <3>1, ShuffleMessages DEF LeftShuffle, RightShuffle
    <3>3. /\ ShuffledLeft(s)' => LeftShuffle(s)' \subseteq posted'
          /\ ShuffledRight(s)' => RightShuffle(s)' \subseteq posted'
      BY <1>1, <2>2, <2>3, <2>4 DEF Own, OwnShuffles, NothingLost
    <3>4. ASSUME NEW x \in arrived', Receivable(s, x)'
          PROVE  x \in completed'[x.to]
      <4>1. x = m \/ x \in completed[x.to]
        BY <1>1, <2>2, <3>4 DEF Own, OwnShuffles, NothingLost, Receivable
      <4>2. QED
        BY <1>1, <1>2, <3>2, <4>1 DEF MessagesInv
    <3>5. QED
      BY <3>3, <3>4 DEF NothingLost
  <2>9. missed'[s] \/ HasAll(s)'
    BY <1>1, <2>2, <2>3, <2>4 DEF Own, OwnShuffles, HasAll
  <2>10. OwnTables(s)'
    BY <1>1, <2>2, TablesKept DEF Own
  <2>11. QED
    BY <2>5, <2>6, <2>7, <2>8, <2>9, <2>10 DEF Own, OwnShuffles
<1>7. QED
  BY <1>3, <1>4, <1>5, <1>6 DEF JoinInv

LEMMA CollectInv ==
  ASSUME JoinInv, NEW s \in Sessions, NEW side \in Sides, Collect(s, side)
  PROVE  JoinInv'
<1>1. /\ phase[s] = side
      /\ phase' = [phase EXCEPT ![s] = CollectedPhase(side)]
      /\ received' = [received EXCEPT ![side] = [n \in Nodes |-> received[side][n] \cup completed[n]]]
      /\ completed' = AllTaken
      /\ missed' = [missed EXCEPT ![s] =
                       missed[s] \/ \E m \in posted \ arrived : Receivable(s, m)]
      /\ UNCHANGED <<stored, loading, next, signatures, hot, posted, arrived, matches,
                     asked, seen, query, queries, stray>>
  BY DEF Collect, PauseOver
<1>2. StoredInv /\ LoadingInv /\ MessagesInv /\ SessionsInv
  BY DEF JoinInv
<1>3. StoredInv' /\ LoadingInv'
  BY <1>1, <1>2 DEF StoredInv, BatchesAt, LoadingInv, Active
<1>b. Busy' = Busy /\ s \in Busy
  BY <1>1, <1>2 DEF Busy, SessionsInv, Sides, CollectedPhase
<1>4. MessagesInv'
  BY <1>1, <1>2, <1>b DEF MessagesInv, AllTaken
<1>5. SessionsInv'
  <2>1. CollectedPhase(side) \in Phases
    BY DEF CollectedPhase, Phases
  <2>2. missed' \in [Sessions -> BOOLEAN]
    <3>1. (missed[s] \/ \E m \in posted \ arrived : Receivable(s, m)) \in BOOLEAN
      OBVIOUS
    <3>2. QED
      BY <1>1, <1>2, <3>1 DEF SessionsInv
  <2>3. CollectedPhase(side) # "prepare"
    BY DEF CollectedPhase
  <2>4. \A t \in Sessions : phase'[t] = "prepare" => next'[t] \in Nodes
    BY <1>1, <1>2, <2>3 DEF SessionsInv
  <2>5. QED
    BY <1>1, <1>2, <2>1, <2>2, <2>4 DEF SessionsInv
<1>6. ASSUME NEW t \in Sessions, Alone(t)'
      PROVE  Own(t)'
  <2>2. Alone(t)
    BY <1>1, <1>6, <1>b DEF Alone
  <2>3. Own(t) /\ t = s
    BY <1>b, <2>2 DEF JoinInv, Own, OwnShuffles, OwnQuery
  <2>4. /\ LeftShuffle(s)' = LeftShuffle(s) /\ RightShuffle(s)' = RightShuffle(s)
        /\ \A n : /\ To(n, LeftShuffle(s))' = To(n, LeftShuffle(s))
                  /\ To(n, RightShuffle(s))' = To(n, RightShuffle(s))
    BY <1>1, ShufflesSame
  <2>5. OwnTables(s)'
    <3>1. phase[s] # "prepare" /\ phase'[s] # "prepare"
      BY <1>1, <1>2 DEF CollectedPhase, SessionsInv, Sides
    <3>2. missed[s] => missed'[s]
      BY <1>1, <1>2 DEF SessionsInv
    <3>3. QED
      BY <1>1, <2>3, <3>1, <3>2, TablesKept DEF Own
  <2>6. ShuffledLeft(s) /\ ShuffledLeft(s)' /\ LeftCollected(s)'
        /\ (side = "right" <=> LeftCollected(s))
    BY <1>1, <1>2 DEF ShuffledLeft, LeftCollected, CollectedPhase, SessionsInv, Sides
  <2>7. OwnQuery(s)'
    BY <1>1, <1>b, <2>3 DEF Own, OwnShuffles, OwnQuery
  <2>8. /\ ShuffledRight(s)' <=> ShuffledRight(s)
        /\ phase'[s] = CollectedPhase(side)
    BY <1>1, <1>2 DEF ShuffledRight, CollectedPhase, SessionsInv, Sides
  <2>9. OwnMessages(s)'
    BY <1>1, <2>3, <2>4, <2>6, <2>8 DEF Own, OwnShuffles, OwnMessages, AllTaken
  <2>10. \A n \in Nodes : completed[n] \subseteq
             To(n, IF side = "left" THEN LeftShuffle(s) ELSE RightShuffle(s))
    <3>1. ASSUME NEW n \in Nodes, NEW m \in completed[n]
          PROVE  /\ m.to = n
                 /\ m \in IF side = "left" THEN LeftShuffle(s) ELSE RightShuffle(s)
      <4>1. m \in posted /\ m.to = n /\ m.query = query[s] /\ m.side = side
        BY <1>1, <1>2, <2>3 DEF Own, OwnShuffles, OwnMessages, Receivable, MessagesInv
      <4>2. \/ m \in LeftShuffle(s)
            \/ ShuffledRight(s) /\ m \in RightShuffle(s)
        BY <2>3, <4>1 DEF Own, OwnShuffles, OwnMessages
      <4>3. \A x \in LeftShuffle(s) : x.side = "left"
        BY ShuffleSides
      <4>4. QED
        BY <1>1, <4>1, <4>2, <4>3 DEF ShuffledRight, Sides
    <3>2. QED
      BY <3>1 DEF To
  <2>11. /\ \A n \in Nodes : received'[side][n] = received[side][n] \cup completed[n]
         /\ \A x \in Sides : x # side => received'[x] = received[x]
    BY <1>1, <1>2 DEF SessionsInv
  <2>12. OwnReceived(s)'
    <3>1. OwnReceived(s)
      BY <2>3 DEF Own, OwnShuffles
    <3>2. CASE side = "left"
      <4>1. phase[s] = "left" /\ phase'[s] = "left collected"
        BY <1>1, <2>8, <3>2 DEF CollectedPhase
      <4>2. \A n \in Nodes : received.left[n] = {}
        BY <3>1, <4>1 DEF OwnReceived
      <4>3. \A n \in Nodes : received'.left[n] \subseteq To(n, LeftShuffle(s))
        BY <2>10, <2>11, <3>2, <4>2
      <4>4. QED
        BY <2>4, <4>1, <4>3 DEF OwnReceived
    <3>3. CASE side = "right"
      <4>1. phase[s] = "right" /\ phase'[s] = "right collected"
        BY <1>1, <2>8, <3>3 DEF CollectedPhase
      <4>2. \A n \in Nodes : /\ received.right[n] = {}
                             /\ received.left[n] \subseteq To(n, LeftShuffle(s))
        BY <2>6, <3>1, <3>3, <4>1 DEF OwnReceived
      <4>3. \A n \in Nodes : /\ received'.right[n] \subseteq To(n, RightShuffle(s))
                             /\ received'.left[n] \subseteq To(n, LeftShuffle(s))
        BY <2>10, <2>11, <3>3, <4>2 DEF Sides
      <4>4. QED
        BY <2>4, <4>1, <4>3 DEF OwnReceived
    <3>4. QED
      BY <3>2, <3>3 DEF Sides
  <2>13. NothingLost(s)'
    <3>1. NothingLost(s)
      BY <2>3 DEF Own, OwnShuffles
    <3>2. /\ LeftShuffle(s)' \subseteq posted'
          /\ ShuffledRight(s)' => RightShuffle(s)' \subseteq posted'
      BY <1>1, <2>4, <2>6, <2>8, <3>1 DEF NothingLost
    <3>3. \A m \in arrived : ~Receivable(s, m)'
      <4>1. \A m \in arrived : m \in posted
        BY <1>2 DEF MessagesInv
      <4>2. \A m \in posted : m.query = query[s] => m.side \in Sides
        BY <2>3, ShuffleSides DEF Own, OwnShuffles, OwnMessages, Sides
      <4>3. CollectedPhase(side) \notin Sides
        BY DEF CollectedPhase, Sides
      <4>4. QED
        BY <1>1, <2>8, <4>1, <4>2, <4>3 DEF Receivable
    <3>4. QED
      BY <1>1, <3>2, <3>3 DEF NothingLost
  <2>14. ~missed'[s] => HasAll(s)'
    <3> SUFFICES ASSUME ~missed'[s] PROVE HasAll(s)'
      OBVIOUS
    <3>1. ~missed[s] /\ \A m \in posted \ arrived : ~Receivable(s, m)
      BY <1>1, <1>2 DEF SessionsInv
    <3>2. HasAll(s)
      BY <2>3, <3>1 DEF Own, OwnShuffles
    <3>3. ASSUME NEW n \in Nodes
          PROVE  To(n, IF side = "left" THEN LeftShuffle(s) ELSE RightShuffle(s))
                    \subseteq received'[side][n]
      <4>1. SUFFICES ASSUME NEW m \in IF side = "left" THEN LeftShuffle(s) ELSE RightShuffle(s),
                            m.to = n
                     PROVE  m \in completed[n]
        BY <2>11 DEF To
      <4>2. m \in posted
        BY <1>1, <2>3, <2>6, <4>1 DEF Own, OwnShuffles, NothingLost, ShuffledRight, Sides
      <4>3. m.query = query[s] /\ m.side = side
        BY <4>1, ShuffleSides DEF Sides
      <4>4. Receivable(s, m)
        BY <1>1, <4>3 DEF Receivable
      <4>5. QED
        BY <2>3, <3>1, <4>1, <4>2, <4>4 DEF Own, OwnShuffles, NothingLost
    <3>4. CASE side = "left"
      BY <2>4, <2>8, <3>3, <3>4 DEF HasAll, CollectedPhase
    <3>5. CASE side = "right"
      BY <1>1, <2>4, <2>6, <2>8, <2>11, <3>2, <3>3, <3>5 DEF HasAll, CollectedPhase, Sides
    <3>6. QED
      BY <3>4, <3>5 DEF Sides
  <2>15. QED
    BY <2>3, <2>5, <2>7, <2>9, <2>12, <2>13, <2>14 DEF Own, OwnShuffles
<1>7. QED
  BY <1>3, <1>4, <1>5, <1>6 DEF JoinInv

LEMMA ShuffleRightInv ==
  ASSUME JoinInv, NEW s \in Sessions, ShuffleRight(s)
  PROVE  JoinInv'
<1>1. /\ phase[s] = "left collected" /\ phase' = [phase EXCEPT ![s] = "right"]
      /\ received' = Cleared("right")
      /\ posted' = posted \cup RightShuffle(s) /\ UNCHANGED <<arrived, completed>>
      /\ UNCHANGED <<stored, loading, next, signatures, hot, matches, asked, seen, query,
                     queries, missed, stray>>
  BY DEF ShuffleRight, Net!Post, RightShuffle, history
<1>2. StoredInv /\ LoadingInv /\ MessagesInv /\ SessionsInv
  BY DEF JoinInv
<1>3. StoredInv' /\ LoadingInv'
  BY <1>1, <1>2 DEF StoredInv, BatchesAt, LoadingInv, Active
<1>4. SessionsInv'
  BY <1>1, <1>2 DEF SessionsInv, Phases, Cleared
<1>5. s \in Busy /\ Busy' = Busy
  BY <1>1, <1>2 DEF Busy, SessionsInv
<1>6. ASSUME NEW t \in Sessions, Alone(t)'
      PROVE  Own(t)'
  <2>1. Alone(t)
    BY <1>1, <1>5, <1>6 DEF Alone
  <2>2. Own(t) /\ t = s
    BY <1>5, <2>1 DEF JoinInv, Own, OwnShuffles, OwnQuery
  <2>3. /\ LeftShuffle(s)' = LeftShuffle(s) /\ RightShuffle(s)' = RightShuffle(s)
        /\ \A n : /\ To(n, LeftShuffle(s))' = To(n, LeftShuffle(s))
                  /\ To(n, RightShuffle(s))' = To(n, RightShuffle(s))
    BY <1>1, ShufflesSame
  <2>5. OwnTables(s)'
    <3>1. phase[s] # "prepare" /\ phase'[s] # "prepare"
      BY <1>1, <1>2 DEF SessionsInv
    <3>2. QED
      BY <1>1, <2>2, <3>1, TablesKept DEF Own
  <2>6. /\ phase'[s] = "right" /\ ~ShuffledRight(s) /\ ShuffledRight(s)'
        /\ ShuffledLeft(s) /\ ShuffledLeft(s)' /\ LeftCollected(s) /\ LeftCollected(s)'
    BY <1>1, <1>2 DEF ShuffledLeft, LeftCollected, ShuffledRight, SessionsInv
  <2>7. OwnQuery(s)'
    BY <1>1, <1>5, <2>2 DEF Own, OwnShuffles, OwnQuery
  <2>8. \A m \in posted : m.query = query[s] => m \in LeftShuffle(s) /\ m.side = "left"
    BY <2>2, <2>6, ShuffleSides DEF Own, OwnShuffles, OwnMessages
  <2>9. \A n \in Nodes : completed[n] = {}
    <3>1. ASSUME NEW n \in Nodes, NEW m \in completed[n]
          PROVE  FALSE
      <4>1. m \in posted /\ m.query = query[s] /\ m.side = phase[s]
        BY <1>2, <2>2 DEF Own, OwnShuffles, OwnMessages, Receivable, MessagesInv
      <4>2. QED
        BY <1>1, <2>8, <4>1
    <3>2. QED
      BY <3>1
  <2>10. OwnMessages(s)'
    BY <1>1, <2>3, <2>6, <2>8, <2>9 DEF OwnMessages
  <2>11. /\ received'.right = [n \in Nodes |-> {}]
         /\ received'.left = received.left
    BY <1>1, <1>2 DEF Cleared, SessionsInv, Sides
  <2>12. OwnReceived(s)'
    <3>1. \A n \in Nodes : received.left[n] \subseteq To(n, LeftShuffle(s))
      BY <1>1, <2>2, <2>6 DEF Own, OwnShuffles, OwnReceived
    <3>2. QED
      BY <2>3, <2>6, <2>11, <3>1 DEF OwnReceived
  <2>13. NothingLost(s)'
    <3>1. LeftShuffle(s)' \subseteq posted' /\ RightShuffle(s)' \subseteq posted'
      BY <1>1, <2>2, <2>3, <2>6 DEF Own, OwnShuffles, NothingLost
    <3>2. \A m \in arrived : ~Receivable(s, m)'
      BY <1>1, <1>2, <2>6, <2>8 DEF Receivable, MessagesInv
    <3>3. QED
      BY <1>1, <3>1, <3>2 DEF NothingLost
  <2>14. ~missed'[s] => HasAll(s)'
    <3>1. ~missed'[s] => \A n \in Nodes : To(n, LeftShuffle(s)) \subseteq received.left[n]
      BY <1>1, <2>2, <2>6 DEF Own, OwnShuffles, HasAll
    <3>2. QED
      BY <2>3, <2>6, <2>11, <3>1 DEF HasAll
  <2>15. QED
    BY <2>2, <2>5, <2>7, <2>10, <2>12, <2>13, <2>14 DEF Own, OwnShuffles
<1>7. MessagesInv'
  <2>1. \A m \in RightShuffle(s) : m.query = query[s]
    BY ShuffleSides
  <2>2. QED
    BY <1>1, <1>2, <1>5, <2>1 DEF MessagesInv
<1>8. QED
  BY <1>3, <1>4, <1>6, <1>7 DEF JoinInv

\* The steps after which no session is busy, or nothing of a query changes.
LEMMA EndInv ==
  ASSUME JoinInv,
         UNCHANGED <<stored, next, signatures, hot, channel, received, history>>,
         phase' \in [Sessions -> Phases], DOMAIN matches' = Sessions,
         \/ loading' = [l \in Loaders |-> Resting] /\ Busy' = {}
         \/ loading' = loading /\ phase' = phase
         \/ loading' = loading /\ \E s \in Busy : /\ Busy' = Busy \ {s}
                                                 /\ phase'[s] # "prepare"
                                                 /\ \A t \in Busy' : phase'[t] = phase[t]
  PROVE  JoinInv'
<1>1. UNCHANGED <<stored, next, signatures, hot, posted, arrived, completed, received,
                  ingested, asked, seen, query, queries, missed, stray>>
  BY DEF channel, history
<1>2. StoredInv /\ LoadingInv /\ MessagesInv /\ SessionsInv
  BY DEF JoinInv
<1>3. StoredInv'
  BY <1>1, <1>2 DEF StoredInv, BatchesAt
<1>l. LoadingInv'
  BY <1>2 DEF LoadingInv, Active
<1>4. Busy' \subseteq Busy
  BY DEF Busy
<1>5. MessagesInv'
  BY <1>1, <1>2, <1>4 DEF MessagesInv
<1>6. SessionsInv'
  <2>1. ASSUME NEW s \in Sessions, phase'[s] = "prepare"
        PROVE  next'[s] \in Nodes
    <3>1. s \in Busy'
      BY <2>1 DEF Busy
    <3>2. phase[s] = "prepare"
      BY <2>1, <3>1
    <3>3. QED
      BY <1>1, <1>2, <3>2 DEF SessionsInv
  <2>2. QED
    BY <1>1, <1>2, <2>1 DEF SessionsInv
<1>7. ASSUME NEW t \in Sessions, Alone(t)'
      PROVE  Own(t)'
  <2>1. Alone(t)
    BY <1>1, <1>4, <1>7 DEF Alone
  <2>2. Own(t) /\ Busy = {t}
    BY <2>1 DEF JoinInv, Own, OwnShuffles, OwnQuery
  <2>3. phase' = phase /\ loading' = loading
    BY <1>7, <2>2 DEF Alone
  <2>4. Busy' = Busy
    BY <2>3 DEF Busy
  <2>5. OwnShuffles(t)'
    BY <1>1, <2>2, <2>3, <2>4, ShufflesKept DEF Own, channel
  <2>6. OwnTables(t)'
    BY <1>1, <2>2, <2>3, TablesKept DEF Own
  <2>7. QED
    BY <2>5, <2>6 DEF Own
<1>8. QED
  BY <1>3, <1>l, <1>5, <1>6, <1>7 DEF JoinInv

LEMMA CrashInv ==
  ASSUME JoinInv, Crash,
         UNCHANGED <<stored, next, signatures, hot, channel, received, history>>
  PROVE  JoinInv'
<1>1. /\ phase' = [s \in Sessions |-> "crashed"]
      /\ loading' = [l \in Loaders |-> Resting]
      /\ matches' = matches
  BY DEF Crash
<1>2. Busy' = {} /\ phase' \in [Sessions -> Phases]
  BY <1>1 DEF Busy, Phases
<1>3. DOMAIN matches' = Sessions
  BY <1>1 DEF JoinInv, SessionsInv
<1>4. QED
  BY <1>1, <1>2, <1>3, EndInv

LEMMA NextInv == JoinInv /\ [Next]_vars => JoinInv'
<1> SUFFICES ASSUME JoinInv, [Next]_vars PROVE JoinInv'
  OBVIOUS
<1>t. phase \in [Sessions -> Phases] /\ DOMAIN matches = Sessions
  BY DEF JoinInv, SessionsInv
<1>1. ASSUME NEW l \in Loaders, NEW side \in Sides, NEW batch \in LeftBatches \cup RightBatches,
             DistributeAndIngest(l, side, batch)
      PROVE  JoinInv'
  BY <1>1, DistributeInv, JoinAssumption
<1>2. ASSUME NEW l \in Loaders, IngestPartition(l)
      PROVE  JoinInv'
  BY <1>2, IngestInv
<1>3. ASSUME NEW s \in Sessions, NEW preds \in Predicates, StartQuery(s, preds)
      PROVE  JoinInv'
  BY <1>3, StartInv
<1>4. ASSUME NEW s \in Sessions, PrepareJoinSignatures(s)
      PROVE  JoinInv'
  BY <1>4, PrepareInv
<1>5. ASSUME NEW s \in Sessions, ShuffleLeft(s)
      PROVE  JoinInv'
  BY <1>5, ShuffleLeftInv
<1>6. ASSUME NEW m \in posted, Arrive(m)
      PROVE  JoinInv'
  BY <1>6, ArriveInv
<1>7. ASSUME NEW s \in Sessions, NEW side \in Sides, Collect(s, side)
      PROVE  JoinInv'
  BY <1>7, CollectInv
<1>8. ASSUME NEW s \in Sessions, ShuffleRight(s)
      PROVE  JoinInv'
  BY <1>8, ShuffleRightInv
<1>9. ASSUME NEW s \in Sessions, Join(s)
      PROVE  JoinInv'
  <2>1. /\ phase[s] = "right collected"
        /\ UNCHANGED <<stored, next, signatures, hot, channel, received, history>>
    BY <1>9 DEF Join
  <2>2. \/ Crash
        \/ /\ phase' = [phase EXCEPT ![s] = "idle"] /\ loading' = loading
           /\ DOMAIN matches' = Sessions
    BY <1>t, <1>9 DEF Join
  <2>3. CASE Crash
    BY <2>1, <2>3, CrashInv
  <2>4. CASE /\ phase' = [phase EXCEPT ![s] = "idle"] /\ loading' = loading
             /\ DOMAIN matches' = Sessions
    <3>1. /\ s \in Busy /\ Busy' = Busy \ {s} /\ phase'[s] # "prepare"
          /\ \A t \in Busy' : phase'[t] = phase[t]
      BY <1>t, <2>1, <2>4 DEF Busy
    <3>2. phase' \in [Sessions -> Phases]
      BY <1>t, <2>4 DEF Phases
    <3>3. QED
      BY <2>1, <2>4, <3>1, <3>2, EndInv
  <2>5. QED
    BY <2>2, <2>3, <2>4
<1>10. CASE Race
  BY <1>10, CrashInv DEF Race
<1>11. CASE ShutdownCluster
  BY <1>t, <1>11, EndInv DEF ShutdownCluster
<1>12. CASE UNCHANGED vars
  BY <1>t, <1>12, EndInv DEF vars
<1>13. QED
  <2>1. "left" \in Sides /\ "right" \in Sides
    BY DEF Sides
  <2>2. QED
    BY <1>1, <1>2, <1>3, <1>4, <1>5, <1>6, <1>7, <1>8, <1>9, <1>10, <1>11, <1>12, <2>1
       DEF Next, CoordinatorStep

LEMMA JoinInvariant == Spec => []JoinInv
  BY InitInv, NextInv, PTL DEF Spec

-----------------------------------------------------------------------------
(* The local joins *)

\* The tables T have rows where the nodes keep them.
Tables(T) ==
    \A side \in Sides :
        /\ DOMAIN T[side] \subseteq Nodes \X Nat \X Nat
        /\ \A id \in DOMAIN T[side] : T[side][id] \in Rows

\* Entry e is made of the row with that id, which satisfies the predicate p.
IsEntryOf(T, side, p, e, id) ==
    /\ UnpackRowId(e.row) = id /\ e.at = id[1]
    /\ e = [sig |-> Signature[T[side][id].key], at |-> id[1],
            row |-> PackRowId(id[1], id[2], id[3])]
    /\ T[side][id].val \in p /\ T[side][id].key # Null

\* The row an entry is about is the one it was made of.
LEMMA EntriesOfRows ==
  ASSUME RowIdsRoundTrip, NEW T, Tables(T), Fits(T), NEW side \in Sides, NEW p,
         NEW n, NEW e \in EntriesAt(T[side], n, p)
  PROVE  \E id \in DOMAIN T[side] : IsEntryOf(T, side, p, e, id)
<1>1. PICK id \in DOMAIN T[side] :
          /\ id[1] = n
          /\ e = [sig |-> Signature[T[side][id].key], at |-> n,
                  row |-> PackRowId(n, id[2], id[3])]
          /\ T[side][id].val \in p /\ T[side][id].key # Null
  BY DEF EntriesAt, Matches
<1>2. /\ id \in Nodes \X Nat \X Nat
      /\ id[2] < 2^FieldBits /\ id[3] < 2^FieldBits
  BY DEF Tables, Fits
<1>3. id[2] \in 0..(2^FieldBits - 1) /\ id[3] \in 0..(2^FieldBits - 1)
  BY <1>2 DEF RowIdsRoundTrip
<1>4. UnpackRowId(PackRowId(id[1], id[2], id[3])) = <<id[1], id[2], id[3]>>
  BY <1>2, <1>3 DEF RowIdsRoundTrip
<1>5. UnpackRowId(e.row) = id /\ e.at = id[1]
  BY <1>1, <1>2, <1>4
<1>6. QED
  BY <1>1, <1>5 DEF IsEntryOf

\* Every row that satisfies the predicate has its entry.
LEMMA RowsHaveEntries ==
  ASSUME RowIdsRoundTrip, NEW T, Tables(T), Fits(T), NEW side \in Sides, NEW p,
         NEW id \in DOMAIN T[side],
         T[side][id].val \in p, T[side][id].key # Null
  PROVE  /\ id \in Nodes \X Nat \X Nat
         /\ \E e \in EntriesAt(T[side], id[1], p) :
               /\ UnpackRowId(e.row) = id /\ e.at = id[1]
               /\ e.sig = Signature[T[side][id].key] /\ e.sig \in Nat
<1> DEFINE e == [sig |-> Signature[T[side][id].key], at |-> id[1],
                 row |-> PackRowId(id[1], id[2], id[3])]
<1>1. e \in EntriesAt(T[side], id[1], p)
  BY DEF EntriesAt, Matches
<1>2. /\ id \in Nodes \X Nat \X Nat
      /\ id[2] < 2^FieldBits /\ id[3] < 2^FieldBits
  BY DEF Tables, Fits
<1>3. id[2] \in 0..(2^FieldBits - 1) /\ id[3] \in 0..(2^FieldBits - 1)
  BY <1>2 DEF RowIdsRoundTrip
<1>4. UnpackRowId(PackRowId(id[1], id[2], id[3])) = <<id[1], id[2], id[3]>>
  BY <1>2, <1>3 DEF RowIdsRoundTrip
<1>5. T[side][id].key \in Keys
  BY DEF Tables, Rows
<1>6. e.sig \in Nat
  BY <1>5, JoinAssumption
<1>7. QED
  BY <1>1, <1>2, <1>4, <1>6

\* Two entries of the same signature meet at one node.
LEMMA MeetAtOneNode ==
  ASSUME NEW h, NEW l, NEW r, l.sig = r.sig, r.sig \in Nat,
         UnpackRowId(r.row)[2] \in Nat
  PROVE  \E n \in Nodes : LeftTargets(h, l) \cap RightTargets(h, r) = {n}
<1>1. NumNodes \in Nat /\ NumNodes > 0
  BY JoinAssumption
<1>2. \A x \in Nat : x % NumNodes \in Nodes
  BY <1>1 DEF Nodes
<1>3. CASE r.sig \in h
  <2>1. r.sig + UnpackRowId(r.row)[2] \in Nat
    OBVIOUS
  <2>2. RightTargets(h, r) = {(r.sig + UnpackRowId(r.row)[2]) % NumNodes}
    BY <1>3 DEF RightTargets
  <2>3. QED
    BY <1>2, <1>3, <2>1, <2>2 DEF LeftTargets
<1>4. CASE r.sig \notin h
  <2>1. RightTargets(h, r) = {r.sig % NumNodes} /\ LeftTargets(h, l) = {r.sig % NumNodes}
    BY <1>4 DEF RightTargets, LeftTargets
  <2>2. QED
    BY <1>2, <2>1
<1>5. QED
  BY <1>3, <1>4

LEMMA CandidatesArePairs ==
  ASSUME NEW c
  PROVE  c \in Candidates <=>
            \E n \in Nodes : \E p \in received.left[n], q \in received.right[n] :
               \E l \in p.body, r \in q.body :
                  l.sig = r.sig /\ c = <<n, p, q, UnpackRowId(l.row), UnpackRowId(r.row)>>
<1> DEFINE Pairs(p, q) == {pair \in p.body \X q.body : pair[1].sig = pair[2].sig}
<1> DEFINE C(n, p, q, e) == <<n, p, q, UnpackRowId(e[1].row), UnpackRowId(e[2].row)>>
<1>1. c \in Candidates <=>
         \E n \in Nodes : \E p \in received.left[n], q \in received.right[n] :
            \E e \in Pairs(p, q) : c = C(n, p, q, e)
  <2> DEFINE U(n, p, q) == {C(n, p, q, e) : e \in Pairs(p, q)}
  <2> DEFINE V(n) == UNION {U(n, p, q) : p \in received.left[n], q \in received.right[n]}
  <2>1. Candidates = UNION {V(n) : n \in Nodes}
    BY DEF Candidates
  <2>2. \A n, p, q : c \in U(n, p, q) <=> \E e \in Pairs(p, q) : c = C(n, p, q, e)
    OBVIOUS
  <2> HIDE DEF U
  <2>3. \A n : c \in V(n) <=> \E p \in received.left[n], q \in received.right[n] : c \in U(n, p, q)
    OBVIOUS
  <2> HIDE DEF V, C
  <2>4. QED
    BY <2>1, <2>2, <2>3
<1>2. \A p, q, e : e \in Pairs(p, q) <=> e \in p.body \X q.body /\ e[1].sig = e[2].sig
  OBVIOUS
<1> HIDE DEF Pairs
<1>3. ASSUME NEW n \in Nodes, NEW p, NEW q
      PROVE  (\E e \in Pairs(p, q) : c = C(n, p, q, e)) <=>
             \E l \in p.body, r \in q.body :
                l.sig = r.sig /\ c = <<n, p, q, UnpackRowId(l.row), UnpackRowId(r.row)>>
  <2>1. ASSUME NEW e \in Pairs(p, q), c = C(n, p, q, e)
        PROVE  \E l \in p.body, r \in q.body :
                 l.sig = r.sig /\ c = <<n, p, q, UnpackRowId(l.row), UnpackRowId(r.row)>>
    BY <1>2, <2>1
  <2>2. ASSUME NEW l \in p.body, NEW r \in q.body, l.sig = r.sig,
               c = <<n, p, q, UnpackRowId(l.row), UnpackRowId(r.row)>>
        PROVE  \E e \in Pairs(p, q) : c = C(n, p, q, e)
    <3>1. <<l, r>> \in Pairs(p, q)
      BY <1>2, <2>2
    <3>2. QED
      BY <2>2, <3>1
  <2>3. QED
    BY <2>1, <2>2
<1>4. QED
  BY <1>1, <1>3

\* What a local join finds, in terms of tables T that have the rows its entries
\* were made of.
LEMMA JoinMatches ==
  ASSUME RowIdsRoundTrip, JoinInv, NEW s \in Sessions, Join(s), ~stray[s],
         NEW T, Within(T, stored), Fits(T),
         \A side \in Sides : \A n \in Nodes :
            signatures[side][n] \subseteq EntriesAt(T[side], n, asked[s][side])
  PROVE  /\ phase'[s] = "idle"
         /\ \A c \in matches'[s] : <<c[4], c[5]>> \in WantedIds(T, s)
         /\ \A c, d \in matches'[s] : c[4] = d[4] /\ c[5] = d[5] => c = d
         /\ (~missed[s] /\ \A side \in Sides : \A n \in Nodes :
               signatures[side][n] = EntriesAt(T[side], n, asked[s][side]))
            => \A pair \in WantedIds(T, s) : \E c \in matches'[s] : pair = <<c[4], c[5]>>
<1> DEFINE Entry(side, id) ==
             [sig |-> Signature[T[side][id].key], at |-> id[1],
              row |-> PackRowId(id[1], id[2], id[3])]
<1> DEFINE Left == Entries("left")
<1> DEFINE Right == Entries("right")
<1>1. /\ SessionsInv /\ phase[s] = "right collected"
      /\ s \in Busy /\ OwnShuffles(s) /\ LeftCollected(s)
  BY DEF JoinInv, Alone, Busy, Join, Own, LeftCollected
<1>t. Tables(T)
  BY DEF Within, Tables, JoinInv, StoredInv
<1>r. ASSUME NEW side \in Sides, NEW p, NEW n, NEW e \in EntriesAt(T[side], n, p)
      PROVE  \E id \in DOMAIN T[side] : IsEntryOf(T, side, p, e, id)
  BY <1>t, EntriesOfRows
<1>2. /\ LeftShuffle(s) = Shuffle(query[s], "left", Left,
                                  [e \in Left |-> LeftTargets(hot[s], e)])
      /\ RightShuffle(s) = Shuffle(query[s], "right", Right,
                                   [e \in Right |-> RightTargets(hot[s], e)])
  BY DEF LeftShuffle, RightShuffle
<1>3. \A n \in Nodes : /\ received.left[n] \subseteq To(n, LeftShuffle(s))
                       /\ received.right[n] \subseteq To(n, RightShuffle(s))
  BY <1>1 DEF OwnShuffles, OwnReceived
<1>e. /\ \A e \in Left : \E n \in Nodes : e \in EntriesAt(T["left"], n, asked[s].left)
      /\ \A e \in Right : \E n \in Nodes : e \in EntriesAt(T["right"], n, asked[s].right)
  BY DEF Entries, Sides
<1> HIDE DEF Left, Right
<1>4. ASSUME NEW m \in LeftShuffle(s), NEW e \in m.body
      PROVE  e \in Left /\ e.at = m.from /\ m.to \in LeftTargets(hot[s], e)
  BY <1>2, <1>4, ShuffleMessages
<1>5. ASSUME NEW m \in RightShuffle(s), NEW e \in m.body
      PROVE  e \in Right /\ e.at = m.from /\ m.to \in RightTargets(hot[s], e)
  BY <1>2, <1>5, ShuffleMessages
<1>6. ASSUME NEW c \in Candidates
      PROVE  /\ c[4] \in DOMAIN T.left /\ c[5] \in DOMAIN T.right
             /\ T.left[c[4]].val \in asked[s].left /\ T.left[c[4]].key # Null
             /\ T.right[c[5]].val \in asked[s].right
             /\ \E n, p, q : /\ c = <<n, p, q, c[4], c[5]>>
                             /\ p \in LeftShuffle(s) /\ p.to = n /\ p.from = c[4][1]
                             /\ q \in RightShuffle(s) /\ q.to = n /\ q.from = c[5][1]
                             /\ n \in RightTargets(hot[s], Entry("right", c[5]))
  <2>1. PICK n \in Nodes : \E p \in received.left[n], q \in received.right[n] :
               \E l \in p.body, r \in q.body :
                  l.sig = r.sig /\ c = <<n, p, q, UnpackRowId(l.row), UnpackRowId(r.row)>>
    BY CandidatesArePairs
  <2>2. PICK p \in received.left[n], q \in received.right[n] :
               \E l \in p.body, r \in q.body :
                  l.sig = r.sig /\ c = <<n, p, q, UnpackRowId(l.row), UnpackRowId(r.row)>>
    BY <2>1
  <2>3. PICK l \in p.body, r \in q.body :
                  l.sig = r.sig /\ c = <<n, p, q, UnpackRowId(l.row), UnpackRowId(r.row)>>
    BY <2>2
  <2>4. p \in LeftShuffle(s) /\ p.to = n /\ q \in RightShuffle(s) /\ q.to = n
    BY <1>3, <2>2 DEF To
  <2>5. l \in Left /\ l.at = p.from /\ r \in Right /\ r.at = q.from
        /\ n \in RightTargets(hot[s], r)
    BY <1>4, <1>5, <2>3, <2>4
  <2>6. PICK i \in DOMAIN T["left"] :
            /\ UnpackRowId(l.row) = i /\ l.at = i[1]
            /\ T["left"][i].val \in asked[s].left /\ T["left"][i].key # Null
    <3>1. PICK k \in Nodes : l \in EntriesAt(T["left"], k, asked[s].left)
      BY <1>e, <2>5
    <3>2. "left" \in Sides
      BY DEF Sides
    <3>3. \E id \in DOMAIN T["left"] : IsEntryOf(T, "left", asked[s].left, l, id)
      BY <1>r, <3>1, <3>2
    <3>4. QED
      BY <3>3 DEF IsEntryOf
  <2>7. PICK j \in DOMAIN T["right"] :
            /\ UnpackRowId(r.row) = j /\ r.at = j[1] /\ r = Entry("right", j)
            /\ T["right"][j].val \in asked[s].right
    <3>1. PICK k \in Nodes : r \in EntriesAt(T["right"], k, asked[s].right)
      BY <1>e, <2>5
    <3>2. "right" \in Sides
      BY DEF Sides
    <3>3. \E id \in DOMAIN T["right"] : IsEntryOf(T, "right", asked[s].right, r, id)
      BY <1>r, <3>1, <3>2
    <3>4. QED
      BY <3>3 DEF IsEntryOf
  <2> HIDE DEF Entry
  <2>8. c = <<n, p, q, i, j>>
    BY <2>3, <2>6, <2>7
  <2>9. c[4] = i /\ c[5] = j
    BY <2>8
  <2>10. QED
    BY <2>4, <2>5, <2>6, <2>7, <2>8, <2>9
<1>w. /\ \A i \in DOMAIN T.left : i \in DOMAIN stored.left /\ stored.left[i] = T.left[i]
      /\ \A i \in DOMAIN T.right : i \in DOMAIN stored.right /\ stored.right[i] = T.right[i]
  BY DEF Within, Sides
<1>7. \A c \in Candidates : ~Wild(c)
  BY <1>6, <1>w DEF Wild
<1>8. phase'[s] = "idle" /\ matches'[s] = VerifiedPairs
  <2>1. {c \in Candidates : Wild(c)} = {}
    BY <1>7
  <2>2. phase' = [phase EXCEPT ![s] = "idle"] /\ matches' = [matches EXCEPT ![s] = VerifiedPairs]
    BY <2>1 DEF Join
  <2>3. QED
    BY <1>1, <2>2 DEF SessionsInv
<1>9. ASSUME NEW c \in matches'[s]
      PROVE  <<c[4], c[5]>> \in WantedIds(T, s)
  <2>1. c \in Candidates /\ stored.left[c[4]].key = stored.right[c[5]].key
    BY <1>8 DEF VerifiedPairs, KeyAt
  <2>2. T.left[c[4]].key = T.right[c[5]].key
    BY <1>6, <1>w, <2>1
  <2>3. QED
    BY <1>6, <2>1, <2>2 DEF WantedIds
<1>10. ASSUME NEW c \in matches'[s], NEW d \in matches'[s], c[4] = d[4], c[5] = d[5]
       PROVE  c = d
  <2>1. c \in Candidates /\ d \in Candidates
    BY <1>8 DEF VerifiedPairs
  <2>2. PICK n, p, q : /\ c = <<n, p, q, c[4], c[5]>>
                       /\ p \in LeftShuffle(s) /\ p.to = n /\ p.from = c[4][1]
                       /\ q \in RightShuffle(s) /\ q.to = n /\ q.from = c[5][1]
                       /\ n \in RightTargets(hot[s], Entry("right", c[5]))
    BY <1>6, <2>1
  <2>3. PICK k, o, u : /\ d = <<k, o, u, d[4], d[5]>>
                       /\ o \in LeftShuffle(s) /\ o.to = k /\ o.from = d[4][1]
                       /\ u \in RightShuffle(s) /\ u.to = k /\ u.from = d[5][1]
                       /\ k \in RightTargets(hot[s], Entry("right", d[5]))
    BY <1>6, <2>1
  <2> HIDE DEF Entry, Left, Right
  <2>4. \A e, x, y : x \in RightTargets(hot[s], e) /\ y \in RightTargets(hot[s], e) => x = y
    BY DEF RightTargets
  <2>5. n = k
    BY <1>10, <2>2, <2>3, <2>4
  <2>6. p = o
    BY <1>2, <1>10, <2>2, <2>3, <2>5, OneMessage
  <2>7. q = u
    BY <1>2, <1>10, <2>2, <2>3, <2>5, OneMessage
  <2>8. QED
    BY <1>10, <2>2, <2>3, <2>5, <2>6, <2>7
<1>11. ASSUME ~missed[s], NEW pair \in WantedIds(T, s),
              \A side \in Sides : \A n \in Nodes :
                 signatures[side][n] = EntriesAt(T[side], n, asked[s][side])
       PROVE  \E c \in matches'[s] : pair = <<c[4], c[5]>>
  <2>1. \A n \in Nodes : /\ To(n, LeftShuffle(s)) \subseteq received.left[n]
                         /\ To(n, RightShuffle(s)) \subseteq received.right[n]
    BY <1>1, <1>11 DEF OwnShuffles, HasAll
  <2> DEFINE i == pair[1]  j == pair[2]
  <2>2. /\ i \in DOMAIN T["left"] /\ j \in DOMAIN T["right"] /\ pair = <<i, j>>
        /\ T["left"][i].key = T["right"][j].key /\ T["left"][i].key # Null
        /\ T["left"][i].val \in asked[s].left /\ T["right"][j].val \in asked[s].right
    BY DEF WantedIds
  <2> HIDE DEF Entry, i, j
  <2>s. "left" \in Sides /\ "right" \in Sides
    BY DEF Sides
  <2>e. \A n \in Nodes : /\ EntriesAt(T["left"], n, asked[s].left) \subseteq Left
                         /\ EntriesAt(T["right"], n, asked[s].right) \subseteq Right
    BY <1>11, <2>s DEF Entries, Left, Right
  <2>3. PICK l \in Left : /\ UnpackRowId(l.row) = i /\ l.at = i[1] /\ i \in Nodes \X Nat \X Nat
                          /\ l.sig = Signature[T["left"][i].key] /\ l.sig \in Nat
    <3>1. /\ i \in Nodes \X Nat \X Nat
          /\ \E l \in EntriesAt(T["left"], i[1], asked[s].left) :
                /\ UnpackRowId(l.row) = i /\ l.at = i[1]
                /\ l.sig = Signature[T["left"][i].key] /\ l.sig \in Nat
      BY <1>t, <2>2, <2>s, RowsHaveEntries
    <3>2. i[1] \in Nodes
      BY <3>1
    <3>3. QED
      BY <2>e, <3>1, <3>2
  <2>4. PICK r \in Right : /\ UnpackRowId(r.row) = j /\ r.at = j[1] /\ j \in Nodes \X Nat \X Nat
                           /\ r.sig = Signature[T["right"][j].key] /\ r.sig \in Nat
    <3>1. /\ j \in Nodes \X Nat \X Nat
          /\ \E r \in EntriesAt(T["right"], j[1], asked[s].right) :
                /\ UnpackRowId(r.row) = j /\ r.at = j[1]
                /\ r.sig = Signature[T["right"][j].key] /\ r.sig \in Nat
      BY <1>t, <2>2, <2>s, RowsHaveEntries
    <3>2. j[1] \in Nodes
      BY <3>1
    <3>3. QED
      BY <2>e, <3>1, <3>2
  <2>5. l.sig = r.sig /\ UnpackRowId(r.row)[2] \in Nat /\ l.at \in Nodes /\ r.at \in Nodes
    BY <2>2, <2>3, <2>4
  <2>6. PICK n \in Nodes : LeftTargets(hot[s], l) \cap RightTargets(hot[s], r) = {n}
    BY <2>4, <2>5, MeetAtOneNode
  <2>7. PICK p \in LeftShuffle(s) : p.to = n /\ l \in p.body
    BY <1>2, <2>5, <2>6, ShuffleSends
  <2>8. PICK q \in RightShuffle(s) : q.to = n /\ r \in q.body
    BY <1>2, <2>5, <2>6, ShuffleSends
  <2>9. p \in received.left[n] /\ q \in received.right[n]
    BY <2>1, <2>7, <2>8 DEF To
  <2> DEFINE c == <<n, p, q, i, j>>
  <2>10. c \in Candidates
    BY <2>3, <2>4, <2>5, <2>7, <2>8, <2>9, CandidatesArePairs
  <2>11. c \in VerifiedPairs
    BY <1>7, <1>w, <2>2, <2>10 DEF VerifiedPairs, KeyAt
  <2>12. QED
    BY <1>8, <2>2, <2>11
<1>12. QED
  BY <1>8, <1>9, <1>10, <1>11

-----------------------------------------------------------------------------
(* The theorems *)

\* What the invariant says of the tables of a query that comes to its join.
LEMMA JoinedTables ==
  ASSUME JoinInv, NEW s \in Sessions, Join(s), ~stray[s]
  PROVE  /\ \A side \in Sides : \A n \in Nodes :
               signatures[side][n] \subseteq EntriesAt(stored[side], n, asked[s][side])
         /\ Within(seen[s].stored, stored)
         /\ ~missed[s] => \A side \in Sides : \A n \in Nodes :
               signatures[side][n] = EntriesAt(seen[s].stored[side], n, asked[s][side])
<1>1. phase[s] = "right collected" /\ OwnTables(s)
  BY DEF Join, JoinInv, Alone, Busy, Own
<1>2. PreparedNodes(s) = Nodes
  BY <1>1 DEF PreparedNodes
<1>3. QED
  BY <1>1, <1>2 DEF OwnTables, OwnEntries, SeenEntries

\* A query that missed messages, or rows that were being distributed, but took
\* no message that is not its own, finds only pairs that satisfy it, each once:
\* for every signature, collisions and hot ones included, every number of nodes
\* whose ids fit a row id, and whatever other sessions, queries, loaders and the
\* end of the cluster did before.
THEOREM LossesUndercount ==
  ASSUME RowIdsRoundTrip
  PROVE  Spec => LossOnlyUndercounts
<1>1. ASSUME JoinInv, NEW s \in Sessions, Join(s) /\ ~stray[s] /\ Fits(stored)
      PROVE  /\ phase'[s] = "idle"
             /\ \A c \in matches'[s] :
                    /\ stored.left[c[4]].val \in asked[s].left
                    /\ stored.right[c[5]].val \in asked[s].right
                    /\ KeyAt("left", c[4]) = KeyAt("right", c[5])
             /\ \A c, d \in matches'[s] : c[4] = d[4] /\ c[5] = d[5] => c = d
  <2>0. Within(stored, stored)
    BY DEF Within
  <2>1. /\ \A c \in matches'[s] : <<c[4], c[5]>> \in WantedIds(stored, s)
        /\ phase'[s] = "idle"
        /\ \A c, d \in matches'[s] : c[4] = d[4] /\ c[5] = d[5] => c = d
    BY <1>1, <2>0, JoinedTables, JoinMatches
  <2>2. QED
    BY <2>1 DEF WantedIds, KeyAt
<1> DEFINE A == \A s \in Sessions :
        Join(s) /\ ~stray[s] /\ Fits(stored) =>
            /\ phase'[s] = "idle"
            /\ \A c \in matches'[s] :
                   /\ stored.left[c[4]].val \in asked[s].left
                   /\ stored.right[c[5]].val \in asked[s].right
                   /\ KeyAt("left", c[4]) = KeyAt("right", c[5])
            /\ \A c, d \in matches'[s] : c[4] = d[4] /\ c[5] = d[5] => c = d
<1>2. JoinInv => A
  BY <1>1
<1>3. LossOnlyUndercounts <=> [][A]_vars
  BY DEF LossOnlyUndercounts
<1> HIDE DEF A
<1>4. QED
  BY <1>2, <1>3, JoinInvariant, PTL

\* A query that missed nothing and took nothing foreign finds exactly the pairs
\* that satisfy it among the rows that were stored when it began, each once: the
\* two entries of such a pair are sent to one common node and to one only.
\* Loaders may go on ingesting after its preparation.
THEOREM MatchesExact ==
  ASSUME RowIdsRoundTrip
  PROVE  Spec => MatchesAreExact
<1> DEFINE A == \A s \in Sessions :
        Join(s) /\ ~missed[s] /\ ~stray[s] /\ Fits(seen[s].stored) =>
            /\ phase'[s] = "idle"
            /\ {<<c[4], c[5]>> : c \in matches'[s]} = WantedIds(seen[s].stored, s)
            /\ \A c, d \in matches'[s] : c[4] = d[4] /\ c[5] = d[5] => c = d
<1>1. ASSUME JoinInv, NEW s \in Sessions,
             Join(s) /\ ~missed[s] /\ ~stray[s] /\ Fits(seen[s].stored)
      PROVE  /\ phase'[s] = "idle"
             /\ {<<c[4], c[5]>> : c \in matches'[s]} = WantedIds(seen[s].stored, s)
             /\ \A c, d \in matches'[s] : c[4] = d[4] /\ c[5] = d[5] => c = d
  <2>1. /\ \A side \in Sides : \A n \in Nodes :
               signatures[side][n] = EntriesAt(seen[s].stored[side], n, asked[s][side])
        /\ Within(seen[s].stored, stored)
    BY <1>1, JoinedTables
  <2>2. /\ phase'[s] = "idle"
        /\ \A c, d \in matches'[s] : c[4] = d[4] /\ c[5] = d[5] => c = d
        /\ \A c \in matches'[s] : <<c[4], c[5]>> \in WantedIds(seen[s].stored, s)
        /\ \A pair \in WantedIds(seen[s].stored, s) :
               \E c \in matches'[s] : pair = <<c[4], c[5]>>
    BY <1>1, <2>1, JoinMatches
  <2>3. QED
    BY <2>2
<1>2. JoinInv => A
  BY <1>1
<1>3. MatchesAreExact <=> [][A]_vars
  BY DEF MatchesAreExact
<1> HIDE DEF A
<1>4. QED
  BY <1>2, <1>3, JoinInvariant, PTL

=============================================================================
