------------------------- MODULE SrdTransportProofs --------------------------
(***************************************************************************)
(* Proofs about the transports for every number of nodes, packets, lost    *)
(* and repeated packets: a completed message is one that was sent, whole   *)
(* and in order, and without repeated packets the transports implement     *)
(* the channel that the join relies on.                                    *)
(***************************************************************************)
EXTENDS SrdTransport, SumProofs, SequenceTheorems, FiniteSetTheorems, TLAPS

\* Concatenation: FlattenSeq is a recursive function.
LEMMA FlattenUnfolds ==
  ASSUME NEW s, Len(s) \in Nat, Len(s) # 0
  PROVE  \E f : /\ f = [i \in 1..Len(s) |-> IF i = 1 THEN s[i] ELSE f[i - 1] \o s[i]]
                /\ FlattenSeq(s) = f[Len(s)]
<1> DEFINE F == CHOOSE f : f = [i \in 1..Len(s) |-> IF i = 1 THEN s[i] ELSE f[i - 1] \o s[i]]
<1>1. F = [i \in 1..Len(s) |-> IF i = 1 THEN s[i] ELSE F[i - 1] \o s[i]]
  BY FlattenDefined
<1>2. FlattenSeq(s) = F[Len(s)]
  BY DEF FlattenSeq
<1> HIDE DEF F
<1>3. QED
  BY <1>1, <1>2

(* Packets.  Packet p carries the entries after the first p * PerPacket.      *)

\* The entries of the first p packets of a message of len entries.
Upto(len, p) == IF p * PerPacket < len THEN p * PerPacket ELSE len

LEMMA PacketCounts ==
  ASSUME NEW len \in Nat \ {0}
  PROVE  /\ PacketCount(len) \in Nat \ {0}
         /\ len <= PacketCount(len) * PerPacket
         /\ (PacketCount(len) - 1) * PerPacket < len
<1> DEFINE N == PacketCount(len)
<1>1. PerPacket \in Nat \ {0} /\ len + PerPacket - 1 \in Nat
  BY SrdAssumption
<1>2. /\ N \in Nat
      /\ N * PerPacket <= len + PerPacket - 1
      /\ len + PerPacket - 1 < N * PerPacket + PerPacket
  BY <1>1 DEF PacketCount
<1> HIDE DEF N
<1>3. N # 0
  <2>1. N = 0 => N * PerPacket = 0
    BY <1>1
  <2>2. QED
    BY <1>1, <1>2, <2>1
<1>4. (N - 1) * PerPacket = N * PerPacket - PerPacket
  BY <1>1, <1>2
<1>5. N * PerPacket \in Nat
  BY <1>1, <1>2
<1>6. QED
  <2>1. N \in Nat \ {0} /\ len <= N * PerPacket /\ (N - 1) * PerPacket < len
    BY <1>1, <1>2, <1>3, <1>4, <1>5
  <2>2. QED
    BY <2>1 DEF N

LEMMA UptoGrows ==
  ASSUME NEW len \in Nat \ {0}, NEW p \in 0..(PacketCount(len) - 1)
  PROVE  /\ p \in Nat /\ Upto(len, p) = p * PerPacket
         /\ Upto(len, p) \in 0..(len - 1)
         /\ Upto(len, p + 1) \in 1..len
         /\ Upto(len, p) < Upto(len, p + 1)
<1> DEFINE N == PacketCount(len)
<1>1. PerPacket \in Nat \ {0} /\ N \in Nat \ {0} /\ (N - 1) * PerPacket < len
  BY SrdAssumption, PacketCounts
<1> HIDE DEF N
<1>2. p \in Nat /\ p <= N - 1
  BY <1>1 DEF N
<1>3. p * PerPacket <= (N - 1) * PerPacket
  BY <1>1, <1>2
<1>4. p * PerPacket \in Nat /\ (N - 1) * PerPacket \in Nat
  BY <1>1, <1>2
<1>5. (p + 1) * PerPacket = p * PerPacket + PerPacket
  BY <1>1, <1>2
<1>6. QED
  BY <1>1, <1>2, <1>3, <1>4, <1>5 DEF Upto

LEMMA PayloadEntries ==
  ASSUME NEW S, NEW body \in Seq(S), body # <<>>,
         NEW p \in 0..(PacketCount(Len(body)) - 1)
  PROVE  /\ Payload(body, p) = SubSeq(body, Upto(Len(body), p) + 1, Upto(Len(body), p + 1))
         /\ Payload(body, p) \in Seq(S)
         /\ Payload(body, p) # <<>>
<1> DEFINE a == Upto(Len(body), p)
           b == Upto(Len(body), p + 1)
<1>1. Len(body) \in Nat \ {0}
  BY EmptySeq
<1>2. a \in 0..(Len(body) - 1) /\ b \in 1..Len(body) /\ a < b /\ a = p * PerPacket
  BY <1>1, UptoGrows
<1>3. Payload(body, p) = SubSeq(body, a + 1, b)
  BY <1>2 DEF Payload, Upto
<1> HIDE DEF a, b
<1>4. \A i \in (a + 1)..b : body[i] \in S
  BY <1>1, <1>2, ElementOfSeq
<1>5. SubSeq(body, a + 1, b) \in Seq(S) /\ Len(SubSeq(body, a + 1, b)) = b - a
  BY <1>1, <1>2, <1>4, SubSeqProperties
<1>6. SubSeq(body, a + 1, b) # <<>>
  <2>1. Len(<<>>) = 0
    OBVIOUS
  <2>2. b - a # 0
    BY <1>1, <1>2
  <2>3. QED
    BY <1>5, <2>1, <2>2
<1>7. QED
  BY <1>3, <1>5, <1>6 DEF a, b

LEMMA FlattenPayloads ==
  ASSUME NEW S, NEW body \in Seq(S), body # <<>>
  PROVE  FlattenSeq([i \in 1..PacketCount(Len(body)) |-> Payload(body, i - 1)]) = body
<1> DEFINE L == Len(body)
           N == PacketCount(L)
           s == [i \in 1..N |-> Payload(body, i - 1)]
<1>1. L \in Nat \ {0}
  BY EmptySeq
<1>2. N \in Nat \ {0} /\ L <= N * PerPacket
  BY <1>1, PacketCounts
<1>3. Len(s) = N
  BY <1>2
<1>4. PICK f : /\ f = [i \in 1..N |-> IF i = 1 THEN s[i] ELSE f[i - 1] \o s[i]]
               /\ FlattenSeq(s) = f[N]
  <2> HIDE DEF s, N
  <2>1. Len(s) \in Nat /\ Len(s) # 0
    BY <1>2, <1>3
  <2>2. QED
    BY <1>3, <2>1, FlattenUnfolds
<1> DEFINE Wrong == {i \in 1..N : f[i] # SubSeq(body, 1, Upto(L, i))}
<1>5. Wrong = {}
  <2> SUFFICES ASSUME Wrong # {} PROVE FALSE
    OBVIOUS
  <2>1. Wrong \in SUBSET Nat
    BY <1>2
  <2>2. PICK i \in Wrong : \A j \in Wrong : i <= j
    <3> HIDE DEF Wrong
    <3>1. QED
      BY <2>1, LeastElement
  <2>3. i \in 1..N /\ f[i] # SubSeq(body, 1, Upto(L, i))
    BY <2>2
  <2>4. i - 1 \in 0..(N - 1) /\ i - 1 + 1 = i
    BY <1>2, <2>3
  <2>5. /\ s[i] = SubSeq(body, Upto(L, i - 1) + 1, Upto(L, i))
        /\ Upto(L, i - 1) \in 0..(L - 1) /\ Upto(L, i) \in 1..L
        /\ Upto(L, i - 1) < Upto(L, i)
    <3>1. s[i] = Payload(body, i - 1)
      BY <2>3
    <3>2. Payload(body, i - 1) = SubSeq(body, Upto(L, i - 1) + 1, Upto(L, i))
      <4>1. Payload(body, i - 1) = SubSeq(body, Upto(L, i - 1) + 1, Upto(L, i - 1 + 1))
        BY <2>4, PayloadEntries
      <4>2. QED
        BY <2>4, <4>1
    <3>3. /\ Upto(L, i - 1) \in 0..(L - 1) /\ Upto(L, i - 1 + 1) \in 1..L
          /\ Upto(L, i - 1) < Upto(L, i - 1 + 1)
      BY <1>1, <2>4, UptoGrows
    <3>4. QED
      BY <2>4, <3>1, <3>2, <3>3
  <2>6. CASE i = 1
    <3>1. Upto(L, 0) = 0
      <4>1. 0 \in 0..(PacketCount(L) - 1)
        BY <1>2
      <4>2. QED
        BY <1>1, <4>1, UptoGrows, SrdAssumption
    <3>2. i - 1 = 0 /\ f[i] = s[i]
      BY <1>4, <2>3, <2>6
    <3>3. s[i] = SubSeq(body, Upto(L, 0) + 1, Upto(L, i))
      <4> HIDE DEF s
      <4>1. QED
        BY <2>5, <3>2
    <3>4. QED
      <4> HIDE DEF s
      <4>1. QED
        BY <2>3, <3>1, <3>2, <3>3
  <2>7. CASE i # 1
    <3>1. i - 1 \in 1..N /\ ~ (i <= i - 1)
      BY <1>2, <2>3, <2>7
    <3>2. f[i - 1] = SubSeq(body, 1, Upto(L, i - 1))
      BY <2>2, <3>1
    <3>3. f[i] = f[i - 1] \o s[i]
      BY <1>4, <2>3, <2>7
    <3> HIDE DEF s
    <3>4. /\ Upto(L, i - 1) \in 0..L /\ Upto(L, i) \in Upto(L, i - 1)..L
          /\ 1 \in 1..(L + 1)
      BY <1>1, <2>5
    <3> HIDE DEF L, N
    <3>5. SubSeq(body, 1, Upto(L, i - 1)) \o SubSeq(body, Upto(L, i - 1) + 1, Upto(L, i))
            = SubSeq(body, 1, Upto(L, i))
      <4>1. Upto(L, i - 1) \in (1 - 1)..Len(body) /\ 1 \in 1..(Len(body) + 1)
            /\ Upto(L, i) \in Upto(L, i - 1)..Len(body)
        BY <3>4 DEF L
      <4>2. QED
        BY <4>1, ConcatAdjacentSubSeq
    <3>6. QED
      BY <2>3, <2>5, <3>2, <3>3, <3>5
  <2>8. QED
    BY <2>6, <2>7
<1>6. f[N] = SubSeq(body, 1, Upto(L, N))
  <2>1. N \in 1..N
    BY <1>2
  <2>2. QED
    BY <1>5, <2>1
<1>7. Upto(L, N) = L
  <2>1. L <= N * PerPacket /\ N * PerPacket \in Nat
    BY <1>2, SrdAssumption
  <2>2. QED
    BY <1>1, <2>1 DEF Upto
<1>8. SubSeq(body, 1, L) = body
  BY SubSeqFull
<1>9. QED
  BY <1>4, <1>6, <1>7, <1>8
(* The inductive invariant.                                                  *)

Entry == Nodes \X Nat \X Nat

\* A sender numbers its messages: no two have the same number.
SentInv ==
    /\ msgId \in [Nodes -> Nat]
    /\ posted \subseteq Messages
    /\ IsFiniteSet(posted) /\ Cardinality(posted) <= MaxSends
    /\ \A n \in Nodes : msgId[n] <= Cardinality(posted)
    /\ \A m \in posted : m.id <= msgId[m.from]
    /\ \A m, x \in posted : m.from = x.from /\ m.id = x.id => m = x

\* Every packet is one of a message that was sent.
PacketInv ==
    \A p \in unsent \cup wire \cup lost : \E m \in posted : p \in Packets(m)

\* Each slot of b is empty or has the payload m has there.
Collects(b, m) ==
    LET total == PacketCount(Len(m.body))
    IN  /\ b \in [total : {total}, received : Nat,
                  packets : [0..(total - 1) -> Seq(Entry)]]
        /\ \A s \in 0..(total - 1) : b.packets[s] \in {<<>>, Payload(m.body, s)}
        /\ b.received = Cardinality(Slots(b))

\* A buffer collects the packets of the one message with its key.
BufferInv ==
    /\ DOMAIN recon = Nodes
    /\ \A n \in Nodes : \A key \in DOMAIN recon[n] :
           \E m \in posted :
               /\ m.to = n /\ key = <<m.from, m.id>>
               /\ Collects(recon[n][key], m)
               /\ 0 < recon[n][key].received
               /\ recon[n][key].received < recon[n][key].total

\* What waits for ReceiveAll is the end of what was completed.
DoneInv ==
    /\ done \in [Nodes -> Seq(Seq(Entry))]
    /\ completed \in [Nodes -> Seq(Seq(Entry))]
    /\ \A n \in Nodes : \E d \in 0..Len(done[n]) :
           completed[n] = SubSeq(done[n], d + 1, Len(done[n]))
    /\ WholeMessages

\* The packets that were received for the last time.
Gone(m) == Packets(m) \ (unsent \cup wire \cup lost)

\* How many receipts the completed copies of m and its buffer stand for, and how
\* many of them must have been repetitions.
Taken(m) == Times(m) * Cardinality(Packets(m)) + Cardinality(Held(m))
Repeats == [m \in posted |-> Taken(m) - Cardinality(Gone(m))]

\* A packet is not in two places of the network; what was received of a message
\* that is not complete is in its buffer; and what counts twice was repeated.
Accounts ==
    /\ unsent \cap wire = {} /\ unsent \cap lost = {} /\ wire \cap lost = {}
    /\ \A m \in posted : Times(m) = 0 => Gone(m) \subseteq Held(m)
    /\ SumOver(Repeats) <= dups

TransportInv ==
    /\ SentInv
    /\ PacketInv
    /\ BufferInv
    /\ DoneInv
    /\ up \in [Nodes -> {"running", "deaf", "stopping", "closed"}]
    /\ dups \in 0..MaxDups
    /\ Accounts

(* Messages, packets and buffers.                                            *)

LEMMA MessageFacts ==
  ASSUME NEW m \in Messages
  PROVE  /\ m.from \in Nodes /\ m.to \in Nodes /\ m.id \in 1..MaxSends
         /\ m.body \in Seq(Entry) /\ m.body # <<>> /\ Len(m.body) \in Nat \ {0}
         /\ m.body[1] = <<m.from, m.id, 1>>
<1>1. PICK n \in Nodes, k \in 1..MaxSends, to \in Nodes, len \in Lengths :
          m = Message(n, k, to, len)
  BY DEF Messages
<1>2. /\ m.from = n /\ m.id = k /\ m.to = to /\ m.body = Entries(n, k, len)
  BY <1>1 DEF Message
<1>3. len \in Nat \ {0} /\ k \in Nat
  BY SrdAssumption
<1>4. \A i \in 1..len : <<n, k, i>> \in Entry
  BY <1>3 DEF Entry
<1>5. Entries(n, k, len) \in [1..len -> Entry]
  BY <1>4 DEF Entries
<1>6. Entries(n, k, len) \in Seq(Entry) /\ Len(Entries(n, k, len)) = len
  BY <1>3, <1>5
<1>7. Entries(n, k, len)[1] = <<n, k, 1>>
  BY <1>3 DEF Entries
<1>8. QED
  <2>1. m.body \in Seq(Entry) /\ Len(m.body) \in Nat \ {0} /\ m.body[1] = <<m.from, m.id, 1>>
    BY <1>2, <1>3, <1>6, <1>7
  <2>2. m.body # <<>>
    BY <2>1
  <2>3. QED
    BY <1>2, <2>1, <2>2

\* The entries tell who sent them.
LEMMA BodiesDiffer ==
  ASSUME NEW m \in Messages, NEW x \in Messages, m.body = x.body
  PROVE  m.from = x.from /\ m.id = x.id
<1>1. <<m.from, m.id, 1>> = <<x.from, x.id, 1>>
  BY MessageFacts
<1>2. QED
  BY <1>1

LEMMA PacketFacts ==
  ASSUME NEW m \in Messages, NEW p \in Packets(m)
  PROVE  /\ p.to = m.to /\ p.from = m.from /\ p.id = m.id
         /\ KeyOf(p) = <<m.from, m.id>>
         /\ p.total = PacketCount(Len(m.body)) /\ p.total \in Nat \ {0}
         /\ p.seq \in 0..(p.total - 1)
         /\ p.payload = Payload(m.body, p.seq)
         /\ p.payload \in Seq(Entry) /\ p.payload # <<>>
         /\ \A q \in Packets(m) : q.seq = p.seq => q = p
<1> DEFINE T == PacketCount(Len(m.body))
           Packet(i) == [to |-> m.to, from |-> m.from, id |-> m.id, seq |-> i,
                         total |-> T, payload |-> Payload(m.body, i)]
<1>1. \A q \in Packets(m) : q.seq \in 0..(T - 1) /\ q = Packet(q.seq)
  BY DEF Packets
<1>2. T \in Nat \ {0}
  BY MessageFacts, PacketCounts
<1>3. /\ p.to = m.to /\ p.from = m.from /\ p.id = m.id /\ p.total = T
      /\ p.payload = Payload(m.body, p.seq) /\ p.seq \in 0..(T - 1)
  BY <1>1
<1>4. p.payload \in Seq(Entry) /\ p.payload # <<>>
  BY <1>3, MessageFacts, PayloadEntries
<1>5. \A q \in Packets(m) : q.seq = p.seq => q = p
  <2> HIDE DEF Packet
  <2>1. QED
    BY <1>1
<1>6. QED
  BY <1>2, <1>3, <1>4, <1>5 DEF KeyOf

LEMMA EmptyCollects ==
  ASSUME NEW m \in Messages, NEW p \in Packets(m)
  PROVE  /\ Collects(EmptyBuffer(p), m) /\ EmptyBuffer(p).received = 0
         /\ Slots(EmptyBuffer(p)) = {}
<1> DEFINE T == PacketCount(Len(m.body))
           b == EmptyBuffer(p)
<1>1. p.total = T /\ T \in Nat \ {0}
  BY PacketFacts
<1>2. b = [total |-> T, received |-> 0, packets |-> [s \in 0..(T - 1) |-> <<>>]]
  BY <1>1 DEF EmptyBuffer
<1>3. <<>> \in Seq(Entry)
  BY EmptySeq
<1>4. [s \in 0..(T - 1) |-> <<>>] \in [0..(T - 1) -> Seq(Entry)]
  BY <1>3
<1>5. b \in [total : {T}, received : Nat, packets : [0..(T - 1) -> Seq(Entry)]]
  BY <1>2, <1>4
<1>6. \A s \in 0..(T - 1) : b.packets[s] = <<>>
  BY <1>2
<1>7. Slots(b) = {} /\ b.received = 0
  BY <1>2, <1>6 DEF Slots
<1>8. Cardinality(Slots(b)) = 0
  BY <1>7, FS_EmptySet
<1> HIDE DEF b
<1>9. Collects(b, m)
  BY <1>5, <1>6, <1>7, <1>8 DEF Collects
<1>10. QED
  BY <1>7, <1>9 DEF b

LEMMA SlotsBounded ==
  ASSUME NEW m \in Messages, NEW b, Collects(b, m)
  PROVE  /\ b.total = PacketCount(Len(m.body)) /\ b.total \in Nat \ {0}
         /\ b.packets \in [0..(b.total - 1) -> Seq(Entry)]
         /\ Slots(b) \subseteq 0..(b.total - 1) /\ IsFiniteSet(Slots(b))
         /\ b.received = Cardinality(Slots(b)) /\ b.received \in Nat
         /\ b.received <= b.total
         /\ b.received = b.total => Slots(b) = 0..(b.total - 1)
<1> DEFINE T == PacketCount(Len(m.body))
<1>1. T \in Nat \ {0}
  BY MessageFacts, PacketCounts
<1>2. /\ b.total = T /\ b.received \in Nat /\ b.received = Cardinality(Slots(b))
      /\ b.packets \in [0..(T - 1) -> Seq(Entry)]
  BY DEF Collects
<1>3. Slots(b) \subseteq 0..(T - 1)
  BY <1>2 DEF Slots
<1> HIDE DEF T
<1>4. IsFiniteSet(0..(T - 1)) /\ Cardinality(0..(T - 1)) = T
  BY <1>1, FS_Interval
<1>5. /\ IsFiniteSet(Slots(b)) /\ Cardinality(Slots(b)) <= T
      /\ Cardinality(Slots(b)) = T => Slots(b) = 0..(T - 1)
  BY <1>3, <1>4, FS_Subset
<1>6. QED
  BY <1>1, <1>2, <1>3, <1>5 DEF T

LEMMA PutCollects ==
  ASSUME NEW m \in Messages, NEW p \in Packets(m), NEW b, Collects(b, m)
  PROVE  /\ Collects(Put(b, p), m)
         /\ Slots(Put(b, p)) = Slots(b) \cup {p.seq}
         /\ 0 < Put(b, p).received
<1> DEFINE T == PacketCount(Len(m.body))
<1>1. /\ p.total = T /\ p.seq \in 0..(T - 1) /\ p.payload = Payload(m.body, p.seq)
      /\ p.payload \in Seq(Entry) /\ p.payload # <<>> /\ T \in Nat \ {0}
  BY PacketFacts
<1>2. /\ b.total = T /\ b.packets \in [0..(T - 1) -> Seq(Entry)]
      /\ Slots(b) \subseteq 0..(T - 1) /\ IsFiniteSet(Slots(b))
      /\ b.received = Cardinality(Slots(b)) /\ b.received \in Nat
  BY SlotsBounded
<1>3. /\ b \in [total : {T}, received : Nat, packets : [0..(T - 1) -> Seq(Entry)]]
      /\ \A s \in 0..(T - 1) : b.packets[s] \in {<<>>, Payload(m.body, s)}
  BY DEF Collects
<1> HIDE DEF T
<1>4. CASE b.packets[p.seq] = <<>>
  <2> DEFINE c == [b EXCEPT !.packets[p.seq] = p.payload, !.received = @ + 1]
  <2>1. Put(b, p) = c
    BY <1>1, <1>2, <1>4 DEF Put
  <2>2. /\ c \in [total : {T}, received : Nat, packets : [0..(T - 1) -> Seq(Entry)]]
        /\ c.received = b.received + 1
        /\ \A s \in 0..(T - 1) : c.packets[s] = IF s = p.seq THEN p.payload ELSE b.packets[s]
    <3> DEFINE f == [b.packets EXCEPT ![p.seq] = p.payload]
    <3>1. /\ f \in [0..(T - 1) -> Seq(Entry)]
          /\ \A s \in 0..(T - 1) : f[s] = IF s = p.seq THEN p.payload ELSE b.packets[s]
      BY <1>1, <1>2
    <3>2. c = [total |-> T, received |-> b.received + 1, packets |-> f]
      <4>1. PICK r \in Nat, g \in [0..(T - 1) -> Seq(Entry)] :
                b = [total |-> T, received |-> r, packets |-> g]
        BY <1>3
      <4>2. b.packets = g /\ b.received = r
        BY <4>1
      <4>3. c = [total |-> T, received |-> r + 1, packets |-> [g EXCEPT ![p.seq] = p.payload]]
        <5>1. PICK d : d = [b EXCEPT !.packets[p.seq] = p.payload]
          OBVIOUS
        <5>2. d = [total |-> T, received |-> r, packets |-> [g EXCEPT ![p.seq] = p.payload]]
          BY <4>1, <5>1
        <5>3. c = [d EXCEPT !.received = @ + 1]
          BY <5>1
        <5>4. [d EXCEPT !.received = @ + 1]
                = [total |-> T, received |-> r + 1, packets |-> [g EXCEPT ![p.seq] = p.payload]]
          BY <5>2
        <5>5. QED
          BY <5>3, <5>4
      <4>4. QED
        BY <4>2, <4>3
    <3> HIDE DEF c, f
    <3>3. QED
      BY <1>2, <3>1, <3>2
  <2> HIDE DEF c
  <2>3. Slots(c) = Slots(b) \cup {p.seq} /\ p.seq \notin Slots(b)
    <3>1. /\ Slots(b) = {s \in 0..(T - 1) : b.packets[s] # <<>>}
          /\ Slots(c) = {s \in 0..(T - 1) : c.packets[s] # <<>>}
      BY <1>2, <2>2 DEF Slots
    <3>2. \A s \in 0..(T - 1) : c.packets[s] # <<>> <=> b.packets[s] # <<>> \/ s = p.seq
      BY <1>1, <2>2
    <3>3. QED
      BY <1>1, <1>4, <3>1, <3>2
  <2>4. Cardinality(Slots(c)) = Cardinality(Slots(b)) + 1
    BY <1>2, <2>3, FS_AddElement
  <2>5. \A s \in 0..(T - 1) : c.packets[s] \in {<<>>, Payload(m.body, s)}
    BY <1>1, <1>3, <2>2
  <2>6. Collects(c, m)
    BY <1>2, <2>2, <2>4, <2>5 DEF Collects, T
  <2>7. QED
    BY <1>2, <2>1, <2>2, <2>3, <2>6
<1>5. CASE b.packets[p.seq] # <<>>
  <2>1. Put(b, p) = b
    BY <1>5 DEF Put
  <2>2. p.seq \in Slots(b)
    BY <1>1, <1>2, <1>5 DEF Slots
  <2>3. Cardinality(Slots(b)) # 0
    BY <1>2, <2>2, FS_EmptySet
  <2>4. QED
    BY <1>2, <2>1, <2>2, <2>3
<1>6. QED
  BY <1>4, <1>5

\* A buffer that has every packet is put together to the message sent.
LEMMA WholeAssembles ==
  ASSUME NEW m \in Messages, NEW b, Collects(b, m), b.received = b.total
  PROVE  Assemble(b) = m.body
<1> DEFINE T == PacketCount(Len(m.body))
<1>1. b.total = T /\ T \in Nat \ {0} /\ Slots(b) = 0..(T - 1)
  BY SlotsBounded
<1>2. \A s \in 0..(T - 1) : b.packets[s] = Payload(m.body, s)
  BY <1>1 DEF Collects, Slots
<1>3. \A i \in 1..T : b.packets[i - 1] = Payload(m.body, i - 1)
  <2> HIDE DEF T
  <2>1. QED
    BY <1>1, <1>2
<1>4. [i \in 1..T |-> b.packets[i - 1]] = [i \in 1..T |-> Payload(m.body, i - 1)]
  BY <1>3
<1>5. FlattenSeq([i \in 1..T |-> Payload(m.body, i - 1)]) = m.body
  BY MessageFacts, FlattenPayloads
<1>6. QED
  BY <1>1, <1>4, <1>5 DEF Assemble
(* Steps.                                                                    *)

LEMMA SendPosts ==
  ASSUME SentInv, NEW n \in Nodes, NEW to \in Nodes, NEW len \in Lengths, Send(n, to, len)
  PROVE  \E m \in Messages :
             /\ posted' = posted \cup {m} /\ unsent' = unsent \cup Packets(m)
             /\ \A x \in posted : ~ (x.from = m.from /\ x.id = m.id)
             /\ SentInv'
<1> DEFINE m == Message(n, msgId[n] + 1, to, len)
<1>1. /\ posted' = posted \cup {m} /\ unsent' = unsent \cup Packets(m)
      /\ msgId' = [msgId EXCEPT ![n] = @ + 1]
      /\ Cardinality(posted) < MaxSends
  BY DEF Send
<1>2. /\ msgId \in [Nodes -> Nat] /\ posted \subseteq Messages /\ IsFiniteSet(posted)
      /\ \A k \in Nodes : msgId[k] <= Cardinality(posted)
      /\ \A x \in posted : x.id <= msgId[x.from]
      /\ \A x, y \in posted : x.from = y.from /\ x.id = y.id => x = y
  BY DEF SentInv
<1>3. Cardinality(posted) \in Nat /\ MaxSends \in Nat
  BY <1>2, FS_CardinalityType, SrdAssumption
<1>4. msgId[n] + 1 \in 1..MaxSends
  BY <1>1, <1>2, <1>3
<1>5. m \in Messages
  BY <1>4 DEF Messages
<1>6. m.from = n /\ m.id = msgId[n] + 1
  BY DEF Message
<1> HIDE DEF m
<1>7. \A x \in posted : x.from \in Nodes /\ x.id \in Nat
  BY <1>2, <1>3, MessageFacts
<1>8. ASSUME NEW x \in posted, x.from = m.from, x.id = m.id PROVE FALSE
  BY <1>2, <1>6, <1>7, <1>8
<1>9. IsFiniteSet(posted') /\ Cardinality(posted') = Cardinality(posted) + 1
  BY <1>1, <1>2, <1>8, FS_AddElement
<1>10. /\ msgId' \in [Nodes -> Nat] /\ msgId'[n] = msgId[n] + 1
       /\ \A k \in Nodes \ {n} : msgId'[k] = msgId[k]
  BY <1>1, <1>2
<1>11. \A k \in Nodes : msgId'[k] <= Cardinality(posted')
  BY <1>2, <1>3, <1>9, <1>10
<1>12. \A x \in posted' : x.id <= msgId'[x.from]
  <2> SUFFICES ASSUME NEW x \in posted' PROVE x.id <= msgId'[x.from]
    OBVIOUS
  <2>1. CASE x = m
    BY <1>2, <1>6, <1>10, <2>1
  <2>2. CASE x \in posted
    BY <1>2, <1>7, <1>10, <2>2
  <2>3. QED
    BY <1>1, <2>1, <2>2
<1>13. \A x, y \in posted' : x.from = y.from /\ x.id = y.id => x = y
  BY <1>1, <1>2, <1>8
<1>14. SentInv'
  <2>1. posted' \subseteq Messages
    BY <1>1, <1>2, <1>5
  <2>2. Cardinality(posted') <= MaxSends
    BY <1>1, <1>3, <1>9
  <2>3. QED
    BY <1>9, <1>10, <1>11, <1>12, <1>13, <2>1, <2>2, Zenon DEF SentInv
<1>15. QED
  BY <1>1, <1>5, <1>8, <1>14

\* The last receipt of a message: it is completed and its buffer forgotten.
Completes(m, b) ==
    /\ b.received = b.total
    /\ recon'[m.to] = Erased(m.to, <<m.from, m.id>>)
    /\ done' = [done EXCEPT ![m.to] = Append(@, m.body)]
    /\ completed' = [completed EXCEPT ![m.to] = Append(@, m.body)]

\* Any other receipt of a message: its buffer becomes b.
Keeps(m, b) ==
    /\ b.received < b.total
    /\ recon'[m.to] = Stored(m.to, <<m.from, m.id>>, b)
    /\ UNCHANGED <<done, completed>>

LEMMA ReceiveFills ==
  ASSUME TransportInv, NEW p \in wire, NEW copyStays \in BOOLEAN, Receive(p, copyStays)
  PROVE  \E m \in posted : \E b :
             /\ m \in Messages /\ p \in Packets(m)
             /\ Collects(b, m) /\ 0 < b.received
             /\ \A q \in Packets(m) : q.seq \in Slots(b) <=> q = p \/ q \in Held(m)
             /\ Completes(m, b) \/ Keeps(m, b)
             /\ DOMAIN recon' = Nodes /\ \A k \in Nodes \ {m.to} : recon'[k] = recon[k]
<1> DEFINE n == p.to
           b == Put(Buffer(n, p), p)
<1>1. PICK m \in posted : p \in Packets(m)
  BY DEF TransportInv, PacketInv
<1>2. m \in Messages
  BY DEF TransportInv, SentInv
<1>3. /\ n = m.to /\ n \in Nodes /\ KeyOf(p) = <<m.from, m.id>>
  BY <1>1, <1>2, MessageFacts, PacketFacts
<1>4. DOMAIN recon = Nodes
  BY DEF TransportInv, BufferInv
<1>5. /\ Collects(Buffer(n, p), m)
      /\ \A q \in Packets(m) : q.seq \in Slots(Buffer(n, p)) <=> q \in Held(m)
  <2>1. CASE KeyOf(p) \in DOMAIN recon[n]
    <3>1. Buffer(n, p) = recon[n][KeyOf(p)]
      BY <2>1 DEF Buffer
    <3>2. PICK x \in posted : /\ x.to = n /\ KeyOf(p) = <<x.from, x.id>>
                              /\ Collects(recon[n][KeyOf(p)], x)
      BY <1>3, <2>1 DEF TransportInv, BufferInv
    <3>3. x.from = m.from /\ x.id = m.id
      BY <1>3, <3>2
    <3>4. x = m
      BY <3>3 DEF TransportInv, SentInv
    <3>5. Held(m) = {q \in Packets(m) : Buffer(n, p).packets[q.seq] # <<>>}
      BY <1>3, <2>1, <3>1 DEF Held
    <3>6. DOMAIN Buffer(n, p).packets = 0..(Buffer(n, p).total - 1)
          /\ Buffer(n, p).total = PacketCount(Len(m.body))
      BY <1>2, <3>1, <3>2, <3>4, SlotsBounded
    <3>7. \A q \in Packets(m) : q.seq \in DOMAIN Buffer(n, p).packets
      BY <1>2, <3>6, PacketFacts
    <3>8. QED
      BY <3>1, <3>2, <3>4, <3>5, <3>7 DEF Slots
  <2>2. CASE KeyOf(p) \notin DOMAIN recon[n]
    <3>1. Buffer(n, p) = EmptyBuffer(p)
      BY <2>2 DEF Buffer
    <3>2. Held(m) = {}
      BY <1>3, <2>2 DEF Held
    <3>3. Collects(Buffer(n, p), m) /\ Slots(Buffer(n, p)) = {}
      BY <1>1, <1>2, <3>1, EmptyCollects
    <3>4. QED
      BY <3>2, <3>3
  <2>3. QED
    BY <2>1, <2>2
<1>6. /\ Collects(b, m) /\ 0 < b.received
      /\ Slots(b) = Slots(Buffer(n, p)) \cup {p.seq}
  BY <1>1, <1>2, <1>5, PutCollects
<1>7. \A q \in Packets(m) : q.seq \in Slots(b) <=> q = p \/ q \in Held(m)
  BY <1>1, <1>2, <1>5, <1>6, PacketFacts
<1>8. /\ b.received \in Nat /\ b.total \in Nat /\ b.received <= b.total
      /\ b.received = b.total => Assemble(b) = m.body
  BY <1>2, <1>6, SlotsBounded, WholeAssembles
<1>9. /\ recon' = [recon EXCEPT ![n] = IF b.received = b.total THEN Erased(n, KeyOf(p))
                                       ELSE Stored(n, KeyOf(p), b)]
      /\ completed' = [completed EXCEPT ![n] =
                           IF b.received = b.total THEN Append(@, Assemble(b)) ELSE @]
      /\ done' = [done EXCEPT ![n] =
                      IF b.received = b.total THEN Append(@, Assemble(b)) ELSE @]
  BY DEF Receive
<1> HIDE DEF b, n
<1>10. done \in [Nodes -> Seq(Seq(Entry))] /\ completed \in [Nodes -> Seq(Seq(Entry))]
  BY DEF TransportInv, DoneInv
<1>11. DOMAIN recon' = Nodes /\ \A k \in Nodes \ {m.to} : recon'[k] = recon[k]
  BY <1>3, <1>4, <1>9
<1>12. CASE b.received = b.total
  <2>1. Completes(m, b)
    BY <1>3, <1>4, <1>8, <1>9, <1>12 DEF Completes
  <2>2. QED
    BY <1>1, <1>2, <1>6, <1>7, <1>11, <2>1
<1>13. CASE b.received # b.total
  <2>1. Keeps(m, b)
    BY <1>3, <1>4, <1>8, <1>9, <1>10, <1>13 DEF Keeps
  <2>2. QED
    BY <1>1, <1>2, <1>6, <1>7, <1>11, <2>1
<1>14. QED
  BY <1>12, <1>13
LEMMA SuffixGrows ==
  ASSUME NEW S, NEW s \in Seq(S), NEW x \in S, NEW d \in 0..Len(s)
  PROVE  SubSeq(Append(s, x), d + 1, Len(s) + 1) = Append(SubSeq(s, d + 1, Len(s)), x)
<1> DEFINE t == Append(s, x)
           L == Len(s)
<1>1. L \in Nat
  OBVIOUS
<1>2. t \in Seq(S) /\ Len(t) = L + 1 /\ t[L + 1] = x /\ \A i \in 1..L : t[i] = s[i]
  BY AppendProperties
<1> HIDE DEF t
<1>3. SubSeq(t, d + 1, L + 1) = SubSeq(t, d + 1, L) \o <<x>>
  <2>1. d + 1 \in 1..Len(t) /\ L + 1 \in (d + 1)..Len(t) /\ L + 1 - 1 = L
    BY <1>1, <1>2
  <2> DEFINE a == d + 1
             c == L + 1
  <2>2. a \in 1..Len(t) /\ c \in a..Len(t) /\ c - 1 = L
    BY <2>1
  <2>3. a = d + 1 /\ c = L + 1 /\ t[c] = x
    BY <1>2
  <2> HIDE DEF a, c
  <2>4. SubSeq(t, a, c) = SubSeq(t, a, c - 1) \o <<t[c]>>
    BY <1>2, <2>2, SubSeqRecursiveSecond
  <2>5. SubSeq(t, a, c) = SubSeq(t, a, L) \o <<x>>
    BY <2>2, <2>3, <2>4
  <2>6. QED
    BY <2>3, <2>5, Zenon
<1>4. /\ SubSeq(t, d + 1, L) \in Seq(S) /\ SubSeq(s, d + 1, L) \in Seq(S)
      /\ SubSeq(t, d + 1, L) = SubSeq(s, d + 1, L)
  <2>1. /\ d + 1 \in Int /\ L \in Int
        /\ \A i \in (d + 1)..L : i \in 1..L
    BY <1>1
  <2>2. \A i \in (d + 1)..L : s[i] \in S /\ t[i] \in S /\ t[i] = s[i]
    BY <1>2, <2>1, ElementOfSeq
  <2> DEFINE u == SubSeq(t, d + 1, L)
             v == SubSeq(s, d + 1, L)
             k == IF d + 1 <= L THEN L - (d + 1) + 1 ELSE 0
  <2>3. /\ u \in Seq(S) /\ Len(u) = k
        /\ \A i \in 1..(L - (d + 1) + 1) : u[i] = t[d + 1 + i - 1]
    BY <2>1, <2>2, SubSeqProperties
  <2>4. /\ v \in Seq(S) /\ Len(v) = k
        /\ \A i \in 1..(L - (d + 1) + 1) : v[i] = s[d + 1 + i - 1]
    BY <2>1, <2>2, SubSeqProperties
  <2> HIDE DEF u, v
  <2>5. \A i \in 1..k : i \in 1..(L - (d + 1) + 1) /\ d + 1 + i - 1 \in (d + 1)..L
    BY <1>1
  <2>6. \A i \in 1..Len(u) : u[i] = v[i]
    BY <2>2, <2>3, <2>4, <2>5
  <2>7. u = v
    BY <2>3, <2>4, <2>6, SeqEqual
  <2>8. QED
    BY <2>3, <2>4, <2>7 DEF u, v
<1>5. Append(SubSeq(s, d + 1, L), x) = SubSeq(s, d + 1, L) \o <<x>>
  BY <1>4, AppendIsConcat
<1>6. QED
  BY <1>3, <1>4, <1>5 DEF t

LEMMA ReceiveBuffers ==
  ASSUME TransportInv, NEW p \in wire, NEW copyStays \in BOOLEAN, Receive(p, copyStays)
  PROVE  BufferInv'
<1>1. PICK m, b :
          /\ m \in posted /\ m \in Messages /\ Collects(b, m) /\ 0 < b.received
          /\ Completes(m, b) \/ Keeps(m, b)
          /\ DOMAIN recon' = Nodes /\ \A k \in Nodes \ {m.to} : recon'[k] = recon[k]
  BY ReceiveFills
<1>2. posted' = posted
  BY DEF Receive
<1> DEFINE Belongs(n, key, c) ==
               \E x \in posted : /\ x.to = n /\ key = <<x.from, x.id>> /\ Collects(c, x)
                                /\ 0 < c.received /\ c.received < c.total
<1>3. \A n \in Nodes : \A key \in DOMAIN recon[n] : Belongs(n, key, recon[n][key])
  BY DEF TransportInv, BufferInv
<1>4. ASSUME NEW n \in Nodes, NEW key \in DOMAIN recon'[n]
      PROVE  Belongs(n, key, recon'[n][key])
  <2>1. CASE n # m.to
    <3>1. recon'[n] = recon[n]
      BY <1>1, <2>1
    <3> HIDE DEF Belongs
    <3>2. QED
      BY <1>3, <1>4, <3>1
  <2>2. CASE n = m.to /\ Completes(m, b)
    <3>1. key \in DOMAIN recon[n] /\ recon'[n][key] = recon[n][key]
      BY <1>4, <2>2 DEF Completes, Erased
    <3> HIDE DEF Belongs
    <3>2. QED
      BY <1>3, <3>1
  <2>3. CASE n = m.to /\ Keeps(m, b)
    <3>1. CASE key = <<m.from, m.id>>
      <4>1. recon'[n][key] = b /\ b.received < b.total
        BY <2>3, <3>1 DEF Keeps, Stored
      <4>2. QED
        BY <1>1, <2>3, <3>1, <4>1
    <3>2. CASE key # <<m.from, m.id>>
      <4>1. key \in DOMAIN recon[n] /\ recon'[n][key] = recon[n][key]
        BY <1>4, <2>3, <3>2 DEF Keeps, Stored
      <4> HIDE DEF Belongs
      <4>2. QED
        BY <1>3, <4>1
    <3>3. QED
      BY <3>1, <3>2
  <2>4. QED
    BY <1>1, <2>1, <2>2, <2>3
<1>5. QED
  <2>1. \A n \in Nodes : \A key \in DOMAIN recon'[n] :
            \E x \in posted' : /\ x.to = n /\ key = <<x.from, x.id>>
                              /\ Collects(recon'[n][key], x)
                              /\ 0 < recon'[n][key].received
                              /\ recon'[n][key].received < recon'[n][key].total
    BY <1>2, <1>4
  <2>2. QED
    BY <1>1, <2>1, Zenon DEF BufferInv

LEMMA ReceiveDone ==
  ASSUME TransportInv, NEW p \in wire, NEW copyStays \in BOOLEAN, Receive(p, copyStays)
  PROVE  DoneInv'
<1>1. PICK m, b : m \in posted /\ m \in Messages /\ (Completes(m, b) \/ Keeps(m, b))
  BY ReceiveFills
<1>2. /\ done \in [Nodes -> Seq(Seq(Entry))] /\ completed \in [Nodes -> Seq(Seq(Entry))]
      /\ \A n \in Nodes : \E d \in 0..Len(done[n]) :
             completed[n] = SubSeq(done[n], d + 1, Len(done[n]))
      /\ WholeMessages
  BY DEF TransportInv, DoneInv
<1>3. posted' = posted
  BY DEF Receive
<1>4. CASE Keeps(m, b)
  BY <1>2, <1>3, <1>4 DEF Keeps, DoneInv, WholeMessages
<1>5. CASE Completes(m, b)
  <2> DEFINE n == m.to
  <2>1. n \in Nodes /\ m.body \in Seq(Entry)
    BY <1>1, MessageFacts
  <2>2. /\ done[n] \in Seq(Seq(Entry)) /\ completed[n] \in Seq(Seq(Entry))
        /\ Len(done[n]) \in Nat
    BY <1>2, <2>1
  <2>3. /\ done' = [done EXCEPT ![n] = Append(@, m.body)]
        /\ completed' = [completed EXCEPT ![n] = Append(@, m.body)]
    BY <1>5 DEF Completes
  <2> HIDE DEF n
  <2>4. /\ Append(done[n], m.body) \in Seq(Seq(Entry))
        /\ Append(completed[n], m.body) \in Seq(Seq(Entry))
        /\ Len(Append(done[n], m.body)) = Len(done[n]) + 1
        /\ \A i \in 1..Len(done[n]) : Append(done[n], m.body)[i] = done[n][i]
        /\ Append(done[n], m.body)[Len(done[n]) + 1] = m.body
    BY <2>1, <2>2, AppendProperties
  <2>5. done' \in [Nodes -> Seq(Seq(Entry))] /\ completed' \in [Nodes -> Seq(Seq(Entry))]
    BY <1>2, <2>3, <2>4
  <2>6. /\ done'[n] = Append(done[n], m.body) /\ completed'[n] = Append(completed[n], m.body)
        /\ \A k \in Nodes \ {n} : done'[k] = done[k] /\ completed'[k] = completed[k]
    BY <1>2, <2>1, <2>3
  <2>7. ASSUME NEW k \in Nodes
        PROVE  \E d \in 0..Len(done'[k]) : completed'[k] = SubSeq(done'[k], d + 1, Len(done'[k]))
    <3>1. CASE k # n
      BY <1>2, <2>6, <3>1
    <3>2. CASE k = n
      <4>1. PICK d \in 0..Len(done[n]) : completed[n] = SubSeq(done[n], d + 1, Len(done[n]))
        BY <1>2, <2>1
      <4>2. completed'[n] = SubSeq(done'[n], d + 1, Len(done'[n]))
        <5>1. SubSeq(Append(done[n], m.body), d + 1, Len(done[n]) + 1)
                = Append(SubSeq(done[n], d + 1, Len(done[n])), m.body)
          BY <2>1, <2>2, <4>1, SuffixGrows
        <5>2. SubSeq(done'[n], d + 1, Len(done'[n])) = Append(completed[n], m.body)
          BY <2>4, <2>6, <4>1, <5>1
        <5>3. QED
          BY <2>6, <5>2
      <4>3. d \in 0..Len(done'[n])
        BY <2>2, <2>4, <2>6
      <4>4. QED
        BY <3>2, <4>2, <4>3
    <3>3. QED
      BY <3>1, <3>2
  <2>8. ASSUME NEW k \in Nodes, NEW i \in 1..Len(done'[k])
        PROVE  \E x \in posted : x.to = k /\ x.body = done'[k][i]
    <3>1. CASE k = n /\ i = Len(done[n]) + 1
      BY <1>1, <2>4, <2>6, <3>1 DEF n
    <3>2. CASE ~ (k = n /\ i = Len(done[n]) + 1)
      <4>1. i \in 1..Len(done[k]) /\ done'[k][i] = done[k][i]
        <5>1. CASE k = n
          <6>1. i \in 1..(Len(done[n]) + 1) /\ i # Len(done[n]) + 1
            BY <2>4, <2>6, <2>8, <3>2, <5>1
          <6>2. i \in 1..Len(done[n])
            BY <2>2, <6>1
          <6>3. QED
            BY <2>4, <2>6, <5>1, <6>2
        <5>2. CASE k # n
          BY <2>6, <2>8, <5>2
        <5>3. QED
          BY <5>1, <5>2
      <4>2. QED
        BY <1>2, <4>1 DEF WholeMessages
    <3>3. QED
      BY <3>1, <3>2
  <2>9. WholeMessages'
    BY <1>3, <2>8 DEF WholeMessages
  <2>10. QED
    BY <2>5, <2>7, <2>9 DEF DoneInv
<1>6. QED
  BY <1>1, <1>4, <1>5
LEMMA InRange ==
  ASSUME NEW S, NEW s \in Seq(S), NEW e
  PROVE  e \in Range(s) <=> \E i \in 1..Len(s) : s[i] = e
<1>1. DOMAIN s = 1..Len(s)
  OBVIOUS
<1>2. QED
  BY <1>1 DEF Range

LEMMA RangeOfAppend ==
  ASSUME NEW S, NEW s \in Seq(S), NEW x \in S
  PROVE  Range(Append(s, x)) = Range(s) \cup {x}
<1>1. /\ Append(s, x) \in Seq(S) /\ Len(Append(s, x)) = Len(s) + 1 /\ Len(s) \in Nat
      /\ \A i \in 1..Len(s) : Append(s, x)[i] = s[i]
      /\ Append(s, x)[Len(s) + 1] = x
  BY AppendProperties
<1> DEFINE t == Append(s, x)
<1> HIDE DEF t
<1>2. ASSUME NEW e PROVE e \in Range(t) <=> e \in Range(s) \cup {x}
  <2>1. e \in Range(t) <=> \E i \in 1..Len(t) : t[i] = e
    BY <1>1, InRange DEF t
  <2>2. e \in Range(s) <=> \E i \in 1..Len(s) : s[i] = e
    BY InRange
  <2>3. 1..Len(t) = 1..Len(s) \cup {Len(s) + 1}
    BY <1>1 DEF t
  <2>4. \A i \in 1..Len(s) : t[i] = s[i]
    BY <1>1 DEF t
  <2>5. t[Len(s) + 1] = x
    BY <1>1 DEF t
  <2>6. QED
    BY <2>1, <2>2, <2>3, <2>4, <2>5
<1>3. QED
  BY <1>2 DEF t

\* A message that was not sent has no packet anywhere and was not completed.
LEMMA NewMessage ==
  ASSUME TransportInv, NEW m \in Messages,
         \A x \in posted : ~ (x.from = m.from /\ x.id = m.id)
  PROVE  /\ m \notin posted /\ Held(m) = {}
         /\ \A p \in Packets(m) : p \notin unsent \cup wire \cup lost
         /\ \A x \in posted : Packets(x) \cap Packets(m) = {}
         /\ m.body \notin Range(done[m.to])
<1>1. posted \subseteq Messages
  BY DEF TransportInv, SentInv
<1>2. \A x \in posted : Packets(x) \cap Packets(m) = {}
  BY <1>1, PacketFacts
<1>3. \A p \in Packets(m) : p \notin unsent \cup wire \cup lost
  BY <1>2 DEF TransportInv, PacketInv
<1>4. <<m.from, m.id>> \notin DOMAIN recon[m.to]
  <2>1. m.to \in Nodes
    BY MessageFacts
  <2>2. QED
    BY <2>1 DEF TransportInv, BufferInv
<1>5. Held(m) = {}
  BY <1>4 DEF Held
<1>6. m.body \notin Range(done[m.to])
  <2> SUFFICES ASSUME m.body \in Range(done[m.to]) PROVE FALSE
    OBVIOUS
  <2>1. m.to \in Nodes
    BY MessageFacts
  <2>2. done[m.to] \in Seq(Seq(Entry))
    BY <2>1 DEF TransportInv, DoneInv
  <2>3. PICK i \in 1..Len(done[m.to]) : done[m.to][i] = m.body
    BY <2>2, InRange
  <2>4. PICK x \in posted : x.body = m.body
    BY <2>1, <2>3 DEF TransportInv, DoneInv, WholeMessages
  <2>5. QED
    BY <1>1, <2>4, BodiesDiffer
<1>7. QED
  BY <1>2, <1>3, <1>5, <1>6
(* Receipts are accounted for.                                               *)

LEMMA PacketsFinite ==
  ASSUME NEW m \in Messages
  PROVE  /\ IsFiniteSet(Packets(m)) /\ Cardinality(Packets(m)) \in Nat \ {0}
         /\ \A T \in SUBSET Packets(m) : IsFiniteSet(T) /\ Cardinality(T) \in Nat
                                         /\ Cardinality(T) <= Cardinality(Packets(m))
<1> DEFINE N == PacketCount(Len(m.body))
           f == [i \in 0..(N - 1) |-> [to |-> m.to, from |-> m.from, id |-> m.id, seq |-> i,
                                       total |-> N, payload |-> Payload(m.body, i)]]
<1>1. N \in Nat \ {0}
  BY MessageFacts, PacketCounts
<1>2. f \in Surjection(0..(N - 1), Packets(m))
  BY DEF Surjection, Packets
<1>3. f[0] \in Packets(m)
  BY <1>1 DEF Packets
<1> HIDE DEF N, f
<1>4. IsFiniteSet(0..(N - 1))
  BY <1>1, FS_Interval
<1>5. IsFiniteSet(Packets(m))
  BY <1>2, <1>4, FS_Surjection
<1>6. QED
  BY <1>3, <1>5, FS_Subset, FS_CardinalityType, FS_EmptySet

\* How often e is in s.
CountOf(s, e) == Cardinality({i \in 1..Len(s) : s[i] = e})

LEMMA CountAppend ==
  ASSUME NEW S, NEW s \in Seq(S), NEW x \in S, NEW e
  PROVE  /\ CountOf(s, e) \in Nat /\ (CountOf(s, e) = 0 <=> e \notin Range(s))
         /\ CountOf(Append(s, x), e) = IF e = x THEN CountOf(s, e) + 1 ELSE CountOf(s, e)
<1> DEFINE t == Append(s, x)
           L == Len(s)
           I == {i \in 1..L : s[i] = e}
           J == {i \in 1..Len(t) : t[i] = e}
<1>1. /\ L \in Nat /\ Len(t) = L + 1 /\ t[L + 1] = x
      /\ \A i \in 1..L : t[i] = s[i]
  BY AppendProperties
<1>2. IsFiniteSet(I)
  <2>1. IsFiniteSet(1..L)
    BY <1>1, FS_Interval
  <2>2. QED
    BY <2>1, FS_Subset
<1>3. Cardinality(I) \in Nat /\ (Cardinality(I) = 0 <=> I = {})
  BY <1>2, FS_CardinalityType, FS_EmptySet
<1>4. e \notin Range(s) <=> I = {}
  BY InRange
<1>5. J = IF e = x THEN I \cup {L + 1} ELSE I
  <2> HIDE DEF t
  <2>1. 1..Len(t) = 1..L \cup {L + 1}
    BY <1>1
  <2>2. QED
    BY <1>1, <2>1
<1>6. L + 1 \notin I
  BY <1>1
<1> HIDE DEF I, J
<1>7. Cardinality(I \cup {L + 1}) = Cardinality(I) + 1
  BY <1>2, <1>6, FS_AddElement
<1>8. Cardinality(J) = IF e = x THEN Cardinality(I) + 1 ELSE Cardinality(I)
  BY <1>5, <1>7
<1>9. QED
  BY <1>3, <1>4, <1>8 DEF CountOf, I, J

\* What the accounts are about is finite.
AreCountable ==
    /\ \A m \in posted :
           /\ m \in Messages /\ m.to \in Nodes /\ IsFiniteSet(Packets(m))
           /\ Cardinality(Packets(m)) \in Nat \ {0}
           /\ Times(m) \in Nat /\ (Times(m) = 0 <=> m.body \notin Range(done[m.to]))
           /\ Held(m) \subseteq Packets(m) /\ IsFiniteSet(Held(m))
           /\ Cardinality(Held(m)) \in Nat
           /\ Gone(m) \subseteq Packets(m) /\ IsFiniteSet(Gone(m))
           /\ Cardinality(Gone(m)) \in Nat
           /\ Cardinality(Gone(m)) <= Cardinality(Packets(m))
    /\ IsFiniteSet(posted) /\ Repeats \in [posted -> Int]

LEMMA Countable == SentInv /\ DoneInv => AreCountable
<1> SUFFICES ASSUME SentInv, DoneInv PROVE AreCountable
  OBVIOUS
<1>1. IsFiniteSet(posted)
  BY DEF SentInv
<1>2. ASSUME NEW m \in posted
      PROVE  /\ m \in Messages /\ m.to \in Nodes /\ IsFiniteSet(Packets(m))
             /\ Cardinality(Packets(m)) \in Nat \ {0}
             /\ Times(m) \in Nat /\ (Times(m) = 0 <=> m.body \notin Range(done[m.to]))
             /\ Held(m) \subseteq Packets(m) /\ IsFiniteSet(Held(m))
             /\ Cardinality(Held(m)) \in Nat
             /\ Gone(m) \subseteq Packets(m) /\ IsFiniteSet(Gone(m))
             /\ Cardinality(Gone(m)) \in Nat
             /\ Cardinality(Gone(m)) <= Cardinality(Packets(m))
  <2>1. m \in Messages /\ m.to \in Nodes /\ m.body \in Seq(Entry)
    BY MessageFacts DEF SentInv
  <2>2. done[m.to] \in Seq(Seq(Entry))
    BY <2>1 DEF DoneInv
  <2>3. Times(m) = CountOf(done[m.to], m.body)
    BY DEF Times, CountOf
  <2>4. Times(m) \in Nat /\ (Times(m) = 0 <=> m.body \notin Range(done[m.to]))
    BY <2>1, <2>2, <2>3, CountAppend
  <2>5. Held(m) \in SUBSET Packets(m) /\ Gone(m) \in SUBSET Packets(m)
    BY DEF Held, Gone
  <2>6. QED
    BY <2>1, <2>4, <2>5, PacketsFinite
<1>3. Repeats \in [posted -> Int]
  <2>1. \A m \in posted : Taken(m) - Cardinality(Gone(m)) \in Int
    BY <1>2 DEF Taken
  <2>2. QED
    BY <2>1 DEF Repeats
<1>4. QED
  BY <1>1, <1>2, <1>3 DEF AreCountable

LEMMA CountableNext == SentInv' /\ DoneInv' => AreCountable'
<1>1. QED
  BY Countable, PTL

\* One element more, and two disjoint sets.
LEMMA OneMore ==
  ASSUME NEW S, IsFiniteSet(S), NEW x
  PROVE  /\ Cardinality(S) \in Nat /\ Cardinality(S \cup {x}) \in Nat
         /\ Cardinality(S \cup {x}) <= Cardinality(S) + 1
         /\ x \notin S => Cardinality(S \cup {x}) = Cardinality(S) + 1
<1>1. Cardinality(S) \in Nat
  BY FS_CardinalityType
<1>2. Cardinality(S \cup {x}) = IF x \in S THEN Cardinality(S) ELSE Cardinality(S) + 1
  BY FS_AddElement
<1>3. QED
  BY <1>1, <1>2

LEMMA TwoSets ==
  ASSUME NEW S, IsFiniteSet(S), NEW T, IsFiniteSet(T), S \cap T = {}
  PROVE  /\ IsFiniteSet(S \cup T) /\ Cardinality(S) \in Nat /\ Cardinality(T) \in Nat
         /\ Cardinality(S \cup T) = Cardinality(S) + Cardinality(T)
<1>1. Cardinality(S) \in Nat /\ Cardinality(T) \in Nat /\ Cardinality({}) = 0
  BY FS_CardinalityType, FS_EmptySet
<1>2. /\ IsFiniteSet(S \cup T)
      /\ Cardinality(S \cup T) = Cardinality(S) + Cardinality(T) - Cardinality(S \cap T)
  BY FS_Union
<1>3. Cardinality(S \cap T) = 0
  BY <1>1
<1>4. QED
  BY <1>1, <1>2, <1>3

\* A new message has not been received.
LEMMA SendAccounts ==
  ASSUME TransportInv, NEW n \in Nodes, NEW to \in Nodes, NEW len \in Lengths,
         Send(n, to, len)
  PROVE  Accounts'
<1>1. PICK m \in Messages :
          /\ posted' = posted \cup {m} /\ unsent' = unsent \cup Packets(m)
          /\ (\A x \in posted : ~ (x.from = m.from /\ x.id = m.id))
          /\ SentInv'
  BY SendPosts DEF TransportInv
<1>2. /\ m \notin posted /\ Held(m) = {} /\ m.body \notin Range(done[m.to])
      /\ \A p \in Packets(m) : p \notin unsent \cup wire \cup lost
      /\ \A x \in posted : Packets(x) \cap Packets(m) = {}
  BY <1>1, NewMessage
<1>3. UNCHANGED <<wire, recon, completed, up, done, lost, dups>>
  BY DEF Send
<1>4. DoneInv'
  <2>1. WholeMessages'
    <3>1. WholeMessages
      BY DEF TransportInv, DoneInv
    <3>2. posted \subseteq posted' /\ done' = done
      BY <1>1, <1>3
    <3>3. QED
      BY <3>1, <3>2 DEF WholeMessages
  <2>2. DoneInv
    BY DEF TransportInv
  <2>3. done' = done /\ completed' = completed
    BY <1>3
  <2>4. QED
    BY <2>1, <2>2, <2>3 DEF DoneInv
<1>5. Accounts /\ SentInv /\ DoneInv
  BY DEF TransportInv
<1>6. \A x : Held(x)' = Held(x) /\ Times(x)' = Times(x)
  BY <1>3 DEF Held, Times
<1>7. \A x \in posted : Gone(x)' = Gone(x)
  BY <1>1, <1>2, <1>3 DEF Gone
<1>8. Gone(m)' = {}
  BY <1>1, <1>3 DEF Gone
<1>9. Times(m)' = 0
  <2>1. m \in posted' /\ AreCountable'
    BY <1>1, <1>4, CountableNext
  <2>2. Times(m)' = 0 <=> m.body \notin Range(done'[m.to])
    BY <2>1 DEF AreCountable
  <2>3. QED
    BY <1>2, <1>3, <2>2
<1>10. Extends(posted, Repeats, Repeats', m)
  <2>1. Repeats \in [posted -> Int] /\ IsFiniteSet(posted)
    BY <1>5, Countable DEF AreCountable
  <2>2. Repeats' \in [posted' -> Int] /\ m \in posted'
    BY <1>1, <1>4, CountableNext DEF AreCountable
  <2>3. Repeats'[m] = 0
    <3>6. Taken(m)' = Times(m)' * Cardinality(Packets(m)) + Cardinality(Held(m)')
      BY DEF Taken
    <3>1. Repeats'[m] = Taken(m)' - Cardinality(Gone(m)')
      BY <2>2 DEF Repeats
    <3>2. Cardinality({}) = 0 /\ Cardinality(Packets(m)) \in Nat
      BY FS_EmptySet, PacketsFinite
    <3>3. Held(m)' = {}
      BY <1>2, <1>6
    <3>4. Cardinality(Held(m)') = 0 /\ Cardinality(Gone(m)') = 0
      BY <1>8, <3>2, <3>3, Zenon
    <3>5. QED
      BY <1>9, <3>1, <3>2, <3>4, <3>6
  <2>4. \A x \in posted : Repeats'[x] = Repeats[x]
    <3>1. ASSUME NEW x \in posted PROVE Repeats'[x] = Repeats[x]
      <4>1. Repeats'[x] = Taken(x)' - Cardinality(Gone(x)')
        BY <1>1 DEF Repeats
      <4>2. Taken(x)' = Taken(x)
        BY <1>6 DEF Taken
      <4>3. QED
        BY <1>7, <4>1, <4>2 DEF Repeats
    <3>2. QED
      BY <3>1
  <2>5. QED
    BY <1>1, <1>2, <2>1, <2>2, <2>3, <2>4 DEF Extends
<1>11. SumOver(Repeats)' = SumOver(Repeats)
  <2> DEFINE w == Repeats'
  <2>1. Extends(posted, Repeats, w, m)
    BY <1>10
  <2> HIDE DEF w
  <2>2. SumOver(w) = SumOver(Repeats)
    BY <2>1, SumExtends
  <2>3. QED
    BY <2>2 DEF w
<1>12. unsent' \cap wire' = {} /\ unsent' \cap lost' = {} /\ wire' \cap lost' = {}
  BY <1>1, <1>2, <1>3, <1>5 DEF Accounts
<1>13. ASSUME NEW x \in posted', Times(x)' = 0 PROVE Gone(x)' \subseteq Held(x)'
  <2>1. CASE x = m
    BY <1>8, <2>1
  <2>2. CASE x \in posted
    BY <1>5, <1>6, <1>7, <1>13, <2>2 DEF Accounts
  <2>3. QED
    BY <1>1, <2>1, <2>2
<1>14. QED
  BY <1>3, <1>5, <1>11, <1>12, <1>13 DEF Accounts

\* Where the packets are, apart from the receivers, does not matter.
LEMMA SameAccounts ==
  ASSUME Accounts, UNCHANGED <<posted, done, recon, dups>>,
         unsent' \cup wire' \cup lost' = unsent \cup wire \cup lost,
         unsent' \cap wire' = {}, unsent' \cap lost' = {}, wire' \cap lost' = {}
  PROVE  Accounts'
<1>1. \A x : Held(x)' = Held(x) /\ Times(x)' = Times(x) /\ Gone(x)' = Gone(x)
  BY DEF Held, Times, Gone
<1>2. Repeats' = Repeats
  BY <1>1 DEF Repeats, Taken
<1>3. SumOver(Repeats)' = SumOver(Repeats)
  BY <1>2, Zenon
<1>4. QED
  BY <1>1, <1>3 DEF Accounts

\* What a receipt does to the buffers and to the completed messages.
LEMMA ReceiveHeld ==
  ASSUME TransportInv, NEW p \in wire, NEW copyStays \in BOOLEAN, Receive(p, copyStays)
  PROVE  \E m \in posted :
             /\ p \in Packets(m)
             /\ \A x \in posted : x # m => Held(x)' = Held(x) /\ Times(x)' = Times(x)
             /\ \/ Times(m)' = Times(m) + 1 /\ Held(m)' = {}
                   /\ Packets(m) = Held(m) \cup {p}
                \/ Times(m)' = Times(m) /\ Held(m)' = Held(m) \cup {p}
<1>1. PICK m, b :
          /\ m \in posted /\ m \in Messages /\ p \in Packets(m) /\ Collects(b, m)
          /\ \A q \in Packets(m) : q.seq \in Slots(b) <=> q = p \/ q \in Held(m)
          /\ Completes(m, b) \/ Keeps(m, b)
          /\ \A k \in Nodes \ {m.to} : recon'[k] = recon[k]
  BY ReceiveFills
<1>2. posted \subseteq Messages /\ \A x \in posted : x.from = m.from /\ x.id = m.id => x = m
  BY <1>1 DEF TransportInv, SentInv
<1>3. done \in [Nodes -> Seq(Seq(Entry))] /\ m.to \in Nodes /\ m.body \in Seq(Entry)
  BY <1>1, MessageFacts DEF TransportInv, DoneInv
<1>4. ASSUME NEW x \in posted, x # m PROVE Held(x)' = Held(x)
  <2>1. x.to \in Nodes /\ <<x.from, x.id>> # <<m.from, m.id>>
    BY <1>2, <1>4, MessageFacts
  <2> DEFINE key == <<x.from, x.id>>
  <2>2. /\ key \in DOMAIN recon'[x.to] <=> key \in DOMAIN recon[x.to]
        /\ key \in DOMAIN recon[x.to] => recon'[x.to][key] = recon[x.to][key]
    <3>1. CASE x.to # m.to
      BY <1>1, <2>1, <3>1
    <3>2. CASE x.to = m.to /\ Completes(m, b)
      BY <2>1, <3>2 DEF Completes, Erased
    <3>3. CASE x.to = m.to /\ Keeps(m, b)
      BY <2>1, <3>3 DEF Keeps, Stored
    <3>4. QED
      BY <1>1, <3>1, <3>2, <3>3
  <2>3. QED
    BY <2>2 DEF Held
<1>5. \A x : Times(x) = CountOf(done[x.to], x.body) /\ Times(x)' = CountOf(done'[x.to], x.body)
  BY DEF Times, CountOf
<1>6. CASE Completes(m, b)
  <2>1. b.total = PacketCount(Len(m.body)) /\ Slots(b) = 0..(b.total - 1)
    BY <1>1, <1>6, SlotsBounded DEF Completes
  <2>2. ASSUME NEW q \in Packets(m) PROVE q = p \/ q \in Held(m)
    <3>1. q.seq \in Slots(b)
      BY <1>1, <2>1, PacketFacts
    <3>2. QED
      BY <1>1, <3>1
  <2>3. Packets(m) = Held(m) \cup {p}
    <3>1. Held(m) \subseteq Packets(m)
      BY DEF Held
    <3>2. QED
      BY <1>1, <2>2, <3>1
  <2>4. Held(m)' = {}
    <3>1. <<m.from, m.id>> \notin DOMAIN recon'[m.to]
      BY <1>6 DEF Completes, Erased
    <3>2. QED
      BY <3>1 DEF Held
  <2>5. /\ done'[m.to] = Append(done[m.to], m.body)
        /\ \A k \in Nodes \ {m.to} : done'[k] = done[k]
    BY <1>3, <1>6 DEF Completes
  <2>6. done[m.to] \in Seq(Seq(Entry))
    BY <1>3
  <2>7. Times(m)' = Times(m) + 1
    <3>1. CountOf(Append(done[m.to], m.body), m.body) = CountOf(done[m.to], m.body) + 1
      BY <1>3, <2>6, CountAppend
    <3>2. /\ Times(m) = CountOf(done[m.to], m.body)
          /\ Times(m)' = CountOf(done'[m.to], m.body)
      BY <1>5
    <3>3. QED
      BY <2>5, <3>1, <3>2, Zenon
  <2>8. ASSUME NEW x \in posted, x # m PROVE Times(x)' = Times(x)
    <3>1. x.to \in Nodes /\ x.body # m.body
      BY <1>1, <1>2, <2>8, BodiesDiffer, MessageFacts
    <3>2. CASE x.to = m.to
      <4>1. CountOf(Append(done[m.to], m.body), x.body) = CountOf(done[m.to], x.body)
        BY <1>3, <2>6, <3>1, CountAppend
      <4>2. /\ Times(x) = CountOf(done[x.to], x.body)
            /\ Times(x)' = CountOf(done'[x.to], x.body)
        BY <1>5
      <4>3. done'[x.to] = Append(done[m.to], m.body) /\ done[x.to] = done[m.to]
        BY <2>5, <3>2
      <4>4. QED
        BY <4>1, <4>2, <4>3, Zenon
    <3>3. CASE x.to # m.to
      BY <1>5, <2>5, <3>1, <3>3
    <3>4. QED
      BY <3>2, <3>3
  <2>9. QED
    BY <1>1, <1>4, <2>3, <2>4, <2>7, <2>8
<1>7. CASE Keeps(m, b)
  <2>1. /\ <<m.from, m.id>> \in DOMAIN recon'[m.to]
        /\ recon'[m.to][<<m.from, m.id>>] = b
    BY <1>7 DEF Keeps, Stored
  <2>2. DOMAIN b.packets = 0..(b.total - 1) /\ b.total = PacketCount(Len(m.body))
    BY <1>1, SlotsBounded
  <2>3. \A q \in Packets(m) : b.packets[q.seq] # <<>> <=> q = p \/ q \in Held(m)
    <3>1. \A q \in Packets(m) : q.seq \in DOMAIN b.packets
      BY <1>1, <2>2, PacketFacts
    <3>2. QED
      BY <1>1, <3>1 DEF Slots
  <2>4. Held(m)' = {q \in Packets(m) : b.packets[q.seq] # <<>>}
    BY <2>1 DEF Held
  <2>5. Held(m) \subseteq Packets(m)
    BY DEF Held
  <2>6. Held(m)' = Held(m) \cup {p}
    BY <1>1, <2>3, <2>4, <2>5
  <2>7. done' = done
    BY <1>7 DEF Keeps
  <2>8. \A x : Times(x)' = Times(x)
    BY <1>5, <2>7
  <2>9. QED
    BY <1>1, <1>4, <2>6, <2>8
<1>8. QED
  BY <1>1, <1>6, <1>7

\* A receipt counts once more than before only if a copy stays behind.
LEMMA ReceiveAccounts ==
  ASSUME TransportInv, NEW p \in wire, NEW copyStays \in BOOLEAN, Receive(p, copyStays),
         SentInv', DoneInv'
  PROVE  Accounts'
<1>1. PICK m \in posted :
          /\ p \in Packets(m)
          /\ \A x \in posted : x # m => Held(x)' = Held(x) /\ Times(x)' = Times(x)
          /\ \/ Times(m)' = Times(m) + 1 /\ Held(m)' = {} /\ Packets(m) = Held(m) \cup {p}
             \/ Times(m)' = Times(m) /\ Held(m)' = Held(m) \cup {p}
  BY ReceiveHeld
<1>2. Accounts /\ SentInv /\ DoneInv /\ dups \in Nat
  BY SrdAssumption DEF TransportInv
<1>3. UNCHANGED <<posted, unsent, lost>>
  BY DEF Receive
<1>4. /\ p \notin unsent /\ p \notin lost
      /\ unsent \cap wire = {} /\ unsent \cap lost = {} /\ wire \cap lost = {}
  BY <1>2 DEF Accounts
<1>5. ASSUME NEW x \in posted, x # m PROVE Gone(x)' = Gone(x)
  <2>1. p \notin Packets(x)
    <3>1. m \in Messages /\ x \in Messages
      BY DEF TransportInv, SentInv
    <3>2. ~ (x.from = m.from /\ x.id = m.id)
      BY <1>2, <1>5 DEF SentInv
    <3>3. QED
      BY <1>1, <3>1, <3>2, PacketFacts
  <2>2. wire' = wire \/ wire' = wire \ {p}
    BY DEF Receive
  <2>3. QED
    BY <1>3, <2>1, <2>2 DEF Gone
<1>6. PICK d \in {0, 1} :
          /\ dups' = dups + d
          /\ Gone(m)' = IF d = 1 THEN Gone(m) ELSE Gone(m) \cup {p}
          /\ wire' \subseteq wire
  <2>1. CASE copyStays
    <3>1. dups' = dups + 1 /\ wire' = wire
      BY <2>1 DEF Receive
    <3>2. Gone(m)' = Gone(m)
      BY <1>3, <3>1 DEF Gone
    <3>3. QED
      BY <3>1, <3>2
  <2>2. CASE ~copyStays
    <3>1. dups' = dups /\ wire' = wire \ {p}
      BY <2>2 DEF Receive
    <3>2. Gone(m)' = Gone(m) \cup {p}
      BY <1>1, <1>3, <1>4, <3>1 DEF Gone
    <3>3. dups' = dups + 0
      BY <1>2, <3>1
    <3>4. QED
      BY <3>1, <3>2, <3>3
  <2>3. QED
    BY <2>1, <2>2
<1>7. p \notin Gone(m)
  BY DEF Gone
<1> DEFINE P == Cardinality(Packets(m))
           T == Times(m)
           H == Cardinality(Held(m))
           G == Cardinality(Gone(m))
<1>8. /\ P \in Nat \ {0} /\ T \in Nat /\ H \in Nat /\ G \in Nat
      /\ IsFiniteSet(Held(m)) /\ IsFiniteSet(Gone(m))
      /\ IsFiniteSet(posted) /\ Repeats \in [posted -> Int]
  BY <1>2, Countable DEF AreCountable
<1>9. Repeats' \in [posted -> Int]
  BY <1>3, CountableNext DEF AreCountable
<1>10. Cardinality(Gone(m)') = G + 1 - d
  <2>1. Cardinality(Gone(m) \cup {p}) = G + 1
    BY <1>7, <1>8, OneMore
  <2>2. CASE d = 0
    <3>1. Gone(m)' = Gone(m) \cup {p}
      BY <1>6, <2>2
    <3>2. Cardinality(Gone(m)') = G + 1
      BY <2>1, <3>1, Zenon
    <3>3. QED
      BY <1>8, <2>2, <3>2
  <2>3. CASE d = 1
    <3>1. Gone(m)' = Gone(m)
      BY <1>6, <2>3
    <3>2. Cardinality(Gone(m)') = G
      BY <3>1, Zenon
    <3>3. QED
      BY <1>8, <2>3, <3>2
  <2>4. QED
    BY <1>6, <2>2, <2>3
<1>11. Taken(m)' <= Taken(m) + 1 /\ Taken(m)' \in Int /\ Taken(m) \in Int
  <2>1. Taken(m) = T * P + H /\ T * P \in Int
    BY <1>8 DEF Taken
  <2>2. Taken(m)' = Times(m)' * P + Cardinality(Held(m)')
    BY DEF Taken
  <2>3. Cardinality(Held(m) \cup {p}) \in Nat /\ Cardinality(Held(m) \cup {p}) <= H + 1
    BY <1>8, OneMore
  <2>4. CASE Times(m)' = T + 1 /\ Held(m)' = {} /\ Packets(m) = Held(m) \cup {p}
    <3>1. P <= H + 1
      BY <2>3, <2>4
    <3>2. Cardinality(Held(m)') = 0
      BY <2>4, FS_EmptySet
    <3>3. (T + 1) * P = T * P + P
      BY <1>8
    <3>4. Taken(m)' = T * P + P
      <4>1. Taken(m)' = (T + 1) * P + 0
        BY <2>2, <2>4, <3>2, Zenon
      <4>2. QED
        BY <1>8, <2>1, <3>3, <4>1
    <3> HIDE DEF P, T, H
    <3>5. QED
      BY <1>8, <2>1, <3>1, <3>4
  <2>5. CASE Times(m)' = T /\ Held(m)' = Held(m) \cup {p}
    <3>1. Taken(m)' = T * P + Cardinality(Held(m) \cup {p})
      BY <2>2, <2>5, Zenon
    <3> HIDE DEF P, T, H
    <3>2. QED
      BY <1>8, <2>1, <2>3, <3>1
  <2>6. QED
    BY <1>1, <2>4, <2>5
<1>12. Grows(posted, Repeats, Repeats', m, d)
  <2>1. Repeats[m] = Taken(m) - G /\ Repeats'[m] = Taken(m)' - Cardinality(Gone(m)')
    BY <1>3 DEF Repeats
  <2>2. Repeats'[m] <= Repeats[m] + d
    <3> HIDE DEF G
    <3>1. QED
      BY <1>6, <1>8, <1>10, <1>11, <2>1
  <2>3. \A x \in posted \ {m} : Repeats'[x] = Repeats[x]
    <3>1. ASSUME NEW x \in posted, x # m PROVE Repeats'[x] = Repeats[x]
      <4>1. Taken(x)' = Taken(x)
        BY <1>1, <3>1 DEF Taken
      <4>2. Gone(x)' = Gone(x)
        BY <1>5, <3>1
      <4>3. Repeats'[x] = Taken(x)' - Cardinality(Gone(x)')
        BY <1>3 DEF Repeats
      <4>4. Repeats[x] = Taken(x) - Cardinality(Gone(x))
        BY DEF Repeats
      <4>5. QED
        BY <4>1, <4>2, <4>3, <4>4
    <3>2. QED
      BY <3>1
  <2>4. d \in Int
    BY <1>6
  <2>5. QED
    BY <1>8, <1>9, <2>2, <2>3, <2>4 DEF Grows
<1>13. SumOver(Repeats)' <= dups'
  <2> DEFINE w == Repeats'
  <2>1. Grows(posted, Repeats, w, m, d)
    BY <1>12
  <2>2. w \in [posted -> Int]
    BY <1>9
  <2> HIDE DEF w
  <2>3. SumOver(w) <= SumOver(Repeats) + d
    BY <2>1, SumGrows
  <2>4. SumOver(w) \in Int /\ SumOver(Repeats) \in Int
    BY <1>8, <2>2, SumWithout
  <2>5. SumOver(Repeats) <= dups
    BY <1>2 DEF Accounts
  <2>6. SumOver(w) <= dups + d
    BY <1>2, <1>6, <2>3, <2>4, <2>5
  <2>7. QED
    BY <1>6, <2>6 DEF w
<1>14. unsent' \cap wire' = {} /\ unsent' \cap lost' = {} /\ wire' \cap lost' = {}
  BY <1>3, <1>4, <1>6
<1>15. ASSUME NEW x \in posted', Times(x)' = 0 PROVE Gone(x)' \subseteq Held(x)'
  <2>1. x \in posted
    BY <1>3
  <2>2. CASE x # m
    BY <1>1, <1>2, <1>5, <1>15, <2>1, <2>2 DEF Accounts
  <2>3. CASE x = m
    <3>1. Times(m)' = Times(m) /\ Held(m)' = Held(m) \cup {p}
      BY <1>1, <1>8, <1>15, <2>3
    <3>2. Gone(m) \subseteq Held(m)
      BY <1>2, <1>15, <2>3, <3>1 DEF Accounts
    <3>3. QED
      BY <1>6, <2>3, <3>1, <3>2
  <2>4. QED
    BY <2>2, <2>3
<1>16. QED
  BY <1>13, <1>14, <1>15 DEF Accounts

LEMMA InitTransport == Init => TransportInv
<1> SUFFICES ASSUME Init PROVE TransportInv
  OBVIOUS
<1> USE DEF Init
<1>1. IsFiniteSet(posted) /\ Cardinality(posted) = 0
  BY FS_EmptySet
<1>2. SentInv
  BY <1>1, SrdAssumption DEF SentInv
<1>3. PacketInv
  BY DEF PacketInv
<1>9. Accounts
  <2>1. DOMAIN Repeats = {} /\ Repeats \in [{} -> Int] /\ IsFiniteSet({})
    BY FS_EmptySet DEF Repeats
  <2>2. SumOver(Repeats) = 0
    BY <2>1, PartSums
  <2>3. QED
    BY <2>2 DEF Accounts
<1>4. \A n \in Nodes : DOMAIN recon[n] = {}
  OBVIOUS
<1>5. BufferInv
  BY <1>4 DEF BufferInv
<1>6. DoneInv
  <2>1. <<>> \in Seq(Seq(Entry)) /\ Len(<<>>) = 0
    BY EmptySeq
  <2>2. \A n \in Nodes : done[n] = <<>> /\ completed[n] = <<>>
    OBVIOUS
  <2>3. SubSeq(<<>>, 0 + 1, 0) = <<>>
    BY SubSeqEmpty
  <2>4. done \in [Nodes -> Seq(Seq(Entry))] /\ completed \in [Nodes -> Seq(Seq(Entry))]
    BY <2>1
  <2>5. \A n \in Nodes : \E d \in 0..Len(done[n]) :
            completed[n] = SubSeq(done[n], d + 1, Len(done[n]))
    <3>1. 0 \in 0..Len(<<>>)
      BY <2>1
    <3>2. QED
      BY <2>1, <2>2, <2>3, <3>1
  <2>6. WholeMessages
    BY <2>1, <2>2 DEF WholeMessages
  <2>7. QED
    BY <2>4, <2>5, <2>6 DEF DoneInv
<1>7. up \in [Nodes -> {"running", "deaf", "stopping", "closed"}] /\ dups \in 0..MaxDups
  BY SrdAssumption
<1>8. QED
  BY <1>2, <1>3, <1>5, <1>6, <1>7, <1>9 DEF TransportInv

LEMMA SendInvariant ==
  ASSUME TransportInv, NEW n \in Nodes, NEW to \in Nodes, NEW len \in Lengths,
         Send(n, to, len)
  PROVE  TransportInv'
<1>1. PICK m \in Messages :
          /\ posted' = posted \cup {m} /\ unsent' = unsent \cup Packets(m) /\ SentInv'
  BY SendPosts DEF TransportInv
<1>2. UNCHANGED <<wire, recon, completed, up, done, lost, dups>>
  BY DEF Send
<1>3. PacketInv'
  BY <1>1, <1>2 DEF TransportInv, PacketInv
<1>4. BufferInv'
  BY <1>1, <1>2 DEF TransportInv, BufferInv
<1>5. DoneInv'
  BY <1>1, <1>2 DEF TransportInv, DoneInv, WholeMessages
<1>6. Accounts'
  BY SendAccounts
<1>7. QED
  BY <1>1, <1>2, <1>3, <1>4, <1>5, <1>6 DEF TransportInv

\* Packets are handed on or lost; nothing else changes.
LEMMA MoveInvariant ==
  ASSUME TransportInv, NEW p, Transmit(p) \/ Drop(p)
  PROVE  TransportInv'
<1>1. UNCHANGED <<msgId, recon, completed, up, posted, done, dups>>
  BY DEF Transmit, Drop
<1>2. /\ unsent' \cup wire' \cup lost' = unsent \cup wire \cup lost
      /\ unsent' \cap wire' = {} /\ unsent' \cap lost' = {} /\ wire' \cap lost' = {}
  BY DEF Transmit, Drop, TransportInv, Accounts
<1>3. SentInv' /\ BufferInv' /\ DoneInv'
  BY <1>1 DEF TransportInv, SentInv, BufferInv, DoneInv, WholeMessages
<1>4. PacketInv'
  BY <1>1, <1>2 DEF TransportInv, PacketInv
<1>6. Accounts'
  BY <1>1, <1>2, SameAccounts DEF TransportInv
<1>7. QED
  BY <1>1, <1>3, <1>4, <1>6 DEF TransportInv

LEMMA ReceiveInvariant ==
  ASSUME TransportInv, NEW p \in wire, NEW copyStays \in BOOLEAN, Receive(p, copyStays)
  PROVE  TransportInv'
<1>1. UNCHANGED <<msgId, unsent, posted, lost>> /\ wire' \subseteq wire
  BY DEF Receive
<1>2. SentInv'
  BY <1>1 DEF TransportInv, SentInv
<1>3. PacketInv'
  BY <1>1 DEF TransportInv, PacketInv
<1>8. BufferInv' /\ DoneInv'
  BY ReceiveBuffers, ReceiveDone
<1>4. BufferInv' /\ DoneInv' /\ Accounts'
  BY <1>2, <1>8, ReceiveAccounts
<1>5. up' \in [Nodes -> {"running", "deaf", "stopping", "closed"}]
  BY DEF TransportInv, Receive, Iterated
<1>6. dups' \in 0..MaxDups
  BY SrdAssumption DEF TransportInv, Receive
<1>7. QED
  BY <1>2, <1>3, <1>4, <1>5, <1>6 DEF TransportInv

LEMMA ReceiveAllInvariant ==
  ASSUME TransportInv, NEW n \in Nodes, ReceiveAll(n)
  PROVE  TransportInv'
<1>1. /\ completed' = [completed EXCEPT ![n] = <<>>]
      /\ UNCHANGED <<msgId, unsent, wire, recon, up, posted, done, lost, dups>>
  BY DEF ReceiveAll, history
<1>2. SentInv' /\ PacketInv' /\ BufferInv' /\ Accounts'
  <2>1. Accounts'
    BY <1>1, SameAccounts DEF TransportInv, Accounts
  <2>2. QED
    BY <1>1, <2>1 DEF TransportInv, SentInv, PacketInv, BufferInv
<1>3. DoneInv'
  <2>1. /\ done \in [Nodes -> Seq(Seq(Entry))] /\ completed \in [Nodes -> Seq(Seq(Entry))]
        /\ \A k \in Nodes : \E d \in 0..Len(done[k]) :
               completed[k] = SubSeq(done[k], d + 1, Len(done[k]))
        /\ WholeMessages
    BY DEF TransportInv, DoneInv
  <2>2. completed' \in [Nodes -> Seq(Seq(Entry))]
    BY <1>1, <2>1, EmptySeq
  <2>3. Len(done[n]) \in Nat
    BY <2>1
  <2>4. SubSeq(done[n], Len(done[n]) + 1, Len(done[n])) = <<>>
    BY <2>3, SubSeqEmpty
  <2>5. completed'[n] = <<>> /\ \A k \in Nodes \ {n} : completed'[k] = completed[k]
    BY <1>1, <2>1
  <2>6. Len(done[n]) \in 0..Len(done[n])
    BY <2>3
  <2>7. \A k \in Nodes : \E d \in 0..Len(done[k]) :
            completed'[k] = SubSeq(done[k], d + 1, Len(done[k]))
    BY <2>1, <2>4, <2>5, <2>6
  <2>8. WholeMessages' /\ done' = done
    BY <1>1, <2>1 DEF WholeMessages
  <2>9. QED
    BY <2>1, <2>2, <2>7, <2>8, Zenon DEF DoneInv
<1>4. QED
  BY <1>1, <1>2, <1>3 DEF TransportInv

\* Stopping disturbs nothing but up.
LEMMA StopInvariant ==
  ASSUME TransportInv,
         UNCHANGED <<msgId, unsent, wire, recon, completed, posted, done, lost, dups>>,
         up' \in [Nodes -> {"running", "deaf", "stopping", "closed"}]
  PROVE  TransportInv'
<1>1. SentInv' /\ PacketInv' /\ BufferInv'
  BY DEF TransportInv, SentInv, PacketInv, BufferInv
<1>2. DoneInv'
  BY DEF TransportInv, DoneInv, WholeMessages
<1>4. Accounts'
  BY SameAccounts DEF TransportInv, Accounts
<1>5. QED
  BY <1>1, <1>2, <1>4 DEF TransportInv

LEMMA NextTransport == TransportInv /\ [Next]_vars => TransportInv'
<1> SUFFICES ASSUME TransportInv, [Next]_vars PROVE TransportInv'
  OBVIOUS
<1>1. CASE \E n, to \in Nodes, len \in Lengths : Send(n, to, len)
  BY <1>1, SendInvariant
<1>2. CASE \E p \in unsent : Transmit(p)
  BY <1>2, MoveInvariant
<1>3. CASE \E p \in wire : Drop(p)
  BY <1>3, MoveInvariant
<1>4. CASE \E p \in wire, copyStays \in BOOLEAN : Receive(p, copyStays)
  BY <1>4, ReceiveInvariant
<1>5. CASE \E n \in Nodes : ReceiveAll(n)
  BY <1>5, ReceiveAllInvariant
<1>6. CASE \E n \in Nodes : ReceiverFails(n) \/ Stop(n) \/ ReceiverExit(n)
  <2>1. UNCHANGED <<msgId, unsent, wire, recon, completed, posted, done, lost, dups>>
    BY <1>6 DEF ReceiverFails, Stop, ReceiverExit, history
  <2>2. up' \in [Nodes -> {"running", "deaf", "stopping", "closed"}]
    BY <1>6 DEF TransportInv, ReceiverFails, Stop, ReceiverExit, Iterated
  <2>3. QED
    BY <2>1, <2>2, StopInvariant
<1>7. CASE UNCHANGED vars
  BY <1>7, StopInvariant DEF vars, history, TransportInv
<1>8. QED
  BY <1>1, <1>2, <1>3, <1>4, <1>5, <1>6, <1>7 DEF Next

\* However packets are shuffled, lost and repeated: senders never use an id
\* twice, a buffer only ever collects the packets of the message with its key,
\* and without repeated packets each packet is in one place.
THEOREM TransportCorrect == Spec => []TransportInv
<1>1. QED
  BY InitTransport, NextTransport, PTL DEF Spec

LEMMA TransportTyped == TransportInv => TypeOK
<1> SUFFICES ASSUME TransportInv PROVE TypeOK
  OBVIOUS
<1>1. msgId \in [Nodes -> 0..MaxSends]
  <2>1. Cardinality(posted) \in Nat
    BY FS_CardinalityType DEF TransportInv, SentInv
  <2>2. /\ msgId \in [Nodes -> Nat] /\ Cardinality(posted) <= MaxSends
        /\ \A n \in Nodes : msgId[n] <= Cardinality(posted)
    BY DEF TransportInv, SentInv
  <2>3. \A n \in Nodes : msgId[n] \in 0..MaxSends
    BY <2>1, <2>2, SrdAssumption
  <2>4. QED
    BY <2>2, <2>3
<1>2. ASSUME NEW n \in Nodes, NEW key \in DOMAIN recon[n]
      PROVE  /\ key \in Keys
             /\ recon[n][key].received = Cardinality(Slots(recon[n][key]))
             /\ 0 < recon[n][key].received
             /\ recon[n][key].received < recon[n][key].total
             /\ DOMAIN recon[n][key].packets = 0..(recon[n][key].total - 1)
  <2>1. PICK m \in posted : /\ key = <<m.from, m.id>> /\ Collects(recon[n][key], m)
                            /\ 0 < recon[n][key].received
                            /\ recon[n][key].received < recon[n][key].total
    BY <1>2 DEF TransportInv, BufferInv
  <2>2. m \in Messages
    BY DEF TransportInv, SentInv
  <2>3. key \in Keys
    BY <2>1, <2>2, MessageFacts DEF Keys
  <2>4. QED
    BY <2>1, <2>2, <2>3, SlotsBounded
<1>3. /\ posted \subseteq Messages
      /\ \A p \in unsent \cup wire \cup lost : \E m \in posted : p \in Packets(m)
      /\ \A n \in Nodes : \E d \in 0..Len(done[n]) :
             completed[n] = SubSeq(done[n], d + 1, Len(done[n]))
      /\ up \in [Nodes -> {"running", "deaf", "stopping", "closed"}]
      /\ dups \in 0..MaxDups
  BY DEF TransportInv, SentInv, PacketInv, DoneInv
<1>4. QED
  BY <1>1, <1>2, <1>3 DEF TypeOK

\* The transports keep their types, and a buffer counts the packets it holds
\* and is never kept when it holds them all.
THEOREM TransportTypes == Spec => []TypeOK
<1>1. QED
  BY TransportCorrect, TransportTyped, PTL

\* What a receiver completes is a message sent to it, every entry in its place,
\* for every message length, order of packets, loss and repetition.
THEOREM OnlyWholeMessages == Spec => []WholeMessages
<1>1. TransportInv => WholeMessages
  BY DEF TransportInv, DoneInv
<1>2. QED
  BY <1>1, TransportCorrect, PTL

(* Conservation.                                                             *)

\* No message counts less than what was received of it for the last time, and
\* one that was completed t times had t - 1 copies repeated.
LEMMA RepeatsNatural ==
  ASSUME TransportInv, NEW m \in posted
  PROVE  /\ Repeats[m] \in Int /\ 0 <= Repeats[m]
         /\ Times(m) > 0 => /\ (Times(m) - 1) * Cardinality(Packets(m)) \in Int
                            /\ (Times(m) - 1) * Cardinality(Packets(m)) <= Repeats[m]
<1> DEFINE P == Cardinality(Packets(m))
           T == Times(m)
           H == Cardinality(Held(m))
           G == Cardinality(Gone(m))
<1>1. /\ P \in Nat \ {0} /\ T \in Nat /\ H \in Nat /\ G \in Nat /\ G <= P
      /\ IsFiniteSet(Held(m))
  BY Countable DEF TransportInv, AreCountable
<1>2. Repeats[m] = T * P + H - G
  <2>1. Repeats[m] = Taken(m) - G
    BY DEF Repeats
  <2>2. Taken(m) = T * P + H
    BY DEF Taken
  <2> HIDE DEF P, T, H, G
  <2>3. T * P \in Int
    BY <1>1
  <2> DEFINE x == T * P
  <2>4. x \in Int /\ Taken(m) = x + H
    BY <2>2, <2>3
  <2> HIDE DEF x
  <2>5. Repeats[m] = x + H - G
    BY <1>1, <2>1, <2>4
  <2>6. QED
    BY <2>5 DEF x
<1>3. CASE T = 0
  <2>1. Gone(m) \in SUBSET Held(m)
    BY <1>3 DEF TransportInv, Accounts
  <2>2. G <= H
    BY <1>1, <2>1, FS_Subset
  <2>3. T * P = 0
    BY <1>1, <1>3
  <2> HIDE DEF P, H, G
  <2>4. Repeats[m] = H - G
    BY <1>1, <1>2, <2>3
  <2> HIDE DEF T
  <2>5. QED
    BY <1>1, <1>3, <2>2, <2>4 DEF T
<1>4. CASE T # 0
  <2> DEFINE t == T - 1
  <2>1. t \in Nat /\ T = t + 1 /\ t * P \in Nat /\ T * P = t * P + P
    <3> HIDE DEF P, T, H, G
    <3>1. t \in Nat /\ T = t + 1
      BY <1>1, <1>4
    <3>2. QED
      BY <1>1, <3>1
  <2> DEFINE x == t * P
             y == T * P
  <2>2. x \in Nat /\ y = x + P /\ Repeats[m] = y + H - G
    BY <1>2, <2>1
  <2>3. x = (Times(m) - 1) * Cardinality(Packets(m))
    OBVIOUS
  <2> HIDE DEF P, T, H, G, x, y
  <2>4. Repeats[m] \in Int /\ 0 <= Repeats[m] /\ x <= Repeats[m] /\ x \in Int
    BY <1>1, <2>2
  <2>5. QED
    BY <2>3, <2>4
<1>5. QED
  BY <1>3, <1>4

LEMMA UnrepeatedInOnePlace ==
  ASSUME TransportInv, dups = 0, NEW m \in posted
  PROVE  InOnePlace(m)
<1> DEFINE P == Packets(m)
           T == Times(m)
           H == Held(m)
           G == Gone(m)
<1>1. /\ IsFiniteSet(P) /\ Cardinality(P) \in Nat \ {0} /\ T \in Nat
      /\ H \subseteq P /\ IsFiniteSet(H) /\ Cardinality(H) \in Nat
      /\ G \subseteq P /\ IsFiniteSet(G) /\ Cardinality(G) \in Nat
      /\ Cardinality(G) <= Cardinality(P)
      /\ IsFiniteSet(posted) /\ Repeats \in [posted -> Int]
  BY Countable DEF TransportInv, AreCountable
<1>2. Repeats[m] = 0
  <2>1. \A x \in posted : 0 <= Repeats[x]
    BY RepeatsNatural
  <2>2. Repeats[m] <= SumOver(Repeats)
    BY <1>1, <2>1, SumAtLeast
  <2>3. SumOver(Repeats) <= 0 /\ SumOver(Repeats) \in Int
    BY <1>1, SumWithout DEF TransportInv, Accounts
  <2>4. Repeats[m] \in Int
    BY <1>1
  <2>5. QED
    BY <2>1, <2>2, <2>3, <2>4
<1>3. T * Cardinality(P) + Cardinality(H) = Cardinality(G)
  <2>1. Repeats[m] = Taken(m) - Cardinality(G)
    BY DEF Repeats
  <2>2. Taken(m) = T * Cardinality(P) + Cardinality(H)
    BY DEF Taken
  <2> HIDE DEF P, T, H, G
  <2> DEFINE x == T * Cardinality(P)
  <2>3. x \in Int /\ Taken(m) = x + Cardinality(H)
    BY <1>1, <2>2
  <2> HIDE DEF x
  <2>4. x + Cardinality(H) = Cardinality(G)
    BY <1>1, <1>2, <2>1, <2>3
  <2>5. QED
    BY <2>4 DEF x
<1>4. G = P \ (unsent \cup wire \cup lost)
  BY DEF Gone
<1>5. unsent \cap wire = {} /\ unsent \cap lost = {} /\ wire \cap lost = {}
  BY DEF TransportInv, Accounts
<1>6. CASE T > 0
  <2>1. T = 1 /\ Cardinality(H) = 0 /\ Cardinality(G) = Cardinality(P)
    <3> DEFINE p == Cardinality(P)
               h == Cardinality(H)
               g == Cardinality(G)
               t == T - 1
    <3>1. p \in Nat \ {0} /\ T \in Nat /\ h \in Nat /\ g \in Nat /\ g <= p /\ T * p + h = g
      BY <1>1, <1>3
    <3> HIDE DEF P, T, H, G, p, h, g
    <3>2. t \in Nat /\ T = t + 1
      BY <1>6, <3>1
    <3> HIDE DEF t
    <3>3. T * p = t * p + p /\ t * p \in Nat
      BY <3>1, <3>2
    <3>4. t * p = 0 /\ h = 0 /\ g = p
      BY <3>1, <3>3
    <3>5. t = 0
      <4>1. t # 0 => t * p >= p
        BY <3>1, <3>2
      <4>2. QED
        BY <3>1, <3>4, <4>1
    <3>6. QED
      BY <3>2, <3>4, <3>5 DEF p, h, g
  <2>2. H = {}
    BY <1>1, <2>1, FS_EmptySet
  <2>3. G = P
    BY <1>1, <2>1, FS_Subset
  <2>4. P \cap (unsent \cup wire \cup lost \cup H) = {}
    BY <1>4, <2>2, <2>3
  <2>5. QED
    BY <1>6, <2>1, <2>4 DEF InOnePlace
<1>7. CASE T = 0
  <2>1. G \subseteq H
    BY <1>7 DEF TransportInv, Accounts
  <2>2. Cardinality(H) = Cardinality(G)
    BY <1>1, <1>3, <1>7
  <2>3. G = H
    BY <1>1, <2>1, <2>2, FS_Subset
  <2>4. P \subseteq unsent \cup wire \cup lost \cup H
    BY <1>4, <2>3
  <2> DEFINE U == P \cap unsent
             V == P \cap wire
             L == P \cap lost
  <2>5. /\ U \cap V = {} /\ (U \cup V) \cap L = {} /\ (U \cup V \cup L) \cap H = {}
        /\ U \cup V \cup L \cup H = P
    BY <1>1, <1>4, <1>5, <2>3, <2>4
  <2>6. IsFiniteSet(U) /\ IsFiniteSet(V) /\ IsFiniteSet(L)
    BY <1>1, FS_Subset
  <2> HIDE DEF U, V, L, P, H, G
  <2>7. /\ IsFiniteSet(U \cup V) /\ Cardinality(U \cup V) = Cardinality(U) + Cardinality(V)
        /\ Cardinality(U) \in Nat /\ Cardinality(V) \in Nat
    BY <2>5, <2>6, TwoSets
  <2>8. /\ IsFiniteSet(U \cup V \cup L) /\ Cardinality(L) \in Nat
        /\ Cardinality(U \cup V \cup L) = Cardinality(U \cup V) + Cardinality(L)
    BY <2>5, <2>6, <2>7, TwoSets
  <2>9. Cardinality(P) = Cardinality(U) + Cardinality(V) + Cardinality(L) + Cardinality(H)
    <3>1. Cardinality(U \cup V \cup L \cup H) = Cardinality(U \cup V \cup L) + Cardinality(H)
      BY <1>1, <2>5, <2>8, TwoSets
    <3>2. Cardinality(P) = Cardinality(U \cup V \cup L) + Cardinality(H)
      BY <2>5, <3>1, Zenon
    <3>3. QED
      BY <1>1, <2>7, <2>8, <3>2
  <2>10. QED
    BY <1>7, <2>4, <2>9 DEF InOnePlace, P, U, V, L, H
<1>8. QED
  BY <1>1, <1>6, <1>7

LEMMA AccountsConserve == TransportInv => PacketsConserved
<1> SUFFICES ASSUME TransportInv PROVE PacketsConserved
  OBVIOUS
<1> DEFINE D == {x \in posted : Times(x) > 0}
           v == [m \in D |-> (Times(m) - 1) * Cardinality(Packets(m))]
<1>1. IsFiniteSet(posted) /\ Repeats \in [posted -> Int] /\ dups \in Nat
  BY Countable, SrdAssumption DEF TransportInv, AreCountable
<1>2. \A m \in posted : 0 <= Repeats[m]
  BY RepeatsNatural
<1>3. D \in SUBSET posted /\ \A m \in D : v[m] \in Int /\ v[m] <= Repeats[m]
  BY RepeatsNatural
<1>4. v \in [D -> Int]
  BY <1>3
<1>5. SumOver(Repeats) <= dups
  BY DEF TransportInv, Accounts
<1>6. PacketsConserved <=> (dups = 0 => \A m \in posted : InOnePlace(m)) /\ SumOver(v) <= dups
  BY DEF PacketsConserved
<1> HIDE DEF D, v
<1>7. SumOver(v) <= SumOver(Repeats)
  BY <1>1, <1>2, <1>3, <1>4, SumOfPart
<1>8. SumOver(v) \in Int /\ SumOver(Repeats) \in Int
  <2>1. IsFiniteSet(D)
    BY <1>1, <1>3, FS_Subset
  <2>2. PartSum(v, D) \in Int /\ SumOver(v) = PartSum(v, D)
    BY <1>4, <2>1, PartSums
  <2>3. PartSum(Repeats, posted) \in Int /\ SumOver(Repeats) = PartSum(Repeats, posted)
    BY <1>1, PartSums
  <2>4. QED
    BY <2>2, <2>3
<1>9. SumOver(v) <= dups
  BY <1>1, <1>5, <1>7, <1>8
<1>10. QED
  BY <1>6, <1>9, UnrepeatedInOnePlace

\* Without repetitions a packet is in one place: unsent, on the wire, lost, in a
\* buffer, or part of a message completed once; and a message completes again
\* only if the network repeats each of its packets, for any number of losses.
THEOREM PacketsAreConserved == Spec => []PacketsConserved
<1>1. QED
  BY TransportCorrect, AccountsConserve, PTL

(* The channel.  What has arrived and what waits, in terms of the bodies.    *)

Arrived == {m \in posted : m.body \in Range(done[m.to])}
Waiting(n) == {m \in posted : m.to = n /\ m.body \in Range(completed[n])}
ChannelShown ==
    /\ {m \in posted : Times(m) > 0} = Arrived
    /\ [n \in Nodes |-> Recognised(n)] = [n \in Nodes |-> Waiting(n)]

LEMMA CompletedAreDone ==
  ASSUME TransportInv, NEW n \in Nodes
  PROVE  Range(completed[n]) \subseteq Range(done[n])
<1>1. /\ done[n] \in Seq(Seq(Entry)) /\ completed[n] \in Seq(Seq(Entry))
      /\ \E d \in 0..Len(done[n]) : completed[n] = SubSeq(done[n], d + 1, Len(done[n]))
  BY DEF TransportInv, DoneInv
<1>2. PICK d \in 0..Len(done[n]) : completed[n] = SubSeq(done[n], d + 1, Len(done[n]))
  BY <1>1
<1> DEFINE s == done[n]
           t == completed[n]
           L == Len(s)
<1>3. L \in Nat /\ d \in Nat /\ d <= L
  BY <1>1
<1>4. \A i \in (d + 1)..L : i \in 1..L /\ s[i] \in Seq(Entry)
  <2>1. \A i \in (d + 1)..L : i \in 1..L
    BY <1>3
  <2>2. QED
    BY <1>1, <2>1, ElementOfSeq
<1> HIDE DEF s, t
<1>5. /\ Len(t) = IF d + 1 <= L THEN L - (d + 1) + 1 ELSE 0
      /\ \A i \in 1..(L - (d + 1) + 1) : t[i] = s[d + 1 + i - 1]
  <2>1. d + 1 \in Int /\ L \in Int
    BY <1>3
  <2>2. t = SubSeq(s, d + 1, L)
    BY <1>2 DEF s, t
  <2>3. QED
    BY <1>4, <2>1, <2>2, SubSeqProperties
<1>6. ASSUME NEW e \in Range(t) PROVE e \in Range(s)
  <2>1. t \in Seq(Seq(Entry)) /\ s \in Seq(Seq(Entry))
    BY <1>1 DEF s, t
  <2>2. PICK i \in 1..Len(t) : t[i] = e
    BY <1>6, <2>1, InRange
  <2>3. i \in 1..(L - (d + 1) + 1) /\ d + 1 + i - 1 \in 1..L
    BY <1>3, <1>5, <2>2
  <2>4. s[d + 1 + i - 1] = e
    BY <1>5, <2>2, <2>3
  <2>5. QED
    BY <2>1, <2>3, <2>4, InRange
<1>7. QED
  BY <1>6 DEF s, t

LEMMA ChannelState == TransportInv => ChannelShown
<1> SUFFICES ASSUME TransportInv PROVE ChannelShown
  OBVIOUS
<1>1. \A n \in Nodes : done[n] \in Seq(Seq(Entry)) /\ completed[n] \in Seq(Seq(Entry))
  BY DEF TransportInv, DoneInv
<1>2. ASSUME NEW m \in posted PROVE Times(m) > 0 <=> m.body \in Range(done[m.to])
  <2>1. m.to \in Nodes
    BY MessageFacts DEF TransportInv, SentInv
  <2> DEFINE L == Len(done[m.to])
             I == {i \in 1..L : done[m.to][i] = m.body}
  <2>2. L \in Nat
    BY <1>1, <2>1
  <2>3. IsFiniteSet(1..L)
    BY <2>2, FS_Interval
  <2>4. IsFiniteSet(I)
    BY <2>3, FS_Subset
  <2>5. Cardinality(I) \in Nat /\ (Cardinality(I) = 0 <=> I = {})
    BY <2>4, FS_CardinalityType, FS_EmptySet
  <2>6. m.body \in Range(done[m.to]) <=> I # {}
    <3>1. m.body \in Range(done[m.to]) <=> \E i \in 1..L : done[m.to][i] = m.body
      BY <1>1, <2>1, InRange
    <3>2. QED
      BY <3>1
  <2>7. Times(m) = Cardinality(I)
    BY DEF Times
  <2> HIDE DEF I
  <2>8. QED
    BY <2>5, <2>6, <2>7
<1>3. ASSUME NEW n \in Nodes PROVE Recognised(n) = Waiting(n)
  <2>1. ASSUME NEW body \in Range(completed[n])
        PROVE  \E m \in posted : m.to = n /\ m.body = body
    <3>1. PICK i \in 1..Len(done[n]) : done[n][i] = body
      BY <1>1, <2>1, CompletedAreDone, InRange
    <3>2. QED
      BY <3>1 DEF TransportInv, DoneInv, WholeMessages
  <2>2. Range(completed[n]) \ {m.body : m \in {x \in posted : x.to = n}} = {}
    BY <2>1
  <2>3. QED
    BY <2>2 DEF Recognised, Waiting
<1>4. QED
  BY <1>2, <1>3 DEF Arrived, ChannelShown

LEMMA SendPostsOne ==
  ASSUME TransportInv, TransportInv', NEW n \in Nodes, NEW to \in Nodes, NEW len \in Lengths,
         Send(n, to, len)
  PROVE  \E m \in Messages :
             /\ m \notin posted /\ m.to \in Nodes /\ posted' = posted \cup {m}
             /\ Arrived' = Arrived
             /\ \A k \in Nodes : Waiting(k)' = Waiting(k)
<1>1. PICK m \in Messages :
          /\ posted' = posted \cup {m}
          /\ \A x \in posted : ~ (x.from = m.from /\ x.id = m.id)
  BY SendPosts DEF TransportInv
<1>2. m \notin posted /\ m.body \notin Range(done[m.to])
  BY <1>1, NewMessage
<1>3. m.to \in Nodes
  BY MessageFacts
<1>4. m.body \notin Range(completed[m.to])
  BY <1>2, <1>3, CompletedAreDone
<1>5. done' = done /\ completed' = completed
  BY DEF Send
<1>6. Arrived' = Arrived /\ \A k \in Nodes : Waiting(k)' = Waiting(k)
  BY <1>1, <1>2, <1>4, <1>5 DEF Arrived, Waiting
<1>7. QED
  BY <1>1, <1>2, <1>3, <1>6

LEMMA ReceiveDelivers ==
  ASSUME TransportInv, NEW p \in wire, NEW copyStays \in BOOLEAN, Receive(p, copyStays),
         dups' = 0
  PROVE  \/ /\ Arrived' = Arrived
            /\ \A k \in Nodes : Waiting(k)' = Waiting(k)
         \/ \E m \in posted \ Arrived :
               /\ m.to \in Nodes /\ Arrived' = Arrived \cup {m}
               /\ Waiting(m.to)' = Waiting(m.to) \cup {m}
               /\ \A k \in Nodes \ {m.to} : Waiting(k)' = Waiting(k)
<1>1. PICK m, b :
          /\ m \in posted /\ m \in Messages /\ p \in Packets(m)
          /\ Completes(m, b) \/ Keeps(m, b)
  BY ReceiveFills
<1>2. dups = 0 /\ posted' = posted
  BY SrdAssumption DEF TransportInv, Receive
<1>3. CASE Keeps(m, b)
  BY <1>2, <1>3 DEF Keeps, Arrived, Waiting
<1>4. CASE Completes(m, b)
  <2>1. m.to \in Nodes /\ m.body \in Seq(Entry)
    BY <1>1, MessageFacts
  <2>2. m \notin Arrived
    <3>1. InOnePlace(m) /\ Times(m) \in Nat /\ (Times(m) = 0 <=> m \notin Arrived)
      BY <1>1, <1>2, UnrepeatedInOnePlace, Countable DEF TransportInv, AreCountable, Arrived
    <3>2. QED
      BY <1>1, <3>1 DEF InOnePlace
  <2>3. /\ done \in [Nodes -> Seq(Seq(Entry))] /\ completed \in [Nodes -> Seq(Seq(Entry))]
        /\ done' = [done EXCEPT ![m.to] = Append(@, m.body)]
        /\ completed' = [completed EXCEPT ![m.to] = Append(@, m.body)]
    BY <1>4 DEF TransportInv, DoneInv, Completes
  <2>4. /\ done'[m.to] = Append(done[m.to], m.body)
        /\ completed'[m.to] = Append(completed[m.to], m.body)
        /\ \A k \in Nodes \ {m.to} : done'[k] = done[k] /\ completed'[k] = completed[k]
    BY <2>1, <2>3
  <2>5. /\ Range(done'[m.to]) = Range(done[m.to]) \cup {m.body}
        /\ Range(completed'[m.to]) = Range(completed[m.to]) \cup {m.body}
    BY <2>1, <2>3, <2>4, RangeOfAppend
  <2>6. \A x \in posted : x.to \in Nodes /\ (x.body = m.body => x = m)
    BY <1>1, MessageFacts, BodiesDiffer DEF TransportInv, SentInv
  <2>7. Arrived' = Arrived \cup {m}
    <3>1. \A x \in posted : x.body \in Range(done'[x.to]) <=> x.body \in Range(done[x.to]) \/ x = m
      BY <2>4, <2>5, <2>6
    <3>2. QED
      BY <1>1, <1>2, <3>1 DEF Arrived
  <2>8. Waiting(m.to)' = Waiting(m.to) \cup {m}
    BY <1>1, <1>2, <2>5, <2>6 DEF Waiting
  <2>9. \A k \in Nodes \ {m.to} : Waiting(k)' = Waiting(k)
    BY <1>2, <2>4 DEF Waiting
  <2>10. QED
    BY <1>1, <2>1, <2>2, <2>7, <2>8, <2>9
<1>5. QED
  BY <1>1, <1>3, <1>4
LEMMA StepsOfChannel ==
  ASSUME TransportInv, TransportInv', [Next]_vars
  PROVE  [ dups' = 0 =>
             \/ \E m \in Messages : Channel!Post({m}) \/ Channel!Deliver(m)
             \/ \E n \in Nodes : Channel!Collect(n)
             \/ UNCHANGED Channel!vars ]_vars
<1> SUFFICES ASSUME dups' = 0, Next
             PROVE  \/ \E m \in Messages : Channel!Post({m}) \/ Channel!Deliver(m)
                    \/ \E n \in Nodes : Channel!Collect(n)
                    \/ UNCHANGED Channel!vars
  OBVIOUS
<1> DEFINE arrived == {m \in posted : Times(m) > 0}
           waits == [n \in Nodes |-> Recognised(n)]
<1>1. arrived = Arrived /\ waits = [n \in Nodes |-> Waiting(n)]
  BY ChannelState DEF ChannelShown
<1>2. arrived' = Arrived' /\ waits' = [n \in Nodes |-> Waiting(n)]'
  <2>1. TransportInv' => ChannelShown'
    BY ChannelState, PTL
  <2>2. QED
    BY <2>1 DEF ChannelShown
<1>3. /\ \A m : Channel!Post({m}) <=>
             /\ {m} \cap posted = {} /\ \A x \in {m} : x.to \in Nodes
             /\ posted' = posted \cup {m} /\ arrived' = arrived /\ waits' = waits
      /\ \A m : Channel!Deliver(m) <=>
             /\ m \in posted \ arrived /\ arrived' = arrived \cup {m}
             /\ waits' = [waits EXCEPT ![m.to] = @ \cup {m}] /\ posted' = posted
      /\ \A n : Channel!Collect(n) <=>
             /\ waits' = [waits EXCEPT ![n] = {}] /\ posted' = posted /\ arrived' = arrived
      /\ UNCHANGED Channel!vars <=>
             posted' = posted /\ arrived' = arrived /\ waits' = waits
  BY DEF Channel!Post, Channel!Deliver, Channel!Collect, Channel!vars
<1> HIDE DEF arrived, waits
<1>4. posted \subseteq Messages
  BY DEF TransportInv, SentInv
<1>5. ASSUME NEW n \in Nodes, NEW to \in Nodes, NEW len \in Lengths, Send(n, to, len)
      PROVE  \E m \in Messages : Channel!Post({m})
  BY <1>1, <1>2, <1>3, <1>5, SendPostsOne
<1>6. ASSUME UNCHANGED <<posted, done, completed>> PROVE UNCHANGED Channel!vars
  BY <1>1, <1>2, <1>3, <1>6 DEF Arrived, Waiting
<1>7. ASSUME NEW p \in wire, NEW copyStays \in BOOLEAN, Receive(p, copyStays)
      PROVE  (\E m \in Messages : Channel!Deliver(m)) \/ UNCHANGED Channel!vars
  <2>1. posted' = posted
    BY <1>7 DEF Receive
  <2>2. CASE Arrived' = Arrived /\ \A k \in Nodes : Waiting(k)' = Waiting(k)
    BY <1>1, <1>2, <1>3, <2>1, <2>2
  <2>3. ASSUME NEW m \in posted \ Arrived, m.to \in Nodes, Arrived' = Arrived \cup {m},
               Waiting(m.to)' = Waiting(m.to) \cup {m},
               \A k \in Nodes \ {m.to} : Waiting(k)' = Waiting(k)
        PROVE  Channel!Deliver(m)
    <3>1. waits' = [waits EXCEPT ![m.to] = @ \cup {m}]
      BY <1>1, <1>2, <2>3
    <3>2. QED
      BY <1>1, <1>2, <1>3, <2>1, <2>3, <3>1
  <2>4. QED
    BY <1>4, <1>7, <2>2, <2>3, ReceiveDelivers
<1>8. ASSUME NEW n \in Nodes, ReceiveAll(n) PROVE Channel!Collect(n)
  <2>1. /\ completed' = [completed EXCEPT ![n] = <<>>] /\ UNCHANGED <<posted, done>>
    BY <1>8 DEF ReceiveAll, history
  <2>2. completed \in [Nodes -> Seq(Seq(Entry))]
    BY DEF TransportInv, DoneInv
  <2>3. completed'[n] = <<>> /\ \A k \in Nodes \ {n} : completed'[k] = completed[k]
    BY <2>1, <2>2
  <2>4. Range(<<>>) = {}
    BY DEF Range
  <2>5. /\ Waiting(n)' = {} /\ \A k \in Nodes \ {n} : Waiting(k)' = Waiting(k)
        /\ Arrived' = Arrived
    BY <2>1, <2>3, <2>4 DEF Waiting, Arrived
  <2>6. waits' = [waits EXCEPT ![n] = {}]
    BY <1>1, <1>2, <2>5
  <2>7. QED
    BY <1>1, <1>2, <1>3, <2>1, <2>5, <2>6
<1>9. CASE \E n, to \in Nodes, len \in Lengths : Send(n, to, len)
  BY <1>5, <1>9
<1>10. CASE \/ \E p \in unsent : Transmit(p)
            \/ \E p \in wire : Drop(p)
            \/ \E n \in Nodes : ReceiverFails(n) \/ Stop(n) \/ ReceiverExit(n)
  <2>1. UNCHANGED <<posted, done, completed>>
    BY <1>10 DEF Transmit, Drop, ReceiverFails, Stop, ReceiverExit, history
  <2>2. QED
    BY <1>6, <2>1
<1>11. CASE \E p \in wire, copyStays \in BOOLEAN : Receive(p, copyStays)
  BY <1>7, <1>11
<1>12. CASE \E n \in Nodes : ReceiveAll(n)
  BY <1>8, <1>12
<1>13. QED
  BY <1>9, <1>10, <1>11, <1>12 DEF Next

\* As long as the network repeats no packet, the transports are the channel
\* that the shuffle join relies on: a message is delivered at most once, to the
\* node it was sent to, and waits there until it is collected.
THEOREM TransportsImplementChannel == Spec => ImplementsChannel
<1>1. TransportInv /\ TransportInv' /\ [Next]_vars =>
          [ dups' = 0 =>
             \/ \E m \in Messages : Channel!Post({m}) \/ Channel!Deliver(m)
             \/ \E n \in Nodes : Channel!Collect(n)
             \/ UNCHANGED Channel!vars ]_vars
  BY StepsOfChannel
<1>2. QED
  BY <1>1, TransportCorrect, PTL DEF Spec, ImplementsChannel
=============================================================================
