---------------------------- MODULE SrdTransport ----------------------------
(***************************************************************************)
(* The SrdTransports of a cluster: datagram sockets over which a shuffle   *)
(* message travels as several packets, in an order the sender shuffles,    *)
(* and is put together again by the receiver's thread.                     *)
(*                                                                         *)
(* The network may reorder, and within the constants below lose and        *)
(* duplicate, packets; nothing in the code sends one again.  The entries   *)
(* of message k of node n are the triples <<n, k, i>>, so that a           *)
(* reassembled message shows what it was made of.                          *)
(*                                                                         *)
(* A message id is a 32-bit counter per sender; the model stays below the  *)
(* 2^32 sends after which an id is used again (MaxSends).                  *)
(***************************************************************************)
EXTENDS Integers, Sequences, FiniteSets, SequencesExt, Sums

CONSTANTS
    Nodes,       \* one transport per cluster node
    PerPacket,   \* entries_per_packet
    Lengths,     \* numbers of entries a message may have
    MaxSends,    \* bound: messages sent altogether
    MaxDups,     \* bound: packets the network delivers twice
    MaxLost,     \* bound: packets the network loses
    MayStop      \* the nodes whose transport may be stopped

ASSUME SrdAssumption ==
    /\ PerPacket \in Nat \ {0}
    /\ Lengths \subseteq Nat \ {0}      \* Send returns at once for no entries
    /\ MaxSends \in Nat
    /\ MaxDups \in Nat
    /\ MaxLost \in Nat
    /\ MayStop \subseteq Nodes

VARIABLES
    msgId,       \* node -> messages sent, next_msg_id_ - 1
    unsent,      \* packets of a running Send not handed to sendto yet
    wire,        \* packets in the network or in a socket's queue
    recon,       \* node -> recon_buffers_, a partial function of keys
    completed,   \* node -> completed_messages_
    up           \* node -> "running", "stopping", "closed", or "deaf": its
                 \* receiver's thread has ended, its socket is still open

\* History, not part of the code.
VARIABLES
    posted,      \* the messages sent
    done,        \* node -> every message its receiver completed
    lost,        \* packets that will never be received
    dups         \* packets received while a copy stayed on the wire

history == <<posted, done, lost, dups>>
vars == <<msgId, unsent, wire, recon, completed, up, history>>

Keys == Nodes \X (1..MaxSends)           \* (sender_node_id << 32) | msg_id

Entries(n, k, len) == [i \in 1..len |-> <<n, k, i>>]
Message(n, k, to, len) == [from |-> n, id |-> k, to |-> to,
                           body |-> Entries(n, k, len)]
Messages == {Message(n, k, to, len) : n \in Nodes, k \in 1..MaxSends,
                                      to \in Nodes, len \in Lengths}

-----------------------------------------------------------------------------
(* Sending *)

PacketCount(len) == (len + PerPacket - 1) \div PerPacket

\* The payload of packet p: the entries [start_idx, end_idx).
Payload(body, p) ==
    LET last == (p + 1) * PerPacket
    IN  SubSeq(body, p * PerPacket + 1,
               IF last < Len(body) THEN last ELSE Len(body))

Packets(m) ==
    LET total == PacketCount(Len(m.body))
    IN  {[to |-> m.to, from |-> m.from, id |-> m.id, seq |-> p,
          total |-> total, payload |-> Payload(m.body, p)] : p \in 0..(total - 1)}

\* Send up to its loop; nothing happens on a closed socket.
Send(n, to, len) ==
    /\ up[n] # "closed"
    /\ Cardinality(posted) < MaxSends
    /\ LET m == Message(n, msgId[n] + 1, to, len)
       IN  /\ unsent' = unsent \cup Packets(m)
           /\ posted' = posted \cup {m}
    /\ msgId' = [msgId EXCEPT ![n] = @ + 1]
    /\ UNCHANGED <<wire, recon, completed, up, done, lost, dups>>

\* One turn of Send's loop, in the shuffled order: any packet may be next.
\* A sendto that fails is ignored.
Transmit(p) ==
    /\ p \in unsent
    /\ unsent' = unsent \ {p}
    /\ \/ up[p.from] # "closed" /\ wire' = wire \cup {p} /\ UNCHANGED lost
       \/ /\ up[p.from] = "closed" \/ Cardinality(lost) < MaxLost
          /\ lost' = lost \cup {p} /\ UNCHANGED wire
    /\ UNCHANGED <<msgId, recon, completed, up, posted, done, dups>>

\* The network drops a packet; always, when the socket it is for is closed.
Drop(p) ==
    /\ p \in wire
    /\ up[p.to] = "closed" \/ Cardinality(lost) < MaxLost
    /\ wire' = wire \ {p}
    /\ lost' = lost \cup {p}
    /\ UNCHANGED <<msgId, unsent, recon, completed, up, posted, done, dups>>

-----------------------------------------------------------------------------
(* Receiving *)

EmptyBufferCounted(p) ==                               \* mutant of EmptyBuffer
    [total |-> p.total, received |-> 1, packets |-> [s \in 0..(p.total - 1) |-> <<>>]]

EmptyBuffer(p) == [total |-> p.total, received |-> 0,
                   packets |-> [s \in 0..(p.total - 1) |-> <<>>]]

KeyOf(p) == <<p.from, p.id>>

Buffer(n, p) ==
    IF KeyOf(p) \in DOMAIN recon[n] THEN recon[n][KeyOf(p)] ELSE EmptyBuffer(p)

\* What the buffer becomes: a packet already there is ignored.
PutOffByOne(b, p) ==                                           \* mutant of Put
    IF p.seq + 1 < b.total /\ b.packets[p.seq] = <<>>
    THEN [b EXCEPT !.packets[p.seq] = p.payload, !.received = @ + 1]
    ELSE b

Put(b, p) ==
    IF p.seq < b.total /\ b.packets[p.seq] = <<>>
    THEN [b EXCEPT !.packets[p.seq] = p.payload, !.received = @ + 1]
    ELSE b

AssembleAsReceived(b) ==                                  \* mutant of Assemble
    FlattenSeq([i \in 1..b.total |-> b.packets[b.total - i]])

Assemble(b) == FlattenSeq([i \in 1..b.total |-> b.packets[i - 1]])

\* recon_buffers_ with buffer b stored under key, or without the key.
Stored(n, key, b) ==
    [k \in DOMAIN recon[n] \cup {key} |-> IF k = key THEN b ELSE recon[n][k]]
ErasedNot(n, key) == recon[n]                               \* mutant of Erased
Erased(n, key) == [k \in DOMAIN recon[n] \ {key} |-> recon[n][k]]

\* After an iteration the loop tests running_ again.
Iterated(n) ==
    up' = [up EXCEPT ![n] = IF @ = "stopping" THEN "closed" ELSE @]

\* One iteration of ReceiverLoop that received packet p.
Receive(p, copyStays) ==
    LET n == p.to
        b == Put(Buffer(n, p), p)
        whole == b.received = b.total
    IN  /\ p \in wire
        /\ up[n] \in {"running", "stopping"}
        /\ IF copyStays
           THEN dups < MaxDups /\ dups' = dups + 1 /\ UNCHANGED wire
           ELSE wire' = wire \ {p} /\ UNCHANGED dups
        /\ recon' = [recon EXCEPT ![n] =
               IF whole THEN Erased(n, KeyOf(p)) ELSE Stored(n, KeyOf(p), b)]
        /\ completed' = [completed EXCEPT ![n] =
               IF whole THEN Append(@, Assemble(b)) ELSE @]
        /\ done' = [done EXCEPT ![n] =
               IF whole THEN Append(@, Assemble(b)) ELSE @]
        /\ Iterated(n)
        /\ UNCHANGED <<msgId, unsent, posted, lost>>

ReceiveAll(n) ==
    /\ completed[n] # <<>>
    /\ completed' = [completed EXCEPT ![n] = <<>>]
    /\ UNCHANGED <<msgId, unsent, wire, recon, up, history>>

-----------------------------------------------------------------------------
(* Stopping *)

\* recvfrom fails with anything but a timeout, an interrupting signal included:
\* the thread ends, and what is sent to the node stays in its socket's queue.
ReceiverFails(n) ==
    /\ up[n] = "running"
    /\ up' = [up EXCEPT ![n] = "deaf"]
    /\ UNCHANGED <<msgId, unsent, wire, recon, completed, history>>

\* Stop up to the join: the receiver may be inside recvfrom, and a thread that
\* has ended is joined at once.
Stop(n) ==
    /\ n \in MayStop
    /\ up[n] \in {"running", "deaf"}
    /\ up' = [up EXCEPT ![n] = IF @ = "deaf" THEN "closed" ELSE "stopping"]
    /\ UNCHANGED <<msgId, unsent, wire, recon, completed, history>>

\* recvfrom times out, the loop ends, Stop joins the thread and closes.
ReceiverExit(n) ==
    /\ up[n] = "stopping"
    /\ Iterated(n)
    /\ UNCHANGED <<msgId, unsent, wire, recon, completed, history>>

-----------------------------------------------------------------------------
Init ==
    /\ msgId = [n \in Nodes |-> 0]
    /\ unsent = {} /\ wire = {}
    /\ recon = [n \in Nodes |-> <<>>]
    /\ completed = [n \in Nodes |-> <<>>]
    /\ up = [n \in Nodes |-> "running"]
    /\ posted = {} /\ lost = {} /\ dups = 0
    /\ done = [n \in Nodes |-> <<>>]

Next ==
    \/ \E n, to \in Nodes, len \in Lengths : Send(n, to, len)
    \/ \E p \in unsent : Transmit(p)
    \/ \E p \in wire : Drop(p) \/ \E copyStays \in BOOLEAN : Receive(p, copyStays)
    \/ \E n \in Nodes : ReceiveAll(n) \/ ReceiverFails(n) \/ Stop(n) \/ ReceiverExit(n)

Spec == Init /\ [][Next]_vars

\* Send's loop goes on; a packet the network holds is handed to a receiver
\* that waits for it.  The callers need not send, collect or stop, and
\* recvfrom need not fail.
Fairness ==
    /\ WF_vars(\E p \in unsent : Transmit(p))
    /\ WF_vars(\E p \in wire : Receive(p, FALSE))

FairSpec == Spec /\ Fairness

-----------------------------------------------------------------------------
(* Properties *)

Slots(b) == {s \in DOMAIN b.packets : b.packets[s] # <<>>}

\* The variables keep their types, and a buffer counts the packets it holds
\* and is never kept when it holds them all.
TypeOK ==
    /\ msgId \in [Nodes -> 0..MaxSends]
    /\ posted \subseteq Messages
    /\ \A p \in unsent \cup wire \cup lost : \E m \in posted : p \in Packets(m)
    /\ \A n \in Nodes : \A key \in DOMAIN recon[n] :
           /\ key \in Keys
           /\ LET b == recon[n][key]
              IN  /\ b.received = Cardinality(Slots(b))
                  /\ 0 < b.received /\ b.received < b.total
                  /\ DOMAIN b.packets = 0..(b.total - 1)
    /\ \A n \in Nodes : \E d \in 0..Len(done[n]) :
           completed[n] = SubSeq(done[n], d + 1, Len(done[n]))
    /\ up \in [Nodes -> {"running", "deaf", "stopping", "closed"}]
    /\ dups \in 0..MaxDups

\* What the receiver completes is one of the messages sent to it, every
\* entry in its place, whatever the order, the losses and the duplicates.
WholeMessages ==
    \A n \in Nodes : \A i \in 1..Len(done[n]) :
        \E m \in posted : m.to = n /\ m.body = done[n][i]

Times(m) == Cardinality({i \in 1..Len(done[m.to]) : done[m.to][i] = m.body})

Held(m) == IF <<m.from, m.id>> \in DOMAIN recon[m.to]
           THEN {p \in Packets(m) :
                    recon[m.to][<<m.from, m.id>>].packets[p.seq] # <<>>}
           ELSE {}

\* Without duplicates, a packet is in one place: unsent, on the wire, lost, in
\* a buffer of its node, or part of a message that has been completed once.
InOnePlace(m) ==
    LET P == Packets(m)
    IN  IF Times(m) > 0
        THEN Times(m) = 1 /\ P \cap (unsent \cup wire \cup lost \cup Held(m)) = {}
        ELSE /\ P \subseteq unsent \cup wire \cup lost \cup Held(m)
             /\ Cardinality(P \cap unsent) + Cardinality(P \cap wire)
                  + Cardinality(P \cap lost) + Cardinality(Held(m)) = Cardinality(P)

\* No packet counts twice unless the network duplicated it: a message completes
\* again only when every one of its packets came twice, since the receiver
\* forgets a finished message and a repeated packet of it opens a new buffer.
PacketsConserved ==
    /\ dups = 0 => \A m \in posted : InOnePlace(m)
    /\ SumOver([m \in {x \in posted : Times(x) > 0} |->
                    (Times(m) - 1) * Cardinality(Packets(m))]) <= dups

\* The messages node n's completed bodies are; a body nobody sent to n is a
\* message of its own, which the channel never delivers.
Recognised(n) ==
    {m \in posted : m.to = n /\ m.body \in Range(completed[n])}
        \cup {[to |-> n, body |-> body] : body \in
                 Range(completed[n]) \ {m.body : m \in {x \in posted : x.to = n}}}

Channel == INSTANCE MessageChannel
           WITH arrived <- {m \in posted : Times(m) > 0},
                completed <- [n \in Nodes |-> Recognised(n)]

\* Without duplicates the transports are the channel the join relies on.
ImplementsChannel ==
    [][ dups' = 0 =>
        \/ \E m \in Messages : Channel!Post({m}) \/ Channel!Deliver(m)
        \/ \E n \in Nodes : Channel!Collect(n)
        \/ UNCHANGED Channel!vars ]_vars

Resolved(m) == Times(m) > 0 \/ Packets(m) \cap lost # {} \/ up[m.to] = "deaf"

\* Every message to a node that is not stopped arrives, unless one of its
\* packets is lost or the thread that receives has ended there: those are the
\* ways for a message to be missing, whatever is reordered or repeated.  (Said of
\* all messages at once, which is the same while MaxSends bounds them.)
MessagesArrive ==
    []<>(\A m \in posted : m.to \notin MayStop => Resolved(m))
=============================================================================
