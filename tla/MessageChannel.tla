--------------------------- MODULE MessageChannel ---------------------------
(***************************************************************************)
(* What a ClusterNode relies on when it sends shuffle entries: a message   *)
(* arrives whole, at the node it was sent to, at most once, and stays      *)
(* there until ReceiveAll hands it over.  Nothing is promised about when   *)
(* it arrives, nor that it does.                                           *)
(*                                                                         *)
(* A message is a record with at least the field to; two sends are two     *)
(* different messages whatever they carry.  The order in which messages    *)
(* arrive decides nothing, so what waits is a set.                         *)
(***************************************************************************)
CONSTANT Nodes

VARIABLES
    posted,      \* messages sent so far
    arrived,     \* the ones that have reached their node
    completed    \* node -> the messages that wait for ReceiveAll

vars == <<posted, arrived, completed>>

Init ==
    /\ posted = {}
    /\ arrived = {}
    /\ completed = [n \in Nodes |-> {}]

\* The messages of M are sent.
Post(M) ==
    /\ M \cap posted = {}
    /\ \A m \in M : m.to \in Nodes
    /\ posted' = posted \cup M
    /\ UNCHANGED <<arrived, completed>>

Deliver(m) ==
    /\ m \in posted \ arrived
    /\ arrived' = arrived \cup {m}
    /\ completed' = [completed EXCEPT ![m.to] = @ \cup {m}]
    /\ UNCHANGED posted

Collect(n) ==
    /\ completed' = [completed EXCEPT ![n] = {}]
    /\ UNCHANGED <<posted, arrived>>
=============================================================================
