--------------------------- MODULE MCSrdTransport ---------------------------
(* Small instances of SrdTransport for TLC: the names of the nodes. *)
EXTENDS SrdTransport

CONSTANTS n1, n2
=============================================================================
