--------------------------- MODULE MCJoinSessions --------------------------
(***************************************************************************)
(* The instances of MCShuffleJoin, and the hypothesis of the theorems of   *)
(* ShuffleJoinProofs evaluated: for few and for as many nodes as a row id  *)
(* has numbers for, and for several widths of the fields.                  *)
(***************************************************************************)
EXTENDS MCShuffleJoin

RowIds(nodes, bits) == INSTANCE ShuffleJoin WITH NumNodes <- nodes, FieldBits <- bits

ASSUME RowIdAssumption ==
    \A nodes \in {1, 2, 256}, bits \in 1..3 : RowIds(nodes, bits)!RowIdsRoundTrip
=============================================================================
