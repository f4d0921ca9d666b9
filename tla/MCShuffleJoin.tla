---------------------------- MODULE MCShuffleJoin ---------------------------
(***************************************************************************)
(* Small instances of ShuffleJoin for TLC: two nodes, a key that becomes   *)
(* hot when the predicate lets both its left rows pass, two keys with the  *)
(* same signature, a row whose join column is null, and a left batch whose *)
(* last row has an index that does not fit the fields of one bit.          *)
(***************************************************************************)
EXTENDS ShuffleJoin

CONSTANTS a, b, c, null

MCKeys == {a, b, c}
MCSignature == [k \in MCKeys |-> IF k = a THEN 0 ELSE 1]
MCValues == {-3, 2}
MCOnePredicate == {[left |-> {2}, right |-> {2}]}
MCPredicates == {[left |-> {2}, right |-> {-3, 2}], [left |-> {-3, 2}, right |-> {2}]}

R(k, v) == [key |-> k, val |-> v]
MCLeft == {<<R(a, 2), R(null, 2), R(a, -3)>>,
           <<R(null, -3), R(b, 2), R(b, 2), R(null, -3), R(a, 2)>>}
MCRight == {<<R(a, 2), R(b, 2), R(c, -3)>>}
MCOneBatch == [left |-> 1, right |-> 1]
MCMoreRight == [left |-> 1, right |-> 2]
MCLeftShort == {<<R(a, 2)>>}
MCRightShort == {<<R(a, 2)>>}
=============================================================================
