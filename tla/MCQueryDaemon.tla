---------------------------- MODULE MCQueryDaemon ----------------------------
(* A small instance of QueryDaemon: two predicates and a text that is none. *)
EXTENDS QueryDaemon, TLC

CONSTANTS c1, c2, o1, p, q, x

MCText == p :> <<"a", " ", ">", "=", "1", " ">>
            @@ q :> <<"a", "and", "(", "1", "<", "b", ")">>
            @@ x :> <<"a", "<", "(", "1">>

Lexemes == {"a", "1", "(", ")", ">", "=", "and", " ", "%"}
MCEndings == UNION {[1..n -> Lexemes] : n \in 0..4}
=============================================================================
