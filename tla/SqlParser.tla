----------------------------- MODULE SqlParser ------------------------------
(***************************************************************************)
(* The recursive descent parser of the query daemon's WHERE clauses.  A    *)
(* text is a sequence of lexemes: signs, brackets, blanks, "and" in any    *)
(* case, names and digits as long as they go.  Every exception of the      *)
(* parser is a refusal, whatever it says.                                  *)
(***************************************************************************)
EXTENDS Integers, Sequences, SequencesExt

CONSTANTS
    Names,       \* column names
    Literals     \* numbers that std::stoll can hold

Signs == {">", "<", ">=", "<=", "="}
Leaves == Names \cup Literals

\* A ">" or "<" and the "=" that follows it at once are one token.
IsSecondHalf(text, i) == i > 1 /\ text[i] = "=" /\ text[i - 1] \in {">", "<"}

TokenAt(text, i) ==
    IF i < Len(text) /\ IsSecondHalf(text, i + 1)
    THEN (IF text[i] = ">" THEN ">=" ELSE "<=") ELSE text[i]

\* The tokens of a text, the last one "end".  What is no token is refused by
\* the first rule that meets it.
Tokenize(text) ==
    LET Begins(i) == text[i] # " " /\ ~IsSecondHalf(text, i)
        at == SelectSeq([i \in DOMAIN text |-> i], Begins)
    IN  [k \in DOMAIN at |-> TokenAt(text, at[k])] \o <<"end">>

\* A rule returns the node it has built and the position behind it; 0 stands
\* for an exception.
Refusal == [node |-> <<>>, next |-> 0]

And(left, right) == <<"and", left, right>>

\* The whole of ParseExpression, ParseTerm and ParsePrimary at position i, as
\* one function because they call each other.  "terms" is the loop of
\* ParseExpression; its node is the sequence of the terms.
Rules == {"expression", "terms", "term", "primary"}

Descent(tokens) ==
    LET parse[rule \in Rules, i \in DOMAIN tokens] ==
          CASE rule = "expression" ->
                 LET terms == parse["terms", i]
                 IN  IF terms.next = 0 THEN Refusal
                     ELSE [terms EXCEPT !.node = FoldLeft(And, Head(@), Tail(@))]
            [] rule = "terms" ->
                 LET term == parse["term", i]
                     rest == parse["terms", term.next + 1]
                 IN  IF term.next = 0 THEN Refusal
                     ELSE IF tokens[term.next] # "and" THEN [term EXCEPT !.node = <<@>>]
                     ELSE IF rest.next = 0 THEN Refusal
                     ELSE [rest EXCEPT !.node = <<term.node>> \o @]
            [] rule = "term" ->
                 LET left == parse["primary", i]
                     right == parse["primary", left.next + 1]
                 IN  IF left.next = 0 \/ tokens[left.next] \notin Signs THEN left
                     ELSE IF right.next = 0 THEN Refusal
                     ELSE [right EXCEPT !.node = <<tokens[left.next], left.node, @>>]
            [] rule = "primary" ->
                 LET inner == parse["expression", i + 1]
                 IN  IF tokens[i] \in Leaves
                     THEN [node |-> <<tokens[i]>>, next |-> i + 1]
                     ELSE IF tokens[i] # "(" \/ inner.next = 0 THEN Refusal
                     ELSE IF tokens[inner.next] # ")" THEN Refusal
                     ELSE [inner EXCEPT !.next = @ + 1]
    IN  parse["expression", 1]

\* Mutant: what follows the expression is not looked at.
ParseFront(text) == LET result == Descent(Tokenize(text))
                    IN  IF result.next = 0 THEN {} ELSE {result.node}

\* The tree of a text, or nothing.
Parse(text) ==
    LET tokens == Tokenize(text)
        result == Descent(tokens)
    IN  IF result.next = 0 \/ tokens[result.next] # "end" THEN {} ELSE {result.node}
-----------------------------------------------------------------------------
(* The grammar, as the comments above the functions state it:                *)
(*     Expression ::= Term { "AND" Term }                                    *)
(*     Term       ::= Primary [ (">" | "<" | ">=" | "<=" | "=") Primary ]    *)
(*     Primary    ::= Identifier | Number | "(" Expression ")"               *)

\* All trees that the tokens from position i to position j derive from a rule,
\* with AND associating to the left.
Derivations(tokens) ==
    LET End == Len(tokens)
        trees[rule \in Rules, i \in 1..End + 1, j \in 0..End] ==
          CASE rule = "expression" ->
                 trees["term", i, j] \cup UNION {
                   {And(l, r) : l \in trees["expression", i, k - 1],
                                r \in trees["term", k + 1, j]} :
                   k \in {m \in i..j : tokens[m] = "and"}}
            [] rule = "term" ->
                 trees["primary", i, j] \cup UNION {
                   {<<tokens[k], l, r>> : l \in trees["primary", i, k - 1],
                                          r \in trees["primary", k + 1, j]} :
                   k \in {m \in i..j : tokens[m] \in Signs}}
            [] rule = "primary" ->
                 {<<tokens[k]>> : k \in {m \in i..j : i = j /\ tokens[m] \in Leaves}}
                 \cup (IF i < j /\ tokens[i] = "(" /\ tokens[j] = ")"
                       THEN trees["expression", i + 1, j - 1] ELSE {})
            [] OTHER -> {}
    IN  trees["expression", 1, End]

Derived(text) == Derivations(Front(Tokenize(text)))
=============================================================================
