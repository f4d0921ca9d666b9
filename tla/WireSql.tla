------------------------------ MODULE WireSql -------------------------------
(***************************************************************************)
(* How the wire server reads a statement.  It does not tokenize: it looks  *)
(* for keywords anywhere in the text and cuts the text at what it finds.   *)
(* A text is a sequence of lexemes: keywords, signs, white space and       *)
(* pieces of names, split so that a keyword inside a name is a lexeme too  *)
(* (a column "brand" is <<"br", "and">>).  Upper and lower case are one.   *)
(***************************************************************************)
EXTENDS Integers, Sequences, FiniteSets, FiniteSetsExt, SequencesExt

CONSTANTS
    Numbers,         \* lexemes that std::stoull reads a number from
    Qualifiers,      \* lexemes that end in a dot
    NumberColumns,   \* columns of every table: texts
    TextColumns

Space == " "
Quote == "'"
Aggregates == {"sum(", "avg(", "min(", "max(", "median(", "distinct "}

\* std::string::find: the position of the first such lexeme, or 0.
Find(text, lexeme) ==
    Min({i \in DOMAIN text : text[i] = lexeme} \cup {Len(text) + 1})
        % (Len(text) + 1)

From(text, i) == SubSeq(text, i, Len(text))

\* text.substr(i, j - i) between two finds: when j is not behind i, the length
\* wraps around and everything after i is taken.
Cut(text, i, j) == IF j > i THEN SubSeq(text, i + 1, j - 1) ELSE From(text, i + 1)

Inked(text, blank) == {i \in DOMAIN text : text[i] \notin blank}

Trim(text) ==
    LET ink == Inked(text, {Space})
    IN  IF ink = {} THEN <<>> ELSE SubSeq(text, Min(ink), Max(ink))

\* The text of a query message without its trailing semicolons and blanks.
Chopped(text) == SubSeq(text, 1, Max({0} \cup Inked(text, {Space, ";"})))

\* text.substr(1, size - 2): without what encloses it.
Enclosed(text) == SubSeq(text, 2, Len(text) - 1)
-----------------------------------------------------------------------------
(* WHERE *)

Ands(s) == {i \in DOMAIN s : s[i] = "and"}

IsSeparator(s, i) ==
    /\ i = 1 \/ s[i - 1] \in {Space, ")"}
    /\ i = Len(s) \/ s[i + 1] \in {Space, "("}

\* Where the search for the next "and" begins: behind the one before, whether
\* or not that was a separator.
SearchedFrom(s, i) == 1 + Max({0} \cup {j \in Ands(s) : j < i})

Clauses(s) ==
    LET Ends == {i \in Ands(s) : IsSeparator(s, i)} \cup {Len(s) + 1}
        Clause(i) == Trim(SubSeq(s, SearchedFrom(s, i), i - 1))
        InOrder == SetToSortSeq(Ends, <)
    IN  SelectSeq([k \in DOMAIN InOrder |-> Clause(InOrder[k])], LAMBDA c : c # <<>>)

Signs(clause) == {sign \in {"=", ">", "<"} : Find(clause, sign) # 0}

\* Mutant: "=" is looked for last.
SignOfOrder(clause) ==
    CASE ">" \in Signs(clause) -> ">"
      [] "<" \in Signs(clause) /\ ">" \notin Signs(clause) -> "<"
      [] OTHER -> "="

\* The sign a clause is read by: "=" before ">" before "<".
SignOf(clause) ==
    CASE "=" \in Signs(clause) -> "="
      [] ">" \in Signs(clause) /\ "=" \notin Signs(clause) -> ">"
      [] OTHER -> "<"

IsText(val) == val # <<>> /\ val[1] = Quote

\* std::stoull throws unless the value begins with a number; what follows the
\* number is ignored.
Unreadable(val) == ~IsText(val) /\ (val = <<>> \/ val[1] \notin Numbers)

Value(val) == IF IsText(val) THEN Enclosed(val) ELSE SubSeq(val, 1, 1)

PredicateOf(clause) ==
    LET at == Find(clause, SignOf(clause))
        val == Trim(From(clause, at + 1))
    IN  [column |-> Trim(SubSeq(clause, 1, at - 1)), op |-> SignOf(clause),
         is_string |-> IsText(val), value |-> Value(val),
         throws |-> Unreadable(val)]

\* A clause without a sign is dropped.
Predicates(s) ==
    LET Signed(clause) == Signs(clause) # {}
        clauses == SelectSeq(Clauses(s), Signed)
    IN  [k \in DOMAIN clauses |-> PredicateOf(clauses[k])]
-----------------------------------------------------------------------------
(* SELECT and FROM *)

\* The items of the projection, as getline splits them: nothing after the last
\* comma is no item.
Items(proj) ==
    LET Ends == {i \in DOMAIN proj : proj[i] = ","}
                  \cup (IF proj = <<>> \/ proj[Len(proj)] = ","
                        THEN {} ELSE {Len(proj) + 1})
        Start(i) == 1 + Max({0} \cup {j \in Ends : j < i})
    IN  {[start |-> Start(i), text |-> Trim(SubSeq(proj, Start(i), i - 1))] : i \in Ends}

\* The one item that is executed.
FirstItem(proj) == (CHOOSE item \in Items(proj) : item.start = 1).text

\* An item that is no aggregate is a COUNT with a column.
Aggregate(item) ==
    CASE item = <<"count(*)">> -> [fn |-> "count", column |-> <<>>]
      [] item # <<>> /\ item[1] = "distinct " ->
            [fn |-> "distinct ", column |-> Tail(item)]
      [] item # <<>> /\ item[1] \in Aggregates \ {"distinct "} ->
            [fn |-> item[1], column |-> Enclosed(item)]
      [] OTHER -> [fn |-> "count", column |-> item]

Unqualified(column, qualifiers) ==
    IF column # <<>> /\ column[1] \in qualifiers THEN Tail(column) ELSE column

Sides == {"L.", "R."}
StripSide(p) == [p EXCEPT !.column = Unqualified(@, Sides)]

\* The predicates of one side of a join.  What names no side is the left's.
OfSide(preds, side) ==
    LET IsOf(p) == side = "R." <=> p.column # <<>> /\ p.column[1] = "R."
        kept == SelectSeq(preds, IsOf)
    IN  [k \in DOMAIN kept |-> StripSide(kept[k])]

\* L JOIN R ON c = d.  Without an ON or a sign the pieces are no columns.
JoinOf(tables, preds, agg) ==
    LET join == Find(tables, "join")
        on == Find(tables, "on")
        clause == Trim(From(tables, on + 1))
        eq == Find(clause, "=")
        JoinColumn(text) == Unqualified(Trim(text), Qualifiers)
    IN  [left   |-> Trim(SubSeq(tables, 1, join - 1)),
         right  |-> Trim(Cut(tables, join, on)),
         lcol   |-> JoinColumn(IF eq = 0 THEN clause ELSE SubSeq(clause, 1, eq - 1)),
         rcol   |-> JoinColumn(From(clause, eq + 1)),
         lpreds |-> OfSide(preds, "L."),
         rpreds |-> OfSide(preds, "R."),
         agg    |-> [agg EXCEPT !.column = Unqualified(@, Sides)]]

\* What becomes of a statement before anything is looked up: a syntax error, an
\* exception of std::stoull, or a query.  proj_aggs[0] of an empty projection
\* is no value.
Parse(message) ==
    LET q == Chopped(message)
        select == Find(q, "select")
        from == Find(q, "from")
        where == Find(q, "where")
        proj == Trim(Cut(q, select, from))
        tables == Trim(IF where = 0 THEN From(q, from + 1) ELSE Cut(q, from, where))
        preds == IF where = 0 THEN <<>> ELSE Predicates(Trim(From(q, where + 1)))
        plain == [k \in DOMAIN preds |->
                     [column |-> preds[k].column, op |-> preds[k].op,
                      is_string |-> preds[k].is_string, value |-> preds[k].value]]
        agg == IF Items(proj) = {} THEN [fn |-> "none", column |-> <<>>]
                                   ELSE Aggregate(FirstItem(proj))
    IN  CASE select = 0 \/ from = 0 -> [kind |-> "error"]
          [] select # 0 /\ from # 0 /\ \E k \in DOMAIN preds : preds[k].throws ->
               [kind |-> "throws"]
          [] OTHER ->
               IF Find(tables, "join") # 0
               THEN [kind |-> "join", query |-> JoinOf(tables, plain, agg)]
               ELSE [kind |-> "single",
                     query |-> [table |-> tables, preds |-> plain, agg |-> agg]]
-----------------------------------------------------------------------------
(* What a client means.  A question is [fn, column, tables, on, where]: one or *)
(* two tables, the columns they are joined on, comparisons                     *)
(* [column, op, value] that all are to hold; columns may name their side.      *)

Spaced(text) == <<Space>> \o text \o <<Space>>

Joined(texts, between) ==
    FoldLeft(LAMBDA done, next : IF done = <<>> THEN next ELSE done \o between \o next,
             <<>>, texts)

Signed(op) == IF op = ">=" THEN <<">", "=">> ELSE <<op>>

Comparison(c) == c.column \o Spaced(Signed(c.op)) \o c.value

Write(q) ==
    LET item == IF q.fn = "count" THEN <<"count(*)">>
                ELSE <<q.fn>> \o q.column \o (IF q.fn = "distinct " THEN <<>> ELSE <<")">>)
        on == <<"on", Space>> \o q.on[1] \o Spaced(<<"=">>) \o q.on[2]
        comparisons == [k \in DOMAIN q.where |-> Comparison(q.where[k])]
    IN  <<"select">> \o Spaced(item) \o <<"from">>
          \o Spaced(IF Len(q.tables) = 1 THEN q.tables[1]
                    ELSE q.tables[1] \o Spaced(<<"join">>) \o q.tables[2]
                           \o <<Space>> \o on)
          \o (IF q.where = <<>> THEN <<>>
              ELSE <<"where", Space>> \o Joined(comparisons, Spaced(<<"and">>)))
          \o <<";">>

Meant(c) ==
    [column |-> c.column, op |-> c.op, is_string |-> c.value[1] = Quote,
     value |-> IF c.value[1] = Quote THEN Enclosed(c.value) ELSE c.value]

Meaning(q) ==
    LET comparisons == [k \in DOMAIN q.where |-> Meant(q.where[k])]
        IsRight(c) == c.column[1] = "R."
        IsLeft(c) == ~IsRight(c)
        Stripped(preds) == [k \in DOMAIN preds |-> StripSide(preds[k])]
        agg == [fn |-> q.fn, column |-> Unqualified(q.column, Sides)]
    IN  IF Len(q.tables) = 1
        THEN [kind |-> "single",
              query |-> [table |-> q.tables[1], preds |-> comparisons, agg |-> agg]]
        ELSE [kind |-> "join",
              query |-> [left   |-> q.tables[1],
                         right  |-> q.tables[2],
                         lcol   |-> Unqualified(q.on[1], Qualifiers),
                         rcol   |-> Unqualified(q.on[2], Qualifiers),
                         lpreds |-> Stripped(SelectSeq(comparisons, IsLeft)),
                         rpreds |-> Stripped(SelectSeq(comparisons, IsRight)),
                         agg    |-> agg]]

Free(text, lexemes) == \A i \in DOMAIN text : text[i] \notin lexemes

\* Comparisons that are meant to be read: a sign the server knows, numbers or
\* quoted texts, no "and" inside a name or a text, and no sign inside a text
\* that the server looks for before the one that is meant.
PlainComparison(c) ==
    /\ c.op \in {"=", ">", "<"}
    /\ Free(c.column \o c.value, {"and"})
    /\ Free(c.value, CASE c.op = ">" -> {"="} [] c.op = "<" -> {"=", ">"} [] OTHER -> {})
    /\ c.value[1] = Quote \/ c.value \in {<<n>> : n \in Numbers}

\* Left out further: keywords inside the names of columns and tables, one table
\* with a qualified column, an aggregate of the right table's (its column is
\* looked up in the left table).
PlainQuestion(q) ==
    /\ \A k \in DOMAIN q.where : PlainComparison(q.where[k])
    /\ Free(q.column, {"from", "where", ",", "R."})
    /\ \A t \in DOMAIN q.tables : Free(q.tables[t], {"where", "join", "on"})
    /\ Len(q.tables) = 1 =>
          \A text \in {q.column} \cup {q.where[k].column : k \in DOMAIN q.where} :
              Free(text, Sides)
=============================================================================
