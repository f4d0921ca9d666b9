--------------------------- MODULE MCPgWireServer ---------------------------
(***************************************************************************)
(* A small instance of PgWireServer: a registered table with a number      *)
(* column x and text columns y and "brand", and statements of every kind   *)
(* the parser and the planner tell apart.                                  *)
(***************************************************************************)
EXTENDS PgWireServer

CONSTANTS c1, c2, none

x == <<"x">>
y == <<"y">>
brand == <<"br", "and">>
t == <<"t">>
MCNumbers == {"5", "7"}
MCQualifiers == {"L.", "R.", "u."}
MCNumberColumns == {x}
MCTextColumns == {y, brand}
MCTables == {t}

T(word) == <<Quote, word, Quote>>
C(column, op, value) == [column |-> column, op |-> op, value |-> value]
L(column) == <<"L.">> \o column
R(column) == <<"R.">> \o column

One(fn, column, where) ==
    [fn |-> fn, column |-> column, tables |-> <<t>>, on |-> <<y, y>>, where |-> where]
Two(fn, column, where) ==
    [fn |-> fn, column |-> column, tables |-> <<t, <<"r">>>>,
     on |-> <<L(y), <<"u.">> \o y>>, where |-> where]

Questions == [
    sum       |-> One("sum(", x, <<C(x, ">", <<"5">>), C(y, "=", <<Quote, "a", "=", Quote>>)>>),
    join      |-> Two("median(", L(x), <<C(R(y), "=", T("a")), C(L(x), ">", <<"5">>),
                                          C(x, "<", <<"7">>)>>),
    all       |-> One("count", <<>>, <<>>),
    many      |-> One("count", <<>>, <<C(y, "=", T("a")), C(y, "=", T("b")),
                                      C(x, ">", <<"5">>)>>),
    words     |-> One("count", <<>>, <<C(x, ">", <<"six">>)>>)]

\* Texts that are no SELECT, and a SELECT of nothing.
Texts == [begin |-> <<"begin", ";">>, nothing |-> <<"select", " ", "from", " ", "t">>]

MCSent ==
    [s \in DOMAIN Questions |-> [text |-> Write(Questions[s]), asked |-> Questions[s]]]
    @@ [s \in DOMAIN Texts |-> [text |-> Texts[s], asked |-> none]]
MCStatements == DOMAIN MCSent

Columns == {x, y, brand, L(x), R(y)}
Values == {<<"5">>, T("a"), <<Quote, "=", Quote>>, <<Quote, ">", Quote>>, <<Quote, "s", "and", "y", Quote>>}
Comparisons == [column : Columns, op : {"=", ">", "<", ">="}, value : Values]
MCWheres == {<<c>> : c \in Comparisons} \cup (Comparisons \X Comparisons)

\* The question whose reading the proofs suppose is sound and read as meant; of
\* three comparisons, two of them of texts, the registers run out.
ASSUME ReadingAssumption ==
    /\ SoundStatements = {"sum"} /\ SoundAreRead
    /\ RegistersRunOut(Parsed["many"].query.preds)

MCMaxSent == c1 :> 3 @@ c2 :> 1
=============================================================================
