---------------------------- MODULE MCColumnScan ----------------------------
(* A small instance of ColumnScan: words of four bits, characters of two. *)
EXTENDS ColumnScan

a == 1
b == 2
pc == Percent

Row(n, s) == [num |-> n, str |-> s]
MCNewRows == {Row(5, <<a, b>>), Row(-2, <<a>>), Row(Null, <<>>), Row(2, Null)}
MCLoads ==
    {<<>>,
     <<Row(5, <<a, b>>), Row(7, <<b, a>>), Row(0, <<a, b, a>>),
       Row(Null, <<a>>)>>,
     <<Row(2, <<a, b>>), Row(2, <<a, pc>>), Row(-2, <<a, b, b>>),
       Row(1, Null), Row(3, <<b, a>>)>>}
MCNameLengths == {<<0, 5>>, <<16, 10>>}   \* with and without padding behind them
MCAllRows ==
    MCNewRows \cup UNION {{load[i] : i \in DOMAIN load} : load \in MCLoads}

MCGramBits ==
    [g \in Grams |-> IF Len(g) = 1 THEN {(3 * g[1]) % W}
                     ELSE {(g[1] + g[2]) % W, (3 * g[1] + g[2] + 1) % W}]

NumPreds == [col : {"num"}, op : {"EQ", "GT", "LT"}, value : {0, 2, 5, 14}]
StrPreds ==
    [col : {"str"}, op : {"EQ"}, value :
           {<<>>, <<a>>, <<a, b>>, <<a, b, a>>, <<a, pc>>}]
    \cup [col : {"str"}, op : {"LIKE_PREFIX"},
          value : {<<a, pc>>, <<a, b, pc>>, <<a, b, b>>, <<pc>>}]
    \cup [col : {"str"}, op : {"LIKE_CONTAINS"},
          value : {<<pc, a, b, pc>>, <<pc, b, a>>, <<pc, pc>>,
                   <<pc, b, pc>>}]

Pred(c, o, v) == [col |-> c, op |-> o, value |-> v]
MCQueries ==
    {{p} : p \in NumPreds \cup StrPreds}
    \cup {{Pred("num", "GT", 0), Pred("str", "LIKE_PREFIX", <<a, pc>>)},
          {Pred("num", "LT", 5), Pred("num", "GT", 0)},
          {Pred("str", "LIKE_PREFIX", <<a, pc>>),
           Pred("str", "LIKE_CONTAINS", <<pc, b, a, pc>>)}}
=============================================================================
