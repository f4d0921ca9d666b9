---------------------------- MODULE BitSlicedScan ----------------------------
(***************************************************************************)
(* Bit-sliced row groups: how AdaptiveIngester lays rows out in blocks of  *)
(* bit planes, and what the block scans compiled by QueryPlanner and       *)
(* MicroOpCompiler find in them.  A row has one numeric and one string     *)
(* column.  A machine word is the set of the positions of its one bits, a  *)
(* block holds as many rows as a word has bits (64 in the code), and so a  *)
(* mask over the rows of a block is a word too.                            *)
(***************************************************************************)
EXTENDS Integers, Sequences, FiniteSets, SequencesExt, Sums

CONSTANTS
    LogW,        \* words have 2^LogW bits (6 in the code)
    CharBits,    \* bits of a character (8)
    SkelChars,   \* leading characters kept in the skeleton tile (4)
    GramBits,    \* KIM hash: a gram of one or two characters -> bits it sets
    Percent,     \* the character '%'
    Null

W == 2^LogW
Pos == 0..(W - 1)
SkelBits == SkelChars * CharBits

\* A character is the number of its byte; grams are what the KIM hash is
\* taken of.
Chars == 0..(2^CharBits - 1)
Grams == {<<c>> : c \in Chars} \cup (Chars \X Chars)

ASSUME WordAssumption ==
    /\ {LogW, CharBits, SkelChars} \subseteq Nat \ {0}
    /\ SkelBits <= W
    /\ GramBits \in [Grams -> SUBSET Pos]

\* Exponentiation, for the provers: they do not know its definition.
ASSUME PowerAssumption ==
    /\ W \in Nat /\ 2^0 = 1
    /\ \A n \in 0..LogW \cup 0..W : 2^n \in Nat /\ 2^(n + 1) = 2 * 2^n

\* The one bits of n as an unsigned word, and back.
Bits(n) == {b \in Pos : (n \div 2^b) % 2 = 1}
Unsigned(word) == MapThenSumSet(LAMBDA b : 2^b, word)
Signed(n) == IF n >= 2^(W - 1) THEN n - 2^W ELSE n
-----------------------------------------------------------------------------
(* SimdTransposer: the butterfly transposition of a square bit matrix.     *)

\* One stage: A[i] and A[i + k] exchange k-bit wide fields by the XOR trick.
Stage(A, k) ==
    LET Low == {i \in Pos : (i \div k) % 2 = 0}
        t(i) == SymDiff({b - k : b \in A[i] \ 0..(k - 1)}, A[i + k]) \cap Low
    IN  [i \in Pos |-> IF i \in Low
                       THEN SymDiff(A[i], {b + k : b \in t(i)})
                       ELSE SymDiff(A[i], t(i - k))]

Transpose(A) == FoldLeft(Stage, A, [s \in 1..LogW |-> 2^(LogW - s)])

\* A tile: one bit plane for every bit of a word, and the valid rows.
Tiles == [planes : [Pos -> SUBSET Pos], validity : SUBSET Pos]

Tile(words, valid) == [planes |-> Transpose(words), validity |-> valid]
-----------------------------------------------------------------------------
(* AdaptiveIngester.                                                       *)

\* The bytes stored for a string; a null is stored as the empty string.
Text(s) == IF s = Null THEN <<>> ELSE s

NumWord(n) == IF n = Null THEN {} ELSE Bits(n % 2^W)

\* The first characters, the first one in the lowest bits.
Skeleton(s) ==
    UNION {{CharBits * (i - 1) + b : b \in Bits(s[i])} :
              i \in 1..Min({Len(s), SkelChars})}

KimSignature(s) ==
    IF Len(s) = 1 THEN GramBits[s]
    ELSE UNION {GramBits[SubSeq(s, i, i + 1)] : i \in 1..(Len(s) - 1)}

\* Mutant: the rest of the last block keeps the validity of the block before.
IngestBlockStale(rows) ==
    LET Filled == 0..(Len(rows) - 1)
        Num(i) == IF i \in Filled THEN NumWord(rows[i + 1].num) ELSE {}
        Str(i) == IF i \in Filled THEN Text(rows[i + 1].str) ELSE <<>>
        ValidNum == {i \in Pos : i \in Filled => rows[i + 1].num # Null}
        ValidStr == {i \in Filled : rows[i + 1].str # Null}
    IN  [num  |-> Tile([i \in Pos |-> Num(i)], ValidNum),
         skel |-> Tile([i \in Pos |-> Skeleton(Str(i))], ValidStr),
         kim  |-> Tile([i \in Pos |-> KimSignature(Str(i))], ValidStr),
         tail |-> [i \in 1..Len(rows) |-> Str(i - 1)],
         delete_mask |-> Pos]

IngestBlock(rows) ==
    LET Filled == 0..(Len(rows) - 1)
        Num(i) == IF i \in Filled THEN NumWord(rows[i + 1].num) ELSE {}
        Str(i) == IF i \in Filled THEN Text(rows[i + 1].str) ELSE <<>>
        ValidNum == {i \in Filled : rows[i + 1].num # Null}
        ValidStr == {i \in Filled : rows[i + 1].str # Null}
    IN  [num  |-> Tile([i \in Pos |-> Num(i)], ValidNum),
         skel |-> Tile([i \in Pos |-> Skeleton(Str(i))], ValidStr),
         kim  |-> Tile([i \in Pos |-> KimSignature(Str(i))], ValidStr),
         tail |-> [i \in 1..Len(rows) |-> Str(i - 1)],
         delete_mask |-> Pos]

Ingest(rows) ==
    [num_rows |-> Len(rows),
     blocks   |-> [b \in 1..((Len(rows) + W - 1) \div W) |->
                     IngestBlock(SubSeq(rows, W * (b - 1) + 1,
                                        Min({W * b, Len(rows)})))]]

\* What Ingest makes, and what deletes make of it.
Blocks == [num : Tiles, skel : Tiles, kim : Tiles, tail : Seq(Seq(Chars)),
           delete_mask : SUBSET Pos]
RowGroups == [num_rows : Nat, blocks : Seq(Blocks)]

\* The rows of block b that the group has.
RowsInBlock(g, b) == 0..(Min({W, g.num_rows - W * (b - 1)}) - 1)
-----------------------------------------------------------------------------
(* MicroOpCompiler: the comparisons, from the highest bit of B down.       *)

CmpEq(planes, B, word) ==
    {r \in Pos : \A b \in B : (r \in planes[b]) <=> (b \in word)}

Above(B, b) == {c \in B : c > b}

CmpGt(planes, B, word) ==
    UNION {CmpEq(planes, Above(B, b), word) \cap planes[b] : b \in B \ word}

CmpLt(planes, B, word) ==
    UNION {CmpEq(planes, Above(B, b), word) \ planes[b] : b \in B \cap word}

CmpSkeleton(planes, n, word) ==
    CmpEq(planes, 0..((IF n \in 1..SkelBits THEN n ELSE SkelBits) - 1), word)

CmpKim(planes, sig) == {r \in Pos : \A b \in sig : r \in planes[b]}
-----------------------------------------------------------------------------
(* QueryPlanner.  A predicate is [col, op, value]; a query is a non-empty  *)
(* set of predicates, all of which a row must satisfy.                     *)

NumPredicates ==
    [col : {"num"}, op : {"EQ", "GT", "LT"}, value : 0..(2^W - 1)]
StrPredicates ==
    [col : {"str"}, op : {"EQ", "LIKE_PREFIX", "LIKE_CONTAINS"}, value : Seq(Chars)]

ChopLast(s) == IF s # <<>> /\ Last(s) = Percent THEN Front(s) ELSE s
ChopFirst(s) == IF s # <<>> /\ Head(s) = Percent THEN Tail(s) ELSE s

CleanPattern(p) ==
    CASE p.op = "EQ" -> p.value
      [] p.op = "LIKE_PREFIX" -> ChopLast(p.value)
      [] p.op = "LIKE_CONTAINS" -> ChopLast(ChopFirst(p.value))

\* GetSkeletonConstant drops a trailing '%' whatever the operator.
SkeletonConstant(p) == Skeleton(ChopLast(p.value))

ActivePlanes(blocks) ==
    {b \in Pos : \E k \in DOMAIN blocks : blocks[k].num.planes[b] # {}}

\* Mutant: the threshold's own highest bit is not counted.
CompareBitsOfColumn(g, target) == 0..Max({0} \cup ActivePlanes(g.blocks))

\* The bit planes a numeric comparison reads: up to the highest active plane
\* of the column and the highest bit of the threshold.
CompareBits(g, target) ==
    0..Max({0} \cup ActivePlanes(g.blocks) \cup Bits(target))

NumericMask(g, block, p) ==
    LET B == CompareBits(g, p.value)
        planes == block.num.planes
    IN  CASE p.op = "EQ" -> CmpEq(planes, B, Bits(p.value))
          [] p.op = "GT" -> CmpGt(planes, B, Bits(p.value))
          [] p.op = "LT" -> CmpLt(planes, B, Bits(p.value))

StringMask(block, p) ==
    LET clean == CleanPattern(p)
        Skel(chars) == CmpSkeleton(block.skel.planes,
                           Min({SkelBits, chars * CharBits}), SkeletonConstant(p))
        Kim == CmpKim(block.kim.planes, KimSignature(clean))
    IN  CASE p.op = "EQ" -> Skel(Len(clean) + 1) \cap Kim
          [] p.op = "LIKE_PREFIX" -> Skel(Len(clean))
          [] p.op = "LIKE_CONTAINS" -> Kim

PredicateMask(g, block, p) ==
    IF p.col = "str" THEN StringMask(block, p) ELSE NumericMask(g, block, p)

\* MatchString: also what the deferred verification does with a tail string.
MatchString(s, p) ==
    LET clean == CleanPattern(p)
        At(i) == SubSeq(s, i, i + Len(clean) - 1)
    IN  CASE p.op = "EQ" -> s = clean
          [] p.op = "LIKE_PREFIX" -> IsPrefix(clean, s)
          [] p.op = "LIKE_CONTAINS" ->
                 \E i \in 1..(Len(s) - Len(clean) + 1) : At(i) = clean

\* Rows of block b that survive the scan and its delete mask, then the
\* verification of the string predicates against the tail payload.
FinalMask(g, b, q) ==
    LET block == g.blocks[b]
        candidates == {r \in block.delete_mask \cap RowsInBlock(g, b) :
                          \A p \in q : r \in PredicateMask(g, block, p)}
    IN  {r \in candidates : \A p \in q :
            p.col = "str" => MatchString(block.tail[r + 1], p)}

\* Mutant: the top plane is left out.
MaxPlaneShort(g, b) ==
    LET planned == Max({0} \cup ActivePlanes(g.blocks))
    IN  Max({1} \cup (ActivePlanes(<<g.blocks[b]>>) \cap 0..planned)) - 1

\* Execute adds the aggregated column up plane by plane, from plane 0 to the
\* highest active one of the block among those active when planning.
MaxPlane(g, b) ==
    LET planned == Max({0} \cup ActivePlanes(g.blocks))
    IN  Max({0} \cup (ActivePlanes(<<g.blocks[b]>>) \cap 0..planned))

PlaneSum(g, b, q) ==
    SumOver([bit \in 0..MaxPlane(g, b) |->
                2^bit * Cardinality(FinalMask(g, b, q)
                                      \cap g.blocks[b].num.planes[bit])]) % 2^W

GroupExecute(g, q) ==
    [count |-> SumOver([b \in DOMAIN g.blocks |->
                           Cardinality(FinalMask(g, b, q))]),
     sum   |-> SumOver([b \in DOMAIN g.blocks |-> PlaneSum(g, b, q)]) % 2^W]

\* ExecuteQueryResult transposes the aggregated column back to scalars: the
\* matched rows' values, as [block, row] -> value.
MatchedValues(g, q) ==
    LET Matched == {br \in (DOMAIN g.blocks) \X Pos :
                        br[2] \in FinalMask(g, br[1], q)}
        scalars == [b \in DOMAIN g.blocks |->
                        Transpose(g.blocks[b].num.planes)]
    IN  [br \in Matched |-> Signed(Unsigned(scalars[br[1]][br[2]]))]
=============================================================================
