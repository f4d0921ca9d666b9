---------------------------- MODULE RowGroupFile ----------------------------
(***************************************************************************)
(* The CBST file of a row group, byte position by byte position: what      *)
(* Exporter::Serialize writes and what Exporter::Deserialize makes of a    *)
(* file.  A field is its length and the value it holds; a file is its size *)
(* and the fields with their offsets.  Writing is not checked, so that a   *)
(* file may be any beginning of what was to be written.                    *)
(***************************************************************************)
EXTENDS Integers, Sequences, SequencesExt, Sums

Magic == "CBST"
Line == 64          \* every section ends on such a boundary
TileSize == 576     \* sizeof(CbstTile)

Field(n, v) == [len |-> n, val |-> v, data |-> TRUE]
Zeros(n) == [len |-> n, val |-> 0, data |-> FALSE]
Size(fields) == SumOver([k \in DOMAIN fields |-> fields[k].len])

Padding(n) == (Line - (n % Line)) % Line

\* The fields with padding behind them, to a boundary of n bytes.
Padded(fields, n) ==
    IF Padding(n) = 0 THEN fields ELSE Append(fields, Zeros(Padding(n)))

(* A group is [num_rows, columns, blocks]; a column is [type, name, len], a   *)
(* block [tiles, delete_mask, tail, tail_size] with a tile for every column.  *)

Header(g) ==
    <<Field(4, Magic), Field(8, g.num_rows), Field(8, Len(g.columns)),
      Field(8, Len(g.blocks)), Zeros(36)>>

ColumnFields(column) ==
    <<Field(4, column.type), Field(4, column.len), Field(column.len, column.name)>>

BlockFields(block) ==
    [c \in DOMAIN block.tiles |-> Field(TileSize, block.tiles[c])]
      \o Padded(<<Field(8, block.delete_mask), Field(8, block.tail_size)>>
                  \o (IF block.tail_size = 0 THEN <<>>
                      ELSE <<Field(block.tail_size, block.tail)>>),
                16 + block.tail_size)

Fields(g) ==
    LET schema == Header(g) \o FlattenSeq([c \in DOMAIN g.columns |->
                                              ColumnFields(g.columns[c])])
    IN  Padded(schema, Size(schema))
          \o FlattenSeq([b \in DOMAIN g.blocks |-> BlockFields(g.blocks[b])])

\* The file of g, all of it; at[k] is the offset of field k.
Serialize(g) ==
    LET fields == Fields(g)
    IN  [size   |-> Size(fields),
         fields |-> fields,
         at     |-> [k \in DOMAIN fields |-> Size(SubSeq(fields, 1, k - 1))]]

\* The bytes of field k: where they begin, and how many they are.
FieldBytes(file, k) == <<file.at[k], file.fields[k].len>>
-----------------------------------------------------------------------------
(* Deserialize *)

\* Mutant: the last byte is not missed.
BoundsLoose(file, o, n) == o + n > file.size + 1

OutOfBounds(file, o, n) == o + n > file.size

\* What there is of n bytes at offset o.
Bytes(file, o, n) == <<o, IF o + n <= file.size THEN n ELSE file.size - o>>

(* A read in progress is [offset, got, ok]: where it is, the bytes read, and  *)
(* whether no exception was thrown, after which nothing more is looked at.    *)

Failed == [offset |-> 0, got |-> <<>>, ok |-> FALSE]

Take(file, r, n) ==
    IF ~r.ok \/ OutOfBounds(file, r.offset, n) THEN Failed
    ELSE [offset |-> r.offset + n, ok |-> TRUE,
          got    |-> Append(r.got, Bytes(file, r.offset, n))]

Skip(r, n) == [r EXCEPT !.offset = @ + n]

\* The length that was read last, if what was read last is a field.
LengthRead(file, r) ==
    LET Here(k) == FieldBytes(file, k) = Last(r.got)
    IN  IF r.ok /\ \E k \in DOMAIN file.fields : Here(k)
        THEN file.fields[CHOOSE k \in DOMAIN file.fields : Here(k)].val ELSE 0

ReadColumn(file, start) ==
    LET head == Take(file, Take(file, start, 4), 4)
    IN  Take(file, head, LengthRead(file, head))

ReadColumns(file, start, num_columns) ==
    LET read[c \in 0..num_columns] ==
            IF c = 0 THEN start ELSE ReadColumn(file, read[c - 1])
    IN  read[num_columns]

ReadTiles(file, start, num_columns) ==
    LET read[c \in 0..num_columns] ==
            IF c = 0 THEN start ELSE Take(file, read[c - 1], TileSize)
    IN  read[num_columns]

ReadTail(file, mask) ==
    LET head == Take(file, mask, 8)
        n == LengthRead(file, head)
        tail == IF n = 0 THEN head ELSE Take(file, head, n)
    IN  Skip(tail, Padding(16 + n))

ReadBlock(file, start, num_columns) ==
    ReadTail(file, Take(file, ReadTiles(file, start, num_columns), 8))

ReadBlocks(file, start, num_columns, num_blocks) ==
    LET read[b \in 0..num_blocks] ==
            IF b = 0 THEN start ELSE ReadBlock(file, read[b - 1], num_columns)
    IN  read[num_blocks]

\* What is read from a file, in order, or Failed.  The magic and the three
\* numbers behind it are read if there is a header at all.
Deserialize(file) ==
    LET start == [offset |-> Line, got |-> [k \in 1..4 |-> FieldBytes(file, k)],
                  ok |-> file.size >= Line]
        num_columns == file.fields[3].val
        num_blocks == file.fields[4].val
        schema == ReadColumns(file, start, num_columns)
    IN  ReadBlocks(file, Skip(schema, Padding(schema.offset)), num_columns, num_blocks)
-----------------------------------------------------------------------------
\* The bytes of the fields that hold data, in order.
Data(file) ==
    LET upto[k \in 0..Len(file.fields)] ==
            IF k = 0 THEN <<>>
            ELSE IF file.fields[k].data THEN Append(upto[k - 1], FieldBytes(file, k))
            ELSE upto[k - 1]
    IN  upto[Len(file.fields)]

\* Sizes that writing may leave a file at: around the boundaries of fields.
Cuts(file) ==
    LET Ends == {file.at[k] : k \in DOMAIN file.at} \cup {file.size}
    IN  UNION {{o - 1, o} : o \in Ends \ {0}}

\* A file is read back as the group it was written for, field by field, even if
\* its writing was cut off; else it is refused, unless only padding is missing.
ReadsBack(g) ==
    LET file == Serialize(g)
    IN  \A n \in Cuts(file) :
            LET r == Deserialize([file EXCEPT !.size = n])
            IN  IF n = file.size THEN r.ok /\ r.got = Data(file)
                ELSE r.ok => r.got = Data(file)
=============================================================================
