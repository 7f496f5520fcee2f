------------------------------ MODULE StoredRows ------------------------------
(***************************************************************************)
(* What table_append makes of a batch and what a scan makes of it again:   *)
(* in the debug build a line of fields per row (lib/storage/storage.c,     *)
(* wal_split_row of src/gateway/api.c), in the release build one record    *)
(* with every column encoded on its own (lib/storage/compress.c).          *)
(*                                                                         *)
(* A column is a sequence of cells with a type: "text", or "int" for an    *)
(* array of native integers.                                               *)
(***************************************************************************)
EXTENDS CellValues, Sequences, FiniteSets, SequencesExt

CONSTANTS
    Sample,     \* rows choose_encoding looks at (1000)
    CodeMax,    \* values a one-byte code tells apart (256)
    DictMax,    \* most values of a dictionary (65535)
    RunMax,     \* longest run a count holds (65535)
    NullWord,   \* the text that reads NULL
    Specials    \* texts with a separator, a quote or a line end in them

ASSUME CodecAssumption ==
    /\ {Sample, CodeMax, DictMax, RunMax} \subseteq Nat \ {0} /\ CodeMax <= DictMax
    /\ NullWord.k = "text" /\ \A t \in Specials : t.k = "text"

-----------------------------------------------------------------------------
(* compress.c.  The NULLs are a bitmap beside the values; under a NULL the   *)
(* text encodings keep "", the others what was there (0).                    *)

Nulls(cells) == [i \in DOMAIN cells |-> IsNull(cells[i])]
Plain(type, cells) ==
    [i \in DOMAIN cells |-> IF ~IsNull(cells[i]) THEN cells[i]
                            ELSE IF type = "text" THEN Empty ELSE Num(0)]

RECURSIVE RunsOf(_)
RunsOf(s) ==
    IF s = <<>> THEN <<>>
    ELSE LET same == {n \in 1 .. Len(s) : n <= RunMax /\ \A i \in 1 .. n : s[i] = s[1]}
             n == CHOOSE m \in same : \A k \in same : k <= m
         IN <<[count |-> n, value |-> s[1]]>> \o RunsOf(SubSeq(s, n + 1, Len(s)))

(* A new place in the dictionary for each value not seen before.             *)
Dictionary(s) == FoldLeft(LAMBDA d, v : IF Contains(d, v) THEN d ELSE Append(d, v), <<>>, s)

(* compress_choose_encoding looks at the first rows only.                    *)
Runs(s) == Cardinality({i \in 1 .. Len(s) : i = 1 \/ s[i] # s[i - 1]})
ChooseEncoding(type, cells) ==
    LET s == SubSeq(Plain(type, cells), 1, IF Len(cells) < Sample THEN Len(cells) ELSE Sample)
        few == Len(Dictionary(s)) < CodeMax
    IN IF type = "int" THEN "dict"
       ELSE IF Runs(s) <= Len(s) \div 3 THEN "rle"
       ELSE IF few THEN "dict" ELSE "plain"

(* One byte for a code if the dictionary is small: the byte wraps.           *)
ShortCodesOneMore(d) == Len(d) <= CodeMax + 1                    \* mutant
ShortCodes(d) == Len(d) <= CodeMax
Codes(d, s) ==
    [i \in DOMAIN s |-> LET code == (CHOOSE j \in DOMAIN d : d[j] = s[i]) - 1
                        IN IF ShortCodes(d) THEN code % CodeMax ELSE code]

(* compress_col: what does not fit a dictionary is kept plain.               *)
CompressCol(type, cells) ==
    LET s == Plain(type, cells)
        enc == ChooseEncoding(type, cells)
        d == Dictionary(s)
        col == [type |-> type, nulls |-> Nulls(cells)]
    IN CASE enc = "rle" -> col @@ [enc |-> "rle", runs |-> RunsOf(s)]
         [] enc = "dict" /\ Len(d) <= DictMax -> col @@ [enc |-> "dict", dict |-> d, codes |-> Codes(d, s)]
         [] OTHER -> col @@ [enc |-> "plain", values |-> s]

DecompressCol(c) ==
    CASE c.enc = "rle" -> FlattenSeq([r \in DOMAIN c.runs |-> [i \in 1 .. c.runs[r].count |-> c.runs[r].value]])
      [] c.enc = "dict" -> [i \in DOMAIN c.codes |-> c.dict[c.codes[i] + 1]]
      [] OTHER -> c.values

(* The record holds each column's type and encoding, but no schema: the scan *)
(* takes a batch without a schema for text.  A small native integer read as  *)
(* the address of a text is NULL.                                            *)
Serialized(cols) == [schema |-> <<>>, cols |-> cols]
ReadAs(type, v) == IF type = "text" /\ v.k = "num" THEN Null ELSE v
Decompressed(rec, natives) ==
    [c \in DOMAIN rec.cols |->
        LET vs == DecompressCol(rec.cols[c]) IN
        [i \in DOMAIN vs |-> IF rec.cols[c].nulls[i] THEN Null
                             ELSE IF natives[c] THEN ReadAs("text", vs[i]) ELSE vs[i]]]

-----------------------------------------------------------------------------
(* The line of a row.  It is escaped as a whole when one of its texts needs  *)
(* it: empty, the word NULL, or with a special character in it.              *)

NeedsEsc(v) == v \in {Empty, NullWord} \cup Specials
Quoted(v) == NeedsEsc(v)
LineOf(row) ==
    [esc |-> \E i \in DOMAIN row : Quoted(row[i]),
     fields |-> [i \in DOMAIN row |-> [text |-> IF IsNull(row[i]) THEN NullWord ELSE row[i],
                                       quoted |-> Quoted(row[i])]]]

(* wal_split_row: in an escaped line only an unquoted NULL is one; without   *)
(* the mark every NULL is, and a special character would tear the field.     *)
FieldOf(line, f) ==
    IF f.text = NullWord /\ ~(line.esc /\ f.quoted) THEN Null
    ELSE IF f.text \in Specials /\ ~line.esc THEN Empty ELSE f.text
SplitRow(line) == [i \in DOMAIN line.fields |-> FieldOf(line, line.fields[i])]

-----------------------------------------------------------------------------
(* table_append and the scan, by build.  types: the columns of the batch.    *)

Transposed(rows) == [c \in DOMAIN rows[1] |-> [i \in DOMAIN rows |-> rows[i][c]]]

Appended(build, types, rows) ==
    IF build = "release"
    THEN <<[op |-> "batch", natives |-> [c \in DOMAIN types |-> types[c] = "int"],
            rec |-> Serialized(LET t == Transposed(rows) IN
                               [c \in DOMAIN types |-> CompressCol(types[c], t[c])])]>>
    ELSE [i \in DOMAIN rows |-> [op |-> "row", line |-> LineOf(rows[i])]]

RowsOf(r) == IF r.op = "row" THEN <<SplitRow(r.line)>> ELSE Transposed(Decompressed(r.rec, r.natives))

ScanRows(log) == FlattenSeq([i \in DOMAIN log |-> RowsOf(log[i])])
=============================================================================
