----------------------------- MODULE VolcanoPlan ------------------------------
(***************************************************************************)
(* The batch engine of lib/qengine/qengine.c under the planner of          *)
(* lib/sql_parser/sql.c (sql_plan): scan, filter, join, aggregation, sort, *)
(* limit and window operators that pull batches of rows from each other,   *)
(* and qengine_exec_json that prints what the last one gives.              *)
(*                                                                         *)
(* An operator is what it will deliver: [out, batches], out being the      *)
(* schema the operator itself holds (output_schema, NoSchema for a null    *)
(* pointer) and batches what next() returns before its end of stream.      *)
(* A cell is [v, null]: the memory of the cell and the bit of null_bitmap; *)
(* memory nobody wrote holds leftover[type].  A text is its place in the   *)
(* order of strcmp, 1 being the empty one; a number is a fraction n/d.     *)
(***************************************************************************)
EXTENDS Integers, Sequences, FiniteSets, SequencesExt

CONSTANTS
    Logs,            \* the tables: a set of [name -> [cols, log]]
    Questions,       \* the SELECTs asked: a sequence
    Leftovers,       \* what memory may hold: a set of [type -> scalar]
    BATCH_SIZE,      \* rows of a scanned batch
    AGG_MAX_GROUPS   \* groups one aggregation keeps

VARIABLES
    disk,      \* name -> [cols: <<[name, type]>>, log: <<[op, cells]>>]
    leftover,  \* type -> what memory nobody wrote reads as
    question,  \* the question being answered, 0 before it is asked
    printed    \* the rows of the answer: a sequence of tuples of scalars

volcanoVars == <<disk, leftover, question, printed>>

-----------------------------------------------------------------------------
(* Scalars and expressions.                                                  *)

Scalar(t, n, d) == [t |-> t, n |-> n, d |-> d]
Null == Scalar("null", 0, 1)
Whole(n) == Scalar("int", n, 1)
Dbl(n) == Scalar("dbl", n, 1)
Txt(n) == Scalar("text", n, 1)
Bool(b) == Scalar("bool", IF b THEN 1 ELSE 0, 1)
IsNum(x) == x.t \in {"int", "dbl"}
Cmp(x, y) == x.n * y.d - y.n * x.d

Node(e, name, v, args) == [e |-> e, name |-> name, v |-> v, args |-> args]
Col(name) == Node("col", name, Null, <<>>)
Lit(v) == Node("lit", "expr", v, <<>>)
Star == Node("star", "*", Null, <<>>)
Op(o, args) == Node(o, "expr", Null, args)
As(name, x) == Node("as", name, Null, <<x>>)

Aggregates == {"count", "sum", "avg", "min", "max"}
Bare(x) == IF x.e = "as" THEN x.args[1] ELSE x
IsAgg(x) == Bare(x).e = "fn" /\ Bare(x).name \in Aggregates
ColName(x) == x.name

(* The first column of the name, whatever table it came from.                *)
Read(name, c) ==
    LET at == {i \in DOMAIN c.schema : c.schema[i].name = name}
        cell == c.cells[CHOOSE i \in at : \A j \in at : i <= j]
    IN IF at = {} \/ cell.null THEN Null ELSE cell.v

Truthy(x) == x.t \notin {"bool", "null"} \/ (x.t = "bool" /\ x.n = 1)
Both(x, y) == IsNum(x) /\ IsNum(y)
SameText(x, y) == x.t = "text" /\ y.t = "text"

Compared(o, x, y) ==
    Bool(CASE o = "=" -> (SameText(x, y) \/ Both(x, y)) /\ Cmp(x, y) = 0
           [] o = "<>" -> (SameText(x, y) \/ Both(x, y)) /\ Cmp(x, y) # 0
           [] o = "<" -> Both(x, y) /\ Cmp(x, y) < 0
           [] o = "<=" -> Both(x, y) /\ Cmp(x, y) <= 0
           [] o = ">" -> Both(x, y) /\ Cmp(x, y) > 0
           [] o = ">=" -> Both(x, y) /\ Cmp(x, y) >= 0)

Computed(o, x, y) ==
    IF ~Both(x, y) THEN Dbl(0)
    ELSE Scalar(IF x.t = "int" /\ y.t = "int" THEN "int" ELSE "dbl",
                CASE o = "+" -> x.n * y.d + y.n * x.d
                  [] o = "-" -> x.n * y.d - y.n * x.d
                  [] o = "*" -> x.n * y.n,
                x.d * y.d)

Scalars1(f, x) ==
    CASE f = "abs" -> IF IsNum(x) THEN [x EXCEPT !.n = IF @ < 0 THEN -@ ELSE @] ELSE Null
      [] f = "isnull" -> Bool(x.t = "null")
      [] f = "isnotnull" -> Bool(x.t # "null")
      [] f = "not" -> Bool(~Truthy(x))
      [] f = "neg" -> IF IsNum(x) THEN [x EXCEPT !.n = -@] ELSE Null

Coalesced(vals) ==
    LET given == SelectSeq(vals, LAMBDA x : x.t # "null")
    IN IF given = <<>> THEN Null ELSE given[1]

NullIf(x, y) ==
    IF x.t # "null" /\ (Compared("=", x, y).n = 1 \/ (x.t = "bool" /\ x = y)) THEN Null ELSE x

(* eval_expr: an aggregate is a column that bears the name of its function   *)
(* (HAVING, ORDER BY) or, failing that, 0 for COUNT and NULL for the others. *)
RECURSIVE Eval(_, _)
Eval(x, c) ==
    CASE x.e = "lit" -> x.v
      [] x.e = "col" -> Read(x.name, c)
      [] x.e = "as" -> Eval(x.args[1], c)
      [] x.e = "and" -> Bool(Truthy(Eval(x.args[1], c)) /\ Truthy(Eval(x.args[2], c)))
      [] x.e = "or" -> Bool(Truthy(Eval(x.args[1], c)) \/ Truthy(Eval(x.args[2], c)))
      [] x.e \in {"=", "<>", "<", "<=", ">", ">="} -> Compared(x.e, Eval(x.args[1], c), Eval(x.args[2], c))
      [] x.e \in {"+", "-", "*"} -> Computed(x.e, Eval(x.args[1], c), Eval(x.args[2], c))
      [] x.e \in {"isnull", "isnotnull", "not", "neg"} -> Scalars1(x.e, Eval(x.args[1], c))
      [] x.e = "fn" ->
            CASE x.name \in Aggregates ->
                    IF \E i \in DOMAIN c.schema : c.schema[i].name = x.name THEN Read(x.name, c)
                    ELSE IF x.name = "count" THEN Whole(0) ELSE Null
              [] x.name = "coalesce" -> Coalesced([i \in DOMAIN x.args |-> Eval(x.args[i], c)])
              [] x.name = "nullif" -> NullIf(Eval(x.args[1], c), Eval(x.args[2], c))
              [] x.name = "abs" -> Scalars1("abs", Eval(x.args[1], c))
      [] x.e = "star" -> Null

EvalBool(x, c) ==
    CASE x.t = "text" -> x.n # 1 [] x.t = "null" -> FALSE [] OTHER -> x.n # 0
Holds(x, c) == EvalBool(Eval(x, c), c)

-----------------------------------------------------------------------------
(* Batches.                                                                  *)

NoSchema == <<>>
Ctx(schema, cells) == [schema |-> schema, cells |-> cells]
Batch(schema, rows) == [schema |-> schema, rows |-> rows]
Cell(v) == [v |-> v, null |-> FALSE]
Forgotten(row) == [c \in DOMAIN row |-> Cell(row[c].v)]

(* Who drains an operator stops at its first batch without rows.             *)
Drained(batches) ==
    LET empty == {i \in DOMAIN batches : batches[i].rows = <<>>}
    IN IF empty = {} THEN batches
       ELSE SubSeq(batches, 1, (CHOOSE i \in empty : \A j \in empty : i <= j) - 1)
RowsOf(batches) == FlattenSeq([i \in DOMAIN batches |-> batches[i].rows])

(* Rows are copied in cells of eight bytes, and a BOOL is an int of four:    *)
(* cell k holds the BOOLs of rows 2k-1 and 2k.                               *)
Halves(rows, c, cell, half) ==
    LET i == 2 * (cell - 1) + half IN IF i <= Len(rows) THEN rows[i][c].v ELSE leftover["bool"]
Copied(schema, rows, kept) ==
    [j \in DOMAIN kept |->
        [c \in DOMAIN schema |->
            IF schema[c].type # "bool" THEN rows[kept[j]][c]
            ELSE LET from == kept[(j + 1) \div 2] IN
                 [v |-> IF rows[from][c].null THEN leftover["bool"]
                        ELSE Halves(rows, c, from, IF j % 2 = 1 THEN 1 ELSE 2),
                  null |-> rows[kept[j]][c].null]]]

-----------------------------------------------------------------------------
(* Scan: the data records of the log, told from DELETE and UPDATE, short     *)
(* enough for line_buf, in batches.                                          *)

Parsed(type, cells, c) ==
    IF c > Len(cells) THEN Cell(IF type = "text" THEN Txt(1) ELSE Scalar(type, 0, 1))
    ELSE IF cells[c].t = "null" THEN [v |-> leftover[type], null |-> TRUE]
    ELSE Cell(cells[c])

Chunks(rows) ==
    [k \in 1 .. (Len(rows) + BATCH_SIZE - 1) \div BATCH_SIZE |->
        SubSeq(rows, (k - 1) * BATCH_SIZE + 1, IF k * BATCH_SIZE < Len(rows) THEN k * BATCH_SIZE ELSE Len(rows))]

Scan(name) ==
    LET cols == disk[name].cols
        data == SelectSeq(disk[name].log, LAMBDA r : r.op = "insert")
        rows == [i \in DOMAIN data |-> [c \in DOMAIN cols |-> Parsed(cols[c].type, data[i].cells, c)]]
        chunks == Chunks(rows)
    IN [out |-> cols, batches |-> [k \in DOMAIN chunks |-> Batch(cols, chunks[k])]]

(* Filter: batches left empty are passed over.                               *)
Kept(pred, b) ==
    SelectSeq([i \in DOMAIN b.rows |-> i], LAMBDA i : Holds(pred, Ctx(b.schema, b.rows[i])))
FilteredBatch(pred, b) == Batch(b.schema, Copied(b.schema, b.rows, Kept(pred, b)))
FilterKeepsEmpty(src, pred) ==
    [out |-> NoSchema, batches |-> [i \in DOMAIN src.batches |-> FilteredBatch(pred, src.batches[i])]]
Filter(src, pred) ==
    [out |-> NoSchema, batches |-> SelectSeq([i \in DOMAIN src.batches |-> FilteredBatch(pred, src.batches[i])],
                                            LAMBDA b : b.rows # <<>>)]

(* Limit: a batch skipped whole is delivered, without its rows.              *)
Taken(acc, b, limit) ==
    LET skip == IF acc.left < Len(b.rows) THEN acc.left ELSE Len(b.rows)
        avail == IF limit - acc.emitted < Len(b.rows) - skip THEN limit - acc.emitted ELSE Len(b.rows) - skip
        rows == Copied(b.schema, b.rows, [j \in 1 .. avail |-> skip + j])
    IN IF acc.emitted >= limit THEN acc
       ELSE IF acc.left > 0 /\ skip = Len(b.rows)
            THEN [acc EXCEPT !.left = @ - skip, !.got = Append(@, Batch(b.schema, <<>>))]
            ELSE [left |-> 0, emitted |-> acc.emitted + avail, got |-> Append(acc.got, Batch(b.schema, rows))]
Limit(src, limit, offset) ==
    [out |-> src.out,
     batches |-> FoldLeft(LAMBDA acc, b : Taken(acc, b, limit),
                          [left |-> offset, emitted |-> 0, got |-> <<>>], src.batches).got]

(* Window: keeps the rows it drained with the columns of its own schema,     *)
(* which is not known when the operator is built.                            *)
Window(src) ==
    [out |-> NoSchema,
     batches |-> LET chunks == Chunks([i \in DOMAIN RowsOf(Drained(src.batches)) |-> <<>>])
                 IN [k \in DOMAIN chunks |-> Batch(NoSchema, chunks[k])]]

-----------------------------------------------------------------------------
(* Aggregation.                                                              *)

FreshAcc == [cnt |-> 0, sum |-> Dbl(0), best |-> Null, has |-> FALSE]

(* agg_find_group: a linear search; no place is left beyond AGG_MAX_GROUPS.  *)
SameKey(k, l) == \A i \in DOMAIN k : k[i].t = l[i].t /\ (k[i].t = "null" \/ Cmp(k[i], l[i]) = 0)
Places(st, key) == {g \in DOMAIN st.keys : SameKey(st.keys[g], key)}
FindGroup(st, key, nout) ==
    IF Places(st, key) # {} \/ Len(st.keys) >= AGG_MAX_GROUPS THEN st
    ELSE [keys |-> Append(st.keys, key), acc |-> Append(st.acc, [o \in 1 .. nout |-> FreshAcc])]

Better(f, x, best) ==
    CASE x.t \in {"int", "dbl", "text"} -> IF f = "min" THEN Cmp(x, best) < 0 ELSE Cmp(x, best) > 0
      [] OTHER -> FALSE

Accumulate(f, x, a) ==
    LET counted == [a EXCEPT !.cnt = @ + 1]
        number == IF IsNum(x) THEN x ELSE leftover["dbl"]
    IN CASE f = "count" \/ x.t = "null" -> counted
         [] f \in {"sum", "avg"} ->
               [counted EXCEPT !.sum = Scalar("dbl", @.n * number.d + number.n * @.d, @.d * number.d)]
         [] f \in {"min", "max"} ->
               IF ~a.has \/ Better(f, x, a.best) THEN [counted EXCEPT !.best = x, !.has = TRUE] ELSE counted

Argument(x, c) ==
    IF x.args = <<>> \/ x.args[1].e = "star" THEN Whole(1) ELSE Eval(x.args[1], c)
Updated(x, a, c) ==
    IF ~IsAgg(x) THEN IF a.has THEN a ELSE [a EXCEPT !.best = Eval(x, c), !.has = TRUE]
    ELSE IF Bare(x).name = "count" /\ Argument(Bare(x), c).t = "null" THEN a
    ELSE Accumulate(Bare(x).name, Argument(Bare(x), c), a)

RowIn(st, c, keys, outs) ==
    LET key == [k \in DOMAIN keys |-> Eval(keys[k], c)]
        found == FindGroup(st, key, Len(outs))
    IN [found EXCEPT !.acc = [g \in DOMAIN @ |->
           IF g \in Places(found, key) THEN [o \in DOMAIN outs |-> Updated(outs[o], @[g][o], c)] ELSE @[g]]]

(* Without GROUP BY there is one group from the start.                       *)
Grouped(src, keys, outs) ==
    FoldLeft(LAMBDA st, p : RowIn(st, p, keys, outs),
             IF keys = <<>> THEN [keys |-> <<<<>>>>, acc |-> <<[o \in DOMAIN outs |-> FreshAcc]>>]
             ELSE [keys |-> <<>>, acc |-> <<>>],
             FlattenSeq([i \in DOMAIN Drained(src.batches) |->
                 [r \in DOMAIN src.batches[i].rows |-> Ctx(src.batches[i].schema, src.batches[i].rows[r])]]))

Result(x, a) ==
    CASE ~IsAgg(x) -> a.best
      [] IsAgg(x) /\ Bare(x).name = "count" -> Whole(a.cnt)
      [] IsAgg(x) /\ Bare(x).name = "avg" -> IF a.cnt = 0 THEN Dbl(0) ELSE Scalar("dbl", a.sum.n, a.sum.d * a.cnt)
      [] IsAgg(x) /\ Bare(x).name = "sum" -> a.sum
      [] IsAgg(x) /\ Bare(x).name \in {"min", "max"} -> IF a.has THEN a.best ELSE Null

(* The type of a column is what the first group holds.                       *)
OutType(x, first) ==
    CASE IsAgg(x) /\ Bare(x).name = "count" -> "int"
      [] IsAgg(x) /\ Bare(x).name \in {"sum", "avg"} -> "dbl"
      [] IsAgg(x) /\ Bare(x).name \in {"min", "max"} -> IF first.best.t = "text" THEN "text" ELSE "dbl"
      [] ~IsAgg(x) -> IF first.best.t \in {"int", "dbl"} THEN first.best.t ELSE "text"

Emitted(type, x) ==
    [v |-> CASE type = "text" -> IF x.t = "text" THEN x ELSE Txt(1)
             [] type # "text" /\ x.t = "text" -> leftover[type]
             [] type # "text" /\ x.t # "text" -> Scalar(type, x.n, x.d),
     null |-> x.t = "null"]

HashAgg(src, keys, outs) ==
    LET st == Grouped(src, keys, outs)
        schema == [o \in DOMAIN outs |->
                      [name |-> ColName(outs[o]),
                       type |-> IF st.acc = <<>> THEN "text" ELSE OutType(outs[o], st.acc[1][o])]]
    IN [out |-> NoSchema,
        batches |-> [g \in DOMAIN st.acc |->
            Batch(schema, <<[o \in DOMAIN outs |-> Emitted(schema[o].type, Result(outs[o], st.acc[g][o]))]>>)]]

-----------------------------------------------------------------------------
(* Sort: all the rows in one batch, without their null_bitmap; qsort keeps   *)
(* equal rows in order (the merge sort of glibc).                            *)

Precedes(order, c, d) ==
    LET by(o, e) == Eval(order[o].e, e)
        cmp(o) == IF Both(by(o, c), by(o, d)) \/ SameText(by(o, c), by(o, d)) THEN Cmp(by(o, c), by(o, d)) ELSE 0
        differ == {o \in DOMAIN order : cmp(o) # 0}
        o1 == CHOOSE o \in differ : \A p \in differ : o <= p
    IN differ # {} /\ (IF order[o1].desc THEN cmp(o1) > 0 ELSE cmp(o1) < 0)

SortedRows(order, schema, rows) ==
    LET earlier(i) == {j \in DOMAIN rows :
            \/ Precedes(order, Ctx(schema, rows[j]), Ctx(schema, rows[i]))
            \/ j < i /\ ~Precedes(order, Ctx(schema, rows[i]), Ctx(schema, rows[j]))}
    IN Copied(schema, rows, [k \in DOMAIN rows |-> CHOOSE i \in DOMAIN rows : Cardinality(earlier(i)) = k - 1])

Sort(src, order) ==
    LET rows == [i \in DOMAIN RowsOf(Drained(src.batches)) |-> Forgotten(RowsOf(Drained(src.batches))[i])]
        schema == IF src.out # NoSchema \/ src.batches = <<>> THEN src.out ELSE src.batches[1].schema
    IN [out |-> src.out,
        batches |-> IF rows = <<>> THEN <<>> ELSE <<Batch(schema, SortedRows(order, schema, rows))>>]

(* Join: the right side is drained first; nothing of it, and rows of the     *)
(* left one go through as they are.  A pair that meets ON is a batch.        *)
Packed(schema, rows, i) ==
    [c \in DOMAIN schema |-> Cell(IF schema[c].type = "bool" THEN Halves(rows, c, i, 1) ELSE rows[i][c].v)]

Pairs(left, right, on) ==
    LET lsc == left.out
        rights == RowsOf(Drained(right.batches))
        both == lsc \o right.out
        pair(b, i, j) == Packed(lsc, b.rows, i) \o Packed(right.out, rights, j)
        met(b, i) == SelectSeq([j \in DOMAIN rights |-> j], LAMBDA j : Holds(on, Ctx(both, pair(b, i, j))))
    IN FlattenSeq([k \in DOMAIN Drained(left.batches) |->
           FlattenSeq([i \in DOMAIN left.batches[k].rows |->
               [m \in DOMAIN met(left.batches[k], i) |->
                   Batch(both, <<pair(left.batches[k], i, met(left.batches[k], i)[m])>>)]])])

Join(left, right, on) ==
    [out |-> NoSchema,
     batches |-> IF RowsOf(Drained(right.batches)) = <<>> THEN left.batches ELSE Pairs(left, right, on)]

-----------------------------------------------------------------------------
(* The plan of a SELECT (sql_plan) and its operators (qengine_build): an     *)
(* optional part is a sequence of at most one.  A plan with DISTINCT has no  *)
(* operator: nothing comes of it.                                            *)

Maybe(part, apply(_), src) == IF part = <<>> THEN src ELSE apply(part[1])

RECURSIVE From(_, _)
From(q, n) ==
    IF n = 1 THEN Scan(q.from[1].table)
    ELSE Join(From(q, n - 1), Scan(q.from[n].table), q.from[n].on)

Filtered(q) == Maybe(q.where, LAMBDA e : Filter(From(q, Len(q.from)), e), From(q, Len(q.from)))
Aggregated(q, src) == IF q.group # <<>> THEN HashAgg(src, q.group, q.items) ELSE src
Having(q, src) == Maybe(q.having, LAMBDA e : Filter(src, e), src)
Projected(q, src) ==
    IF q.group = <<>> /\ \E i \in DOMAIN q.items : IsAgg(q.items[i]) THEN HashAgg(src, <<>>, q.items) ELSE src
Windowed(q, src) == IF q.window THEN Window(src) ELSE src
Ordered(q, src) == IF q.order # <<>> THEN Sort(src, q.order) ELSE src
Limited(q, src) == IF q.limit >= 0 THEN Limit(src, q.limit, q.offset) ELSE src

Plan(q) == Limited(q, Ordered(q, Windowed(q, Projected(q, Having(q, Aggregated(q, Filtered(q)))))))

(* qengine_exec_json: the cells of every row up to the first empty batch.    *)
ExecJson(op) ==
    LET rows == RowsOf(Drained(op.batches))
    IN [i \in DOMAIN rows |-> [c \in DOMAIN rows[i] |-> IF rows[i][c].null THEN Null ELSE rows[i][c].v]]

Init ==
    /\ disk \in Logs
    /\ leftover \in Leftovers
    /\ question = 0
    /\ printed = <<>>

Ask(i) ==
    /\ question = 0
    /\ question' = i
    /\ printed' = IF Questions[i].distinct THEN <<>> ELSE ExecJson(Plan(Questions[i]))
    /\ UNCHANGED <<disk, leftover>>

Next == \E i \in DOMAIN Questions : Ask(i)

Spec == Init /\ [][Next]_volcanoVars

-----------------------------------------------------------------------------
(* What a SELECT asks for, by sets: the reference.                           *)

q0 == Questions[question]
Table(k) == disk[q0.from[k].table]
Written(k) == SelectSeq(Table(k).log, LAMBDA r : r.op = "insert")
Combos == IF Len(q0.from) = 1 THEN {<<i>> : i \in DOMAIN Written(1)}
          ELSE {<<i, j>> : i \in DOMAIN Written(1), j \in DOMAIN Written(2)}
RowOf(x) == IF Len(x) = 1 THEN Written(1)[x[1]].cells ELSE Written(1)[x[1]].cells \o Written(2)[x[2]].cells
Columns == IF Len(q0.from) = 1 THEN Table(1).cols ELSE Table(1).cols \o Table(2).cols
Place(name, cols) == CHOOSE i \in DOMAIN cols : cols[i].name = name

(* TRUE, FALSE or unknown (Null), as SQL has it; what has no operator below  *)
(* is asked of Served.                                                       *)
RECURSIVE Truth(_, _, _)
Value(e, cols, row) == IF e.e = "lit" THEN e.v ELSE row[Place(e.name, cols)]
Truth(e, cols, row) ==
    CASE e.e \in {"and", "or"} ->
            LET l == Truth(e.args[1], cols, row)
                r == Truth(e.args[2], cols, row)
                strong == Bool(e.e = "or")
            IN IF strong \in {l, r} THEN strong ELSE IF Null \in {l, r} THEN Null ELSE Bool(e.e = "and")
      [] e.e \in {"isnull", "isnotnull"} -> Bool((Value(e.args[1], cols, row).t = "null") = (e.e = "isnull"))
      [] OTHER ->
            LET l == Value(e.args[1], cols, row)
                r == Value(e.args[2], cols, row)
            IN IF "null" \in {l.t, r.t} THEN Null
               ELSE Bool(CASE e.e = "=" -> Cmp(l, r) = 0
                           [] e.e = "<>" -> Cmp(l, r) # 0
                           [] e.e = "<" -> Cmp(l, r) < 0
                           [] e.e = ">" -> Cmp(l, r) > 0)
IsTrue(e, cols, row) == Truth(e, cols, row) = Bool(TRUE)

Chosen == {x \in Combos : /\ \A k \in 2 .. Len(q0.from) : IsTrue(q0.from[k].on, Columns, RowOf(x))
                          /\ \A k \in DOMAIN q0.where : IsTrue(q0.where[k], Columns, RowOf(x))}

Given(e, g) == {x \in g : e.args # <<>> /\ e.args[1].e = "col"
                            => RowOf(x)[Place(e.args[1].name, Columns)].t # "null"}
Cells(e, g) == [x \in Given(e, g) |-> RowOf(x)[Place(e.args[1].name, Columns)]]
Sum(f) == Dbl(FoldSet(LAMBDA x, n : n + f[x].n, 0, DOMAIN f))
Extreme(S, sign) == CHOOSE v \in S : \A w \in S : sign * Cmp(v, w) >= 0
RefItem(x, g) ==
    CASE ~IsAgg(x) -> Value(Bare(x), Columns, RowOf(CHOOSE y \in g : TRUE))
      [] IsAgg(x) /\ Bare(x).name = "count" -> Whole(Cardinality(Given(Bare(x), g)))
      [] IsAgg(x) /\ Bare(x).name = "sum" -> Sum(Cells(Bare(x), g))
      [] IsAgg(x) /\ Bare(x).name = "avg" -> [Sum(Cells(Bare(x), g)) EXCEPT !.d = Cardinality(g)]
      [] IsAgg(x) /\ Bare(x).name \in {"min", "max"} ->
            LET f == Cells(Bare(x), g) IN Extreme({f[y] : y \in DOMAIN f}, IF Bare(x).name = "min" THEN -1 ELSE 1)

WithAgg == q0.group # <<>> \/ \E i \in DOMAIN q0.items : IsAgg(q0.items[i])
KeyOf(x) == [k \in DOMAIN q0.group |-> Value(q0.group[k], Columns, RowOf(x))]
Groups == IF q0.group = <<>> THEN {Chosen} ELSE {{y \in Chosen : KeyOf(y) = KeyOf(x)} : x \in Chosen}
ItemCols == [i \in DOMAIN q0.items |-> [name |-> ColName(q0.items[i])]]
RefRow(g) == [i \in DOMAIN q0.items |-> RefItem(q0.items[i], g)]

(* What should be printed, but for ORDER BY and LIMIT: a row for each index. *)
Expected ==
    IF ~WithAgg THEN [x \in Chosen |-> RowOf(x)]
    ELSE [g \in {g \in Groups : \A k \in DOMAIN q0.having : IsTrue(q0.having[k], ItemCols, RefRow(g))} |-> RefRow(g)]

(* What the engine is asked within its means; the README lists the rest.     *)
NullFree(k, names) ==
    \A i \in DOMAIN Written(k), c \in DOMAIN Table(k).cols :
        Table(k).cols[c].name \in names => Written(k)[i].cells[c].t # "null"
ColumnNames == {Columns[c].name : c \in DOMAIN Columns}
Summed == {Bare(q0.items[i]).args[1].name : i \in {i \in DOMAIN q0.items : IsAgg(q0.items[i]) /\ Bare(q0.items[i]).name \in {"count", "sum"}}}
Served ==
    /\ Len(q0.from) <= 2 /\ ~q0.distinct /\ ~q0.window
    /\ q0.having # <<>> => q0.group # <<>>
    /\ q0.offset > 0 => q0.order # <<>>
    /\ Len(q0.from) = 2 => Written(2) # <<>>
    /\ \A k \in DOMAIN q0.from :
         /\ \A i \in DOMAIN Table(k).log : Table(k).log[i].op = "insert"
         /\ \A c \in DOMAIN Table(k).cols : Table(k).cols[c].type # "bool"
         /\ NullFree(k, IF Len(q0.from) = 2 \/ (q0.order # <<>> /\ ~WithAgg) THEN ColumnNames
                        ELSE IF WithAgg THEN ColumnNames \ Summed ELSE {})
    /\ WithAgg => Cardinality(Groups) <= AGG_MAX_GROUPS
    /\ Chosen = {} => \A i \in DOMAIN q0.items : IsAgg(q0.items[i]) => Bare(q0.items[i]).name \in {"count", "sum"}

Same(r, s) == DOMAIN r = DOMAIN s /\ \A c \in DOMAIN r : (r[c].t = "null") = (s[c].t = "null") /\ Cmp(r[c], s[c]) = 0
Before(r, s) ==
    LET cols == IF WithAgg THEN ItemCols ELSE Columns
        cmp(o) == Cmp(r[Place(q0.order[o].e.name, cols)], s[Place(q0.order[o].e.name, cols)])
                      * (IF q0.order[o].desc THEN -1 ELSE 1)
    IN \E o \in DOMAIN q0.order : cmp(o) < 0 /\ \A p \in 1 .. o - 1 : cmp(p) = 0

(* Batches handed from operator to operator, groups kept in a table, rows    *)
(* sorted in memory and cut by LIMIT: what is printed is the page asked for  *)
(* of the rows the SELECT describes, each as often as there, in an order     *)
(* ORDER BY allows (scan_next, filter_next, join_next, agg_next, sort_next,  *)
(* limit_next, qengine_build, sql_plan).                                     *)
VolcanoAgrees ==
    (question # 0 /\ Served) =>
        \A want \in {Expected} :
        LET skip == IF q0.limit >= 0 THEN q0.offset ELSE 0
            total == Cardinality(DOMAIN want)
            page == IF total <= skip THEN 0
                    ELSE IF q0.limit >= 0 /\ q0.limit < total - skip THEN q0.limit ELSE total - skip
        IN /\ Len(printed) = page
           /\ \A i \in DOMAIN printed :
                /\ Cardinality({j \in DOMAIN printed : Same(printed[j], printed[i])})
                     <= Cardinality({x \in DOMAIN want : Same(want[x], printed[i])})
                /\ q0.order # <<>> =>
                     /\ Cardinality({x \in DOMAIN want : Before(want[x], printed[i])}) < i + skip
                     /\ Cardinality({x \in DOMAIN want : ~Before(printed[i], want[x])}) >= i + skip
=============================================================================
