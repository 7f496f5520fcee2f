----------------------------- MODULE SelectQuery ------------------------------
(***************************************************************************)
(* SELECT as src/gateway/api.c executes it: the evaluator of expressions   *)
(* (eval_val, eval_func), the nested-loop join, groups and their           *)
(* accumulators, DISTINCT, windows, ORDER BY, LIMIT, the ceiling of a      *)
(* result and the cap of POST /api/tables/query, over tables stored by     *)
(* table_append (StoredRows).                                              *)
(*                                                                         *)
(* A statement is what sql_parse makes of it: a record.  Numbers are       *)
(* integers: no fractions, hence no AVG and no division.                   *)
(***************************************************************************)
EXTENDS StoredRows

CONSTANTS
    Tables,      \* name -> [cols: names, types: "text" | "int"]
    Batches,     \* name -> the batches a request may bring: sequences of rows
    Statements,  \* what is asked: a sequence
    Indexed,     \* <<table, column>>: INT64 columns with an index (debug build)
    Builds,      \* "debug", "release"
    MaxRsRows,   \* MAX_RS_ROWS, the ceiling of a result
    RestCap,     \* rows a client gets at most
    MaxBatches   \* bound: batches of one behaviour

ASSUME QueryAssumption ==
    /\ Builds \subseteq {"debug", "release"}
    /\ {MaxRsRows, RestCap, MaxBatches} \subseteq Nat \ {0}

VARIABLES
    build,     \* the build that runs
    store,     \* table -> the records of its log
    sent,      \* history: table -> the rows ingested
    stmt,      \* the statement just answered, 0 for none
    answer     \* [cols, rows, truncated]

vars == <<build, store, sent, stmt, answer>>

-----------------------------------------------------------------------------
(* Expressions.                                                              *)

NoSpec == [none |-> TRUE]
Expr(op, tab, name, val, args, spec) ==
    [op |-> op, tab |-> tab, name |-> name, val |-> val, args |-> args, spec |-> spec]
Lit(v) == Expr("lit", "", "", v, <<>>, NoSpec)
Col(t, c) == Expr("col", t, c, Null, <<>>, NoSpec)
Star == Expr("star", "", "*", Null, <<>>, NoSpec)
Op(o, args) == Expr(o, "", o, Null, args, NoSpec)
Agg(f, arg) == Expr("agg", "", f, Null, <<arg>>, NoSpec)
AggDistinct(f, arg) == Expr("agg", "distinct", f, Null, <<arg>>, NoSpec)
WithQuery(o, args, query) == Expr(o, "", o, Null, args, query)
Window(f, args, part, order, frame) ==
    Expr("window", "", f, Null, args, [part |-> part, order |-> order, frame |-> frame])

(* Every node of an expression, parents first; an aggregate's own argument   *)
(* is not looked into.                                                       *)
RECURSIVE Nodes(_)
Nodes(e) ==
    <<e>> \o IF e.op \in {"agg", "window"} THEN <<>>
             ELSE FlattenSeq([i \in DOMAIN e.args |-> Nodes(e.args[i])])

Uniq(s) == FoldLeft(LAMBDA d, x : IF Contains(d, x) THEN d ELSE Append(d, x), <<>>, s)
Aggs(e) == Uniq(SelectSeq(Nodes(e), LAMBDA x : x.op = "agg"))
HasAgg(e) == Aggs(e) # <<>>
FirstAgg(e) == Aggs(e)[1]
Windows(e) == SelectSeq(Nodes(e), LAMBDA x : x.op = "window")
HasWindow(e) == Windows(e) # <<>>

(* expr_find_agg_args: the same function of the same arguments; whether it   *)
(* is DISTINCT is not asked.                                                 *)
FindsAgg(e, f, args) == \E i \in DOMAIN Aggs(e) : Aggs(e)[i].name = f /\ Aggs(e)[i].args = args

-----------------------------------------------------------------------------
(* Statements.  An item is an expression with an alias or ""; a source has   *)
(* a table or a statement of its own; order: [e, desc].                      *)

Item(e, as) == [e |-> e, as |-> as]
Source(table, alias, join, on) == [table |-> table, alias |-> alias, join |-> join, on |-> <<on>>, query |-> <<>>]
From(table) == [table |-> table, alias |-> "", join |-> "INNER", on |-> <<>>, query |-> <<>>]
Derived(query, alias) == [table |-> "", alias |-> alias, join |-> "INNER", on |-> <<>>, query |-> <<query>>]
Asc(e) == [e |-> e, desc |-> FALSE]
Desc(e) == [e |-> e, desc |-> TRUE]

Select(items, from) ==
    [kind |-> "select", ctes |-> <<>>, items |-> items, from |-> from, where |-> <<>>, group |-> <<>>,
     having |-> <<>>, distinct |-> FALSE, order |-> <<>>, skip |-> 0, take |-> -1]
SetOp(o, l, r) == [kind |-> o, left |-> l, right |-> r]

NameOf(item) == IF item.as # "" THEN item.as ELSE item.e.name
IsStar(s) == Len(s.items) = 1 /\ s.items[1].e.op = "star"

-----------------------------------------------------------------------------
(* The row an expression is evaluated in: frames, one for each source, each  *)
(* with a row or none; the row of the enclosing statement; the group while   *)
(* groups are emitted; the values of the windows.                            *)

NoRow == <<>>
NoGroup == [on |-> FALSE]
Env(frames, outer) == [frames |-> frames, outer |-> outer, group |-> NoGroup, windows |-> <<>>]

(* jctx_col: the first source that has a row and the column.                 *)
Having(frames, t, c) ==
    {i \in DOMAIN frames : /\ frames[i].row # NoRow /\ Contains(frames[i].cols, c)
                           /\ (t = "" \/ t \in frames[i].names)}
Least(S) == CHOOSE i \in S : \A j \in S : i <= j
Greatest(S) == CHOOSE i \in S : \A j \in S : i >= j
CellIn(frames, t, c) ==
    LET f == frames[Least(Having(frames, t, c))] IN
    f.row[Least({i \in DOMAIN f.cols : f.cols[i] = c})]

(* EXPR_COL: the row, else the enclosing row, else NULL.                     *)
Column(env, t, c) ==
    IF Having(env.frames, t, c) # {} THEN CellIn(env.frames, t, c)
    ELSE IF Having(env.outer, t, c) # {} THEN CellIn(env.outer, t, c) ELSE Null

(* A cell of a subquery is taken as it is: NULL is its mark.                 *)
OfSubquery(cell) == IF IsNull(cell) THEN Leaked ELSE cell
OfRows(o, args, rows) ==
    CASE o = "EXISTS" -> Bool(rows # <<>>)
      [] o = "SUBQUERY" -> IF rows = <<>> THEN Null ELSE OfSubquery(rows[1][1])
      [] OTHER -> Bool((\E i \in DOMAIN rows : Same(args[1], OfSubquery(rows[i][1]))) = (o = "IN"))

Compared(o, a, b) ==
    IF o \in {"=", "<>"} THEN Same(a, b) = (o = "=")
    ELSE \E sign \in {Cmp(a, b)} : \/ sign < 0 /\ o \in {"<", "<="}
                                   \/ sign = 0 /\ o \in {"<=", ">="}
                                   \/ sign > 0 /\ o \in {">", ">="}
Between(a, lo, hi) == ~IsNull(a) /\ Compared(">=", a, lo) /\ Compared("<=", a, hi)
NotBetween(a, lo, hi) == ~IsNull(a) /\ (Compared("<", a, lo) \/ Compared(">", a, hi))

(* + of what are not numbers would concatenate: no statement here asks it.   *)
Computed(o, a, b) ==
    IF ~(IsNumber(a) /\ IsNumber(b)) THEN Null
    ELSE Calc(CASE o = "+" -> a.n + b.n [] o = "-" -> a.n - b.n [] o = "*" -> a.n * b.n)

(* greatest and least keep the best so far; a NULL that is best is replaced. *)
Best(vals, sign) ==
    FoldLeft(LAMBDA best, v : IF IsNull(best) \/ Cmp(v, best) * sign > 0 THEN v ELSE best, Null, vals)

-----------------------------------------------------------------------------
(* Groups.  Every item of the select list has a slot, and so has every       *)
(* aggregate that HAVING or ORDER BY alone asks for.                         *)

NewSlot == [sum |-> 0, count |-> 0, min |-> Null, max |-> Null, seen |-> {}]
NewGroup(key, nslots, nitems) ==
    [key |-> key, total |-> 0, slots |-> [s \in 1 .. nslots |-> NewSlot], first |-> [s \in 1 .. nitems |-> <<>>]]

(* agg_accumulate.  A NULL is not accumulated; DISTINCT looks at the text.   *)
Accumulate(slot, f, distinct, v) ==
    IF IsNull(v) \/ (distinct /\ Shown(v) \in slot.seen) THEN slot
    ELSE LET seen == [slot EXCEPT !.count = @ + 1, !.seen = IF distinct THEN @ \cup {Shown(v)} ELSE @] IN
         IF f = "COUNT" THEN seen
         ELSE [seen EXCEPT !.sum = @ + (IF IsNumber(v) THEN v.n ELSE 0),
                           !.min = IF IsNull(@) \/ CmpShown(v, @) < 0 THEN Shown(v) ELSE @,
                           !.max = IF IsNull(@) \/ CmpShown(v, @) > 0 THEN Shown(v) ELSE @]

(* agg_slot_value: whatever the slot accumulated is read as what is asked.   *)
SlotValue(slot, f) ==
    CASE f = "COUNT" -> Calc(slot.count)
      [] f = "SUM" -> Calc(slot.sum)
      [] f = "MIN" -> slot.min
      [] f = "MAX" -> slot.max

(* An aggregate inside an expression, HAVING or ORDER BY: the first slot     *)
(* whose item has it; 0 or NULL outside a group.                             *)
AggValue(group, f, args) ==
    LET its == IF group.on THEN {i \in DOMAIN group.items : FindsAgg(group.items[i].e, f, args)} ELSE {}
        extra == IF group.on THEN {i \in DOMAIN group.extra : FindsAgg(group.extra[i], f, args)} ELSE {}
    IN IF its # {} THEN SlotValue(group.acc.slots[Least(its)], f)
       ELSE IF extra # {} THEN SlotValue(group.acc.slots[Len(group.items) + Least(extra)], f)
       ELSE IF f = "COUNT" THEN Calc(IF group.on THEN group.acc.total ELSE 0)
       ELSE IF f = "SUM" THEN Calc(0) ELSE Null

-----------------------------------------------------------------------------
(* Evaluation.  db: the build, the logs and the ceiling; a subquery sees the *)
(* row it stands in, but no CTE.                                             *)

NoResults == <<>>                                  \* no CTE, no derived table

(* A statement is evaluated as an expression whose value is its result.      *)
RECURSIVE Eval(_, _, _)
Stmt(s) == Expr("stmt", "", "", Null, <<>>, s)
ExecStmt(db, s, results, outer) == Eval(db, [frames |-> outer, results |-> results], Stmt(s))

Holds(db, env, cond) == cond = <<>> \/ Truthy(Eval(db, env, cond[1]))

-----------------------------------------------------------------------------
(* Sources.  extract_idx_hint: the first "column = number" or "column        *)
(* BETWEEN numbers" among the conjuncts of WHERE; whose column is not asked. *)

RECURSIVE Conjuncts(_)
Conjuncts(e) == IF e.op = "AND" THEN Conjuncts(e.args[1]) \o Conjuncts(e.args[2]) ELSE <<e>>

NoHint == [col |-> "", lo |-> 0, hi |-> 0]
IsNumeral(e) == e.op = "lit" /\ e.val.k = "num"
Hints(e) ==
    LET a == e.args IN
    CASE e.op = "=" /\ a[1].op = "col" /\ IsNumeral(a[2]) -> <<[col |-> a[1].name, lo |-> a[2].val.n, hi |-> a[2].val.n]>>
      [] e.op = "=" /\ a[2].op = "col" /\ IsNumeral(a[1]) -> <<[col |-> a[2].name, lo |-> a[1].val.n, hi |-> a[1].val.n]>>
      [] e.op = "BETWEEN" /\ a[1].op = "col" /\ IsNumeral(a[2]) /\ IsNumeral(a[3])
            -> <<[col |-> a[1].name, lo |-> a[2].val.n, hi |-> a[3].val.n]>>
      [] OTHER -> <<>>
HintOf(where) ==
    LET hs == IF where = <<>> THEN <<>> ELSE FlattenSeq([i \in DOMAIN Conjuncts(where[1]) |-> Hints(Conjuncts(where[1])[i])])
    IN IF hs = <<>> THEN NoHint ELSE hs[1]

UsesIndex(db, t, hint) == db.build = "debug" /\ <<t, hint.col>> \in Indexed

(* A new row behind those it does not precede: stable.                       *)
Sorted(rows, precedes(_, _)) ==
    FoldLeft(LAMBDA s, x :
                LET keep == {i \in DOMAIN s : ~precedes(x, s[i])}
                    at == IF keep = {} THEN 0 ELSE Greatest(keep)
                IN SubSeq(s, 1, at) \o <<x>> \o SubSeq(s, at + 1, Len(s)),
             <<>>, rows)

(* load_tbl over the index: the rows of the range, by key.                   *)
IndexRows(db, t, hint) ==
    LET c == Least({i \in DOMAIN Tables[t].cols : Tables[t].cols[i] = hint.col})
        found == SelectSeq(ScanRows(db.store[t]), LAMBDA r : r[c].k = "num" /\ r[c].n \in hint.lo .. hint.hi)
    IN Sorted(found, LAMBDA r, q : r[c].n < q[c].n)

TableRows(db, t, hint) == IF UsesIndex(db, t, hint) THEN IndexRows(db, t, hint) ELSE ScanRows(db.store[t])

(* A CTE comes before a table of the catalog; a derived table is executed.   *)
Loaded(db, results, outer, src, hint) ==
    IF src.query # <<>>
    THEN LET rs == ExecStmt(db, src.query[1], results, outer)
         IN [names |-> {src.alias}, cols |-> rs.cols, rows |-> rs.rows]
    ELSE IF \E i \in DOMAIN results : results[i].name = src.table
    THEN LET rs == results[Least({i \in DOMAIN results : results[i].name = src.table})]
         IN [names |-> {src.table, src.alias}, cols |-> rs.cols, rows |-> rs.rows]
    ELSE [names |-> {src.table, src.alias}, cols |-> Tables[src.table].cols, rows |-> TableRows(db, src.table, hint)]

-----------------------------------------------------------------------------
(* join_recurse: rows of the sources in nested loops, each tested against ON *)
(* as soon as it is there.  An unmatched row of a LEFT JOIN leaves this and  *)
(* every later source without a row; RIGHT and FULL pad nothing.             *)

Frame(table, row) == [names |-> table.names, cols |-> table.cols, row |-> row]

PadsNothing(join) == FALSE                                       \* mutant
Pads(join) == join = "LEFT"

RECURSIVE JoinRows(_, _, _, _, _)
JoinRows(db, outer, from, tables, frames) ==
    LET d == Len(frames) + 1
        with(i) == Append(frames, Frame(tables[d], tables[d].rows[i]))
        matches == SelectSeq([i \in DOMAIN tables[d].rows |-> i],
                             LAMBDA i : d = 1 \/ Holds(db, Env(with(i), outer), from[d].on))
    IN
    IF d > Len(tables) THEN <<frames>>
    ELSE IF matches = <<>> /\ d > 1 /\ Pads(from[d].join)
    THEN <<frames \o [i \in 1 .. Len(tables) - d + 1 |-> Frame(tables[d + i - 1], NoRow)]>>
    ELSE FlattenSeq([m \in DOMAIN matches |-> JoinRows(db, outer, from, tables, with(matches[m]))])

-----------------------------------------------------------------------------
(* collect_row.  c: what is being executed; st: the result so far, OFFSET    *)
(* and LIMIT left of an early page, the groups.                              *)

(* rs_add: at the ceiling the row is dropped and the result marked.          *)
RsAdd(db, rs, row) ==
    IF Len(rs.rows) >= db.ceiling THEN [rs EXCEPT !.truncated = TRUE] ELSE [rs EXCEPT !.rows = Append(@, row)]

(* ORDER BY an alias, then ORDER BY a place in the list.                     *)
OrderExpr(items, e) ==
    LET named == {i \in DOMAIN items : e.op = "col" /\ items[i].as # "" /\ items[i].as = e.name}
        a == IF named = {} THEN e ELSE items[Least(named)].e
    IN IF IsNumeral(a) /\ a.val.n \in DOMAIN items THEN items[a.val.n].e ELSE a

Keys(c, env, exprs) == [o \in DOMAIN exprs |-> Shown(Eval(c.db, env, exprs[o]))]

StarCells(frames) ==
    FlattenSeq([f \in DOMAIN frames |->
        IF frames[f].row = NoRow THEN [i \in DOMAIN frames[f].cols |-> Empty] ELSE frames[f].row])
Projected(c, env) ==
    IF IsStar(c.sel) THEN StarCells(env.frames)
    ELSE [i \in DOMAIN c.sel.items |-> CellOf(Eval(c.db, env, c.sel.items[i].e))]

(* agg_row: an item with an aggregate accumulates the first one it has, any  *)
(* other keeps its first value.                                              *)
Added(c, env, slot, agg) ==
    IF agg.args[1].op = "star" THEN [slot EXCEPT !.count = @ + 1]
    ELSE Accumulate(slot, agg.name, agg.tab = "distinct", Eval(c.db, env, agg.args[1]))
AggRow(c, env, g) ==
    LET its == c.sel.items IN
    [g EXCEPT !.total = @ + 1,
              !.slots = [s \in DOMAIN @ |->
                  IF s <= Len(its) /\ ~HasAgg(its[s].e) THEN @[s]
                  ELSE Added(c, env, @[s], IF s > Len(its) THEN c.extra[s - Len(its)] ELSE FirstAgg(its[s].e))],
              !.first = [s \in DOMAIN @ |->
                  IF HasAgg(its[s].e) \/ @[s] # <<>> THEN @[s] ELSE <<Shown(Eval(c.db, env, its[s].e))>>]]

(* find_or_create_grp: the key is what the GROUP BY values look like.        *)
GroupKey(c, env) == [g \in DOMAIN c.sel.group |-> Shown(Eval(c.db, env, c.sel.group[g]))]
InGroup(c, env, groups, key) ==
    LET at == SelectInSeq(groups, LAMBDA g : g.key = key) IN
    IF at # 0 THEN groups
    ELSE Append(groups, NewGroup(key, Len(c.sel.items) + Len(c.extra), Len(c.sel.items)))
Counted(c, env, groups, key) ==
    [g \in DOMAIN groups |-> IF groups[g].key = key THEN AggRow(c, env, groups[g]) ELSE groups[g]]
Grouped(c, env, groups) ==
    LET with(key) == Counted(c, env, InGroup(c, env, groups, key), key) IN with(GroupKey(c, env))

CollectRow(c, st, env) ==
    IF ~Holds(c.db, env, c.sel.where) THEN st
    ELSE IF c.agg THEN [st EXCEPT !.groups = Grouped(c, env, @)]
    ELSE IF c.early /\ st.take = 0 THEN st
    ELSE IF c.early /\ st.skip > 0 THEN [st EXCEPT !.skip = @ - 1]
    ELSE [st EXCEPT !.take = IF c.early /\ @ > 0 THEN @ - 1 ELSE @,
                    !.rs = RsAdd(c.db, @, [cells |-> Projected(c, env),
                                           keys |-> Keys(c, env, [o \in DOMAIN c.sel.order |-> OrderExpr(c.sel.items, c.sel.order[o].e)])])]
Collect(c, st, frames) == CollectRow(c, st, Env(frames, c.outer))

(* stream_tbl_scan: one table, record by record, until LIMIT or the ceiling  *)
(* is reached.  Without WHERE a whole batch before OFFSET is passed over.    *)
PassedOverEarly(st, n) == st.skip > 0                            \* mutant
PassedOver(st, n) == st.skip >= n
Streamed(c, table, log, start) ==
    LET fast == c.early /\ c.sel.where = <<>>
        done(st) == (c.early /\ st.take = 0) \/ (st.rs.truncated /\ ~c.agg)
        row(st, r) == IF done(st) THEN st
                      ELSE IF fast /\ st.skip > 0 THEN [st EXCEPT !.skip = @ - 1]
                      ELSE Collect(c, st, <<Frame(table, r)>>)
        record(st, rec) ==
            LET rows == RowsOf(rec) IN
            IF done(st) THEN st
            ELSE IF fast /\ rec.op = "batch" /\ PassedOver(st, Len(rows))
                 THEN [st EXCEPT !.skip = @ - Len(rows)]
            ELSE FoldLeft(row, st, rows)
    IN FoldLeft(record, start, log)

-----------------------------------------------------------------------------
(* emit_groups: a group is a row if HAVING holds of it.                      *)

OutFrame(cols, cells) == [names |-> {""}, cols |-> cols, row |-> cells]

GroupCell(c, group, env, i) ==
    LET e == c.sel.items[i].e
        slot == group.acc.slots[i]
        v == IF e.op = "agg" THEN SlotValue(slot, e.name)
             ELSE IF HasAgg(e) THEN Eval(c.db, env, e) ELSE group.acc.first[i][1]
    IN IF e.op = "agg" THEN Shown(v) ELSE CellOf(v)

GroupRow(c, rs, cells, env) ==
    IF ~Holds(c.db, env, c.sel.having) THEN rs
    ELSE RsAdd(c.db, rs, [cells |-> cells, keys |-> Keys(c, env, [o \in DOMAIN c.sel.order |-> c.sel.order[o].e])])
Emitted(c, rs, g) ==
    LET group == [on |-> TRUE, items |-> c.sel.items, extra |-> c.extra, acc |-> g]
        inside(frames) == [Env(frames, c.outer) EXCEPT !.group = group]
        with(cells) == GroupRow(c, rs, cells, inside(<<OutFrame(rs.cols, cells)>>))
    IN with([i \in DOMAIN c.sel.items |-> GroupCell(c, group, inside(<<>>), i)])

-----------------------------------------------------------------------------
(* apply_windows, over the columns of the result: a partition is the rows    *)
(* that look the same, in the order of the window.                           *)

Precedes(order, a, b) ==
    LET differ == {o \in DOMAIN order : CmpShown(a[o], b[o]) # 0} IN
    differ # {} /\ LET o == Least(differ) IN
                   IF order[o].desc THEN CmpShown(a[o], b[o]) > 0 ELSE CmpShown(a[o], b[o]) < 0

WinStart(frame, p, n) == IF p + frame.lo < 1 THEN 1 ELSE IF p + frame.lo > n THEN n + 1 ELSE p + frame.lo
WinEnd(frame, p, n) == IF p + frame.hi > n THEN n ELSE IF p + frame.hi < 1 THEN 1 ELSE p + frame.hi

(* What a window is at place p of a partition; keys, args: the order keys   *)
(* and the arguments of its rows.                                            *)
WindowValue(w, p, keys, args) ==
    LET n == Len(keys)
        f == w.name
        sp == w.spec
        lo == IF sp.frame # <<>> THEN WinStart(sp.frame[1], p, n) ELSE 1
        hi == IF sp.frame # <<>> THEN WinEnd(sp.frame[1], p, n)
              ELSE IF sp.order # <<>> /\ f \in {"COUNT", "SUM", "MIN", "MAX"} THEN p ELSE n
        other == IF f = "LEAD" THEN p + 1 ELSE p - 1
        vals == SelectSeq([i \in 1 .. hi - lo + 1 |-> args[lo + i - 1]], LAMBDA v : ~IsNull(v))
        nums == [i \in DOMAIN vals |-> IF IsNumber(vals[i]) THEN vals[i].n ELSE 0]
        set == {nums[i] : i \in DOMAIN nums}
    IN
    CASE f = "ROW_NUMBER" -> Num(p)
      [] f = "RANK" -> Num(Least({q \in 1 .. p : \A r \in q .. p : keys[r] = keys[p]}))
      [] f = "DENSE_RANK" -> Num(Cardinality({q \in 1 .. p : q = 1 \/ keys[q] # keys[q - 1]}))
      [] f \in {"LAG", "LEAD"} -> IF other \in 1 .. n THEN Shown(args[other]) ELSE Num(0)
      [] f = "FIRST_VALUE" -> Shown(args[lo])
      [] f = "LAST_VALUE" -> Shown(args[hi])
      [] f = "COUNT" -> Num(Len(vals))
      [] f = "SUM" -> Num(FoldLeft(LAMBDA a, b : a + b, 0, nums))
      [] f = "MIN" -> IF set = {} THEN Empty ELSE Num(Least(set))
      [] f = "MAX" -> IF set = {} THEN Empty ELSE Num(Greatest(set))

WindowOf(w, mates, r, keys, args) ==
    WindowValue(w, CHOOSE p \in DOMAIN mates : mates[p] = r, [p \in DOMAIN mates |-> keys[mates[p]]],
                [p \in DOMAIN mates |-> args[mates[p]]])
WindowMates(w, parts, keys, r) ==
    Sorted(SelectSeq([q \in DOMAIN parts |-> q], LAMBDA q : parts[q] = parts[r]),
           LAMBDA q, s : Precedes(w.spec.order, keys[q], keys[s]))
WindowColumn(w, parts, keys, args) ==
    [r \in DOMAIN parts |-> WindowOf(w, WindowMates(w, parts, keys, r), r, keys, args)]
(* What a window is in every row of the result.                              *)
WindowAt(db, rs, outer, w) ==
    LET at(e, r) == Eval(db, Env(<<OutFrame(rs.cols, rs.rows[r].cells)>>, outer), e)
        shown(es) == [r \in DOMAIN rs.rows |-> [k \in DOMAIN es |-> Shown(at(es[k], r))]]
    IN WindowColumn(w, shown(w.spec.part), shown([k \in DOMAIN w.spec.order |-> w.spec.order[k].e]),
                    [r \in DOMAIN rs.rows |-> IF w.args = <<>> THEN Null ELSE at(w.args[1], r)])

Refreshed(db, sel, outer, rs, values) ==
    LET env(r, cells) == [Env(<<OutFrame(rs.cols, cells)>>, outer) EXCEPT !.windows = [w \in DOMAIN values |-> values[w][r]]]
        item(r, cells, i) ==
            IF HasWindow(sel.items[i].e) THEN [cells EXCEPT ![i] = CellOf(Eval(db, env(r, cells), sel.items[i].e))]
            ELSE cells
        row(r) == FoldLeft(LAMBDA cells, i : item(r, cells, i), rs.rows[r].cells, [i \in DOMAIN sel.items |-> i])
    IN [rs EXCEPT !.rows = [r \in DOMAIN @ |-> [@[r] EXCEPT !.cells = row(r)]]]
ApplyWindows(db, sel, outer, rs) ==
    LET all == UNION {{Windows(sel.items[i].e)[k] : k \in DOMAIN Windows(sel.items[i].e)} : i \in DOMAIN sel.items}
    IN IF all = {} THEN rs ELSE Refreshed(db, sel, outer, rs, [w \in all |-> WindowAt(db, rs, outer, w)])

-----------------------------------------------------------------------------
(* exec_select.                                                              *)

(* A later row with the same cells is dropped.                               *)
WithoutDuplicates(rows) ==
    FoldLeft(LAMBDA kept, r : IF \E i \in DOMAIN kept : kept[i].cells = r.cells THEN kept ELSE Append(kept, r), <<>>, rows)

Sliced(rows, skip, take) ==
    LET from == IF skip > Len(rows) THEN Len(rows) ELSE skip
    IN SubSeq(rows, from + 1, IF take >= 0 /\ from + take < Len(rows) THEN from + take ELSE Len(rows))

(* Aggregates of HAVING and ORDER BY that no item has.                       *)
ExtraAggs(sel) ==
    LET asked == Uniq(FlattenSeq([i \in DOMAIN sel.having |-> Aggs(sel.having[i])]
                                 \o [o \in DOMAIN sel.order |-> Aggs(sel.order[o].e)])) IN
    SelectSeq(asked, LAMBDA a : ~\E i \in DOMAIN sel.items : FindsAgg(sel.items[i].e, a.name, a.args))

(* A page may be cut while rows are emitted only if nothing later drops or   *)
(* reorders rows.                                                            *)
EarlyPage(sel, agg) ==
    /\ ~agg /\ ~sel.distinct /\ sel.order = <<>>
    /\ ~\E i \in DOMAIN sel.items : HasWindow(sel.items[i].e)
    /\ sel.skip > 0 \/ sel.take >= 0

Ordered(sel, rows) == Sorted(rows, LAMBDA a, b : Precedes(sel.order, a.keys, b.keys))

ColsOf(sel, tables) ==
    IF IsStar(sel) THEN FlattenSeq([t \in DOMAIN tables |-> tables[t].cols])
    ELSE [i \in DOMAIN sel.items |-> NameOf(sel.items[i])]

(* From the tables to the rows, or the groups.                               *)
Started(sel, tables) ==
    [rs |-> [cols |-> ColsOf(sel, tables), rows |-> <<>>, truncated |-> FALSE],
     skip |-> sel.skip, take |-> sel.take, groups |-> <<>>]
ReadJoined(c, tables) ==
    FoldLeft(LAMBDA st, frames : Collect(c, st, frames), Started(c.sel, tables),
             JoinRows(c.db, c.outer, c.sel.from, tables, <<>>))
ReadStream(c, table, log) == Streamed(c, table, log, Started(c.sel, <<table>>))
Read(c, results, src, hint) ==
    IF /\ Len(c.sel.from) = 1 /\ src.query = <<>>
       /\ ~\E i \in DOMAIN results : results[i].name = src.table
       /\ ~UsesIndex(c.db, src.table, hint)
    THEN ReadStream(c, [names |-> {src.table, src.alias}, cols |-> Tables[src.table].cols, rows |-> <<>>],
                    c.db.store[src.table])
    ELSE ReadJoined(c, [t \in DOMAIN c.sel.from |-> Loaded(c.db, results, c.outer, c.sel.from[t], hint)])

(* From the rows to the answer.                                              *)
OfGroups(c, st) == IF c.agg THEN FoldLeft(LAMBDA r, g : Emitted(c, r, g), st.rs, st.groups) ELSE st.rs
Distinct(sel, rs) == IF sel.distinct THEN [rs EXCEPT !.rows = WithoutDuplicates(@)] ELSE rs
Finished(c, rs) ==
    [rs EXCEPT !.rows = LET rows == IF c.early THEN Ordered(c.sel, @) ELSE Sliced(Ordered(c.sel, @), c.sel.skip, c.sel.take)
                        IN [r \in DOMAIN rows |-> rows[r].cells]]

WithCtes(db, sel, given, outer) ==
    FoldLeft(LAMBDA known, cte : Append(known, ExecStmt(db, cte.body, known, outer) @@ [name |-> cte.name]), given, sel.ctes)
Context(db, sel, outer, agg) ==
    [db |-> db, sel |-> sel, outer |-> outer, agg |-> agg, extra |-> ExtraAggs(sel), early |-> EarlyPage(sel, agg)]
IsAggregate(sel) == sel.group # <<>> \/ sel.having # <<>> \/ \E i \in DOMAIN sel.items : HasAgg(sel.items[i].e)
SelectFrom(c, results) ==
    Finished(c, ApplyWindows(c.db, c.sel, c.outer,
                             Distinct(c.sel, OfGroups(c, Read(c, results, c.sel.from[1], HintOf(c.sel.where))))))
ExecSelect(db, sel, given, outer) ==
    IF sel.from = <<>>
    THEN [cols |-> ColsOf(sel, <<>>), truncated |-> FALSE,
          rows |-> <<[i \in DOMAIN sel.items |-> CellOf(Eval(db, Env(<<>>, outer), sel.items[i].e))]>>]
    ELSE SelectFrom(Context(db, sel, outer, IsAggregate(sel)), WithCtes(db, sel, given, outer))

(* exec_stmt: the rows of both sides; one side cut short marks the result.   *)
Combined(db, o, l, r) ==
    LET add(rs, row) == RsAdd(db, rs, row)
        addNew(rs, row) == IF Contains(rs.rows, row) THEN rs ELSE RsAdd(db, rs, row)
        none == [cols |-> l.cols, rows |-> <<>>, truncated |-> FALSE]
        out == CASE o = "UNION ALL" -> FoldLeft(add, none, l.rows \o r.rows)
                 [] o = "UNION" -> FoldLeft(addNew, none, l.rows \o r.rows)
                 [] o = "INTERSECT" -> FoldLeft(add, none, SelectSeq(l.rows, LAMBDA x : Contains(r.rows, x)))
                 [] o = "EXCEPT" -> FoldLeft(add, none, SelectSeq(l.rows, LAMBDA x : ~Contains(r.rows, x)))
    IN [out EXCEPT !.truncated = @ \/ l.truncated \/ r.truncated]

StmtResult(db, s, results, outer) ==
    IF s.kind = "select" THEN ExecSelect(db, s, results, outer)
    ELSE Combined(db, s.kind, ExecStmt(db, s.left, results, outer), ExecStmt(db, s.right, results, outer))

(* eval_val and eval_func.                                                   *)
Eval(db, env, e) ==
    LET arg(i) == Eval(db, env, e.args[i])
        n == Len(e.args)
    IN
    CASE e.op = "lit" -> e.val
      [] e.op = "col" -> Column(env, e.tab, e.name)
      [] e.op = "star" -> Txt(1)
      [] e.op = "agg" -> AggValue(env.group, e.name, e.args)
      [] e.op = "window" -> IF e \in DOMAIN env.windows THEN env.windows[e] ELSE Null
      [] e.op = "IS NULL" -> Bool(IsNull(arg(1)))
      [] e.op = "IS NOT NULL" -> Bool(~IsNull(arg(1)))
      [] e.op = "NOT" -> Bool(~Truthy(arg(1)))
      [] e.op = "-" /\ n = 1 -> IF IsNumber(arg(1)) THEN Calc(-arg(1).n) ELSE Null
      [] e.op = "AND" -> Bool(Truthy(arg(1)) /\ Truthy(arg(2)))
      [] e.op = "OR" -> Bool(Truthy(arg(1)) \/ Truthy(arg(2)))
      [] e.op \in {"=", "<>", "<", "<=", ">", ">="} -> Bool(Compared(e.op, arg(1), arg(2)))
      [] e.op \in {"+", "-", "*"} -> Computed(e.op, arg(1), arg(2))
      [] e.op = "BETWEEN" -> Bool(Between(arg(1), arg(2), arg(3)))
      [] e.op = "NOT BETWEEN" -> Bool(NotBetween(arg(1), arg(2), arg(3)))
      [] e.op \in {"IN", "NOT IN"} /\ e.spec = NoSpec ->
            Bool((\E i \in 2 .. n : Same(arg(1), arg(i))) = (e.op = "IN"))
      [] e.op \in {"IN", "NOT IN", "EXISTS", "SUBQUERY"} ->
            OfRows(e.op, [i \in 1 .. n |-> arg(i)], ExecStmt(db, e.spec, NoResults, env.frames).rows)
      [] e.op = "CASE" ->
            LET hit == {i \in 1 .. n - 1 : i % 2 = 1 /\ Truthy(arg(i))} IN
            arg(IF hit = {} THEN n ELSE Least(hit) + 1)
      [] e.op = "COALESCE" ->
            LET some == SelectSeq([i \in 1 .. n |-> arg(i)], LAMBDA x : ~IsNull(x)) IN IF some = <<>> THEN Null ELSE some[1]
      [] e.op = "NULLIF" -> IF Same(arg(1), arg(2)) THEN Null ELSE arg(1)
      [] e.op = "IF" -> IF Truthy(arg(1)) THEN arg(2) ELSE arg(IF n >= 3 THEN 3 ELSE 2)
      [] e.op \in {"GREATEST", "LEAST"} -> Best([i \in 1 .. n |-> arg(i)], IF e.op = "LEAST" THEN -1 ELSE 1)
      [] e.op = "stmt" -> StmtResult(db, e.spec, env.results, env.frames)

-----------------------------------------------------------------------------
(* Requests.                                                                 *)

Db == [build |-> build, store |-> store, ceiling |-> MaxRsRows]
NoAnswer == [cols |-> <<>>, rows |-> <<>>, truncated |-> FALSE]
NoStatement == 0
asked == Statements[stmt]

Init ==
    /\ build \in Builds
    /\ store = [t \in DOMAIN Tables |-> <<>>]
    /\ sent = [t \in DOMAIN Tables |-> <<>>]
    /\ stmt = NoStatement /\ answer = NoAnswer

(* A batch is appended as it came.                                           *)
Ingest(t, rows) ==
    /\ store' = [store EXCEPT ![t] = @ \o Appended(build, Tables[t].types, rows)]
    /\ sent' = [sent EXCEPT ![t] = Append(@, rows)]
    /\ stmt' = NoStatement /\ answer' = NoAnswer /\ UNCHANGED build

(* h_query asks for one row more than a client may get; if it comes, it is   *)
(* taken off and the answer marked.                                          *)
Clipped(rs) ==
    IF Len(rs.rows) > RestCap THEN [rs EXCEPT !.rows = SubSeq(@, 1, RestCap), !.truncated = TRUE] ELSE rs
Answer(s) ==
    IF s.kind = "select" /\ (s.take < 0 \/ s.take > RestCap)
    THEN Clipped(ExecStmt(Db, [s EXCEPT !.take = RestCap + 1], NoResults, <<>>))
    ELSE ExecStmt(Db, s, NoResults, <<>>)

Query(i) ==
    /\ stmt' = i /\ answer' = Answer(Statements[i])
    /\ UNCHANGED <<build, store, sent>>

Next ==
    \/ \E t \in DOMAIN Tables : \E rows \in Batches[t] : Len(sent[t]) < MaxBatches /\ Ingest(t, rows)
    \/ stmt = NoStatement /\ \E i \in DOMAIN Statements : Query(i)

Spec == Init /\ [][Next]_vars

-----------------------------------------------------------------------------
(* What the answers have to be.                                              *)

Sent(t) == FlattenSeq(sent[t])

(* Whatever the encoding of a column or the quoting of a line, a scan gives  *)
(* back the rows that were appended: NULL, the empty text and the word NULL  *)
(* told apart, long runs and full dictionaries included (compress.c,         *)
(* table_append, wal_split_row).                                             *)
ReadsBack == \A t \in DOMAIN Tables : ScanRows(store[t]) = Sent(t)

(* The reference of a select without groups and windows: every choice of a   *)
(* row from each source, 0 standing for none.                                *)
SourceOf(s, src) ==
    LET cte == {i \in DOMAIN s.ctes : s.ctes[i].name = src.table}
        query == IF cte # {} THEN <<s.ctes[Least(cte)].body>> ELSE src.query
    IN
    IF query = <<>> THEN [names |-> {src.table, src.alias}, cols |-> Tables[src.table].cols, rows |-> Sent(src.table)]
    ELSE LET rs == ExecStmt(Db, query[1], NoResults, <<>>) IN [names |-> {src.table, src.alias}, cols |-> rs.cols, rows |-> rs.rows]
FramesOf(ts, pick, d) ==
    [i \in 1 .. d |-> Frame(ts[i], IF pick[i] = 0 THEN NoRow ELSE ts[i].rows[pick[i]])]
On(s, ts, pick, d) == Holds(Db, Env(FramesOf(ts, pick, d), <<>>), s.from[d].on)
Joined(s, ts, pick) ==
    \A d \in DOMAIN ts :
        IF pick[d] # 0 THEN d = 1 \/ On(s, ts, pick, d)
        ELSE /\ d > 1 /\ s.from[d].join = "LEFT"
             /\ \A i \in DOMAIN ts[d].rows : ~On(s, ts, [pick EXCEPT ![d] = i], d)
RECURSIVE Picks(_, _)
Picks(ts, d) == IF d = 0 THEN {<<>>} ELSE {Append(p, i) : p \in Picks(ts, d - 1), i \in 0 .. Len(ts[d].rows)}
Selects(s, ts, pick) == Joined(s, ts, pick) /\ Holds(Db, Env(FramesOf(ts, pick, Len(ts)), <<>>), s.where)
SelectedOf(s, ts) ==
    {FramesOf(ts, pick, Len(ts)) @@ (0 :> pick) : pick \in {p \in Picks(ts, Len(ts)) : Selects(s, ts, p)}}
Selected(s) == UNION {SelectedOf(s, ts) : ts \in {[d \in DOMAIN s.from |-> SourceOf(s, s.from[d])]}}
FramesIn(x) == [d \in DOMAIN x \ {0} |-> x[d]]
RowOf(s, x) == Projected([db |-> Db, sel |-> s], Env(FramesIn(x), <<>>))

(* The rows that belong to the answer, each with how often: a bag.           *)
BagOfRows(rows) == [r \in Range(rows) |-> Cardinality({i \in DOMAIN rows : rows[i] = r})]
Once(bag) == [r \in DOMAIN bag |-> 1]
RowsSelected(s) == [x \in Selected(s) |-> RowOf(s, x)]
SelectedBag(s, bag) == IF s.distinct THEN Once(bag) ELSE bag
SetBag(o, l, r) ==
    CASE o = "UNION ALL" -> l (+) r
      [] o = "UNION" -> Once(l (+) r)
      [] o = "INTERSECT" -> [x \in DOMAIN l \cap DOMAIN r |-> l[x]]
      [] o = "EXCEPT" -> [x \in DOMAIN l \ DOMAIN r |-> l[x]]
RECURSIVE Reference(_)
Reference(s) ==
    IF s.kind = "select" THEN SelectedBag(s, BagOfRows(RowsSelected(s)))
    ELSE SetBag(s.kind, Reference(s.left), Reference(s.right))

Windowed(s) == s.kind = "select" /\ \E i \in DOMAIN s.items : HasWindow(s.items[i].e)
Aggregated(s) == s.kind = "select" /\ IsAggregate(s)
Paged(s) == s.kind = "select" /\ (s.skip > 0 \/ s.take >= 0)

(* Nested loops that pad, an index on one column, batches passed over, a     *)
(* CTE or a derived table, DISTINCT and set operations: the answer is the    *)
(* rows of the relational definition, each as often, in the order asked for. *)
RowsAgree ==
    (stmt # NoStatement /\ ~answer.truncated /\ ~Aggregated(asked) /\ ~Windowed(asked) /\ ~Paged(asked)) =>
        /\ BagOfRows(answer.rows) = Reference(asked)
        /\ asked.kind = "select" /\ asked.order # <<>> =>
              LET cell(row, e) == IF IsNumeral(e) THEN row[e.val.n]
                                  ELSE Eval(Db, Env(<<OutFrame(answer.cols, row)>>, <<>>), e)
              IN \A keys \in {[i \in DOMAIN answer.rows |->
                                   [o \in DOMAIN asked.order |-> Shown(cell(answer.rows[i], asked.order[o].e))]]} :
                    \A i, j \in DOMAIN keys : i < j => ~Precedes(asked.order, keys[j], keys[i])

(* An aggregate over the rows of a group; vals: its argument in each row.    *)
AggOf(agg, vals) ==
    LET counted == {x \in DOMAIN vals : ~IsNull(vals[x])}
        numbers == IF agg.tab = "distinct" THEN {<<vals[x]>> : x \in counted} ELSE {<<vals[x], x[0]>> : x \in counted}
        best(sign) == Shown(vals[CHOOSE x \in counted : \A y \in counted : CmpShown(vals[y], vals[x]) * sign <= 0])
    IN CASE agg.name = "COUNT" -> Num(IF agg.tab = "distinct" THEN Cardinality(numbers) ELSE Cardinality(counted))
         [] agg.name = "SUM" -> Num(MapThenSumSet(LAMBDA p : IF IsNumber(p[1]) THEN p[1].n ELSE 0, numbers))
         [] agg.name \in {"MIN", "MAX"} -> IF counted = {} THEN Empty ELSE best(IF agg.name = "MAX" THEN 1 ELSE -1)
RefAgg(agg, group) == AggOf(agg, [x \in group |-> Eval(Db, Env(FramesIn(x), <<>>), agg.args[1])])

RefGroups(s, keys) == {{x \in DOMAIN keys : keys[x] = k} : k \in Range(keys)}

RECURSIVE Plugged(_, _)
Plugged(e, group) ==
    IF e.op = "agg" THEN Lit(RefAgg(e, group))
    ELSE [e EXCEPT !.args = [i \in DOMAIN @ |-> Plugged(@[i], group)]]

(* Rows find their group, DISTINCT counts a value once, an aggregate that    *)
(* only HAVING or ORDER BY asks for has a slot of its own: each group of the *)
(* rows selected is in the answer once, with its own totals, if HAVING holds *)
(* of them (find_or_create_grp, agg_row, eval_func, emit_groups).            *)
GroupsAddUp ==
    (stmt # NoStatement /\ ~answer.truncated /\ Aggregated(asked) /\ ~Paged(asked)) =>
        \A groups \in {RefGroups(asked, [x \in Selected(asked) |->
                            [g \in DOMAIN asked.group |-> Shown(Eval(Db, Env(FramesIn(x), <<>>), asked.group[g]))]])} :
            LET kept == {g \in groups : \A h \in DOMAIN asked.having :
                            Truthy(Eval(Db, Env(<<>>, <<>>), Plugged(asked.having[h], g)))}
            IN BagOfRows(answer.rows) = BagOfRows([g \in kept |->
                   [i \in DOMAIN asked.items |->
                       Shown(Eval(Db, Env(FramesIn(CHOOSE x \in g : TRUE), <<>>), Plugged(asked.items[i].e, g)))]])

(* The windows of one row fit those of its partition: numbered 1 to n in the *)
(* order of the key, ranked by those that precede, summed up to themselves,  *)
(* beside the row before.  Statements name the columns g, v, rn, rk, acc and *)
(* before (apply_windows).                                                   *)
WindowsAgree ==
    (stmt # NoStatement /\ ~answer.truncated /\ Windowed(asked)) =>
        LET at(i, c) == answer.rows[i][Least({k \in DOMAIN answer.cols : answer.cols[k] = c})]
            mates(i) == {j \in DOMAIN answer.rows : Shown(at(j, "g")) = Shown(at(i, "g"))}
            earlier(i) == {j \in mates(i) : CmpShown(at(j, "v"), at(i, "v")) < 0}
            upTo(i) == {j \in mates(i) : at(j, "rn").n <= at(i, "rn").n}
        IN \A i \in DOMAIN answer.rows :
            /\ {at(j, "rn").n : j \in mates(i)} = 1 .. Cardinality(mates(i))
            /\ \A j \in earlier(i) : at(j, "rn").n < at(i, "rn").n
            /\ at(i, "rk").n = Cardinality(earlier(i)) + 1
            /\ at(i, "acc").n = MapThenSumSet(LAMBDA j : IF IsNumber(at(j, "v")) THEN at(j, "v").n ELSE 0, upTo(i))
            /\ at(i, "before") = IF at(i, "rn").n = 1 THEN Num(0)
                                 ELSE Shown(at(CHOOSE j \in mates(i) : at(j, "rn").n = at(i, "rn").n - 1, "v"))

(* A statement of any kind answers its relational definition (exec_select).  *)
AnswerIsTheReference == RowsAgree /\ GroupsAddUp /\ WindowsAgree

(* OFFSET and LIMIT while rows are emitted, batches passed over unread, the  *)
(* ceiling of a result and the cap of a client: an answer is the page asked  *)
(* for of what would be answered without any of them, or it says that it is  *)
(* not whole.                                                                *)
PageOrSaysSo ==
    (stmt # NoStatement /\ ~answer.truncated) =>
        answer.rows =
            LET unbounded == [Db EXCEPT !.ceiling = 1000] IN
            IF asked.kind # "select" THEN ExecStmt(unbounded, asked, NoResults, <<>>).rows
            ELSE Sliced(ExecStmt(unbounded, [asked EXCEPT !.skip = 0, !.take = -1], NoResults, <<>>).rows,
                        asked.skip, asked.take)
=============================================================================
