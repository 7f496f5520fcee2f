------------------------------ MODULE MCVolcano -------------------------------
(* Small tables and the eighteen questions put to a plan, for MCFrontEnds. *)
EXTENDS Integers, Sequences
VARIABLES disk, leftover, question, printed
S(t, n) == [t |-> t, n |-> n, d |-> 1]
I(n) == S("int", n)
T(n) == S("text", n)
NULL == S("null", 0)
N(e, name, v, args) == [e |-> e, name |-> name, v |-> v, args |-> args]
C(name) == N("col", name, NULL, <<>>)
L(v) == N("lit", "expr", v, <<>>)
O(o, a) == N(o, "expr", NULL, a)
F(f, a) == N("fn", f, NULL, a)
Star == N("star", "*", NULL, <<>>)
As(name, x) == N("as", name, NULL, <<x>>)
Ins(cells) == [op |-> "insert", cells |-> cells]
Tab(t) == [table |-> t, on |-> L(NULL)]
On(t, on) == [table |-> t, on |-> on]
Up(x) == [e |-> x, desc |-> FALSE]
Down(x) == [e |-> x, desc |-> TRUE]
Q(from, items) == [from |-> from, where |-> <<>>, group |-> <<>>, having |-> <<>>, items |-> items,
                   order |-> <<>>, limit |-> -1, offset |-> 0, distinct |-> FALSE, window |-> FALSE]
ACols == <<[name |-> "id", type |-> "int"], [name |-> "v", type |-> "int"], [name |-> "g", type |-> "text"]>>
BCols == <<[name |-> "k", type |-> "int"], [name |-> "w", type |-> "int"]>>
ARow(id, v, g) == Ins(<<I(id), v, T(g)>>)
BRow(k, w) == Ins(<<I(k), I(w)>>)
Disk(as, bs, cs) == [x \in {"a", "b", "f"} |->
    CASE x = "a" -> [cols |-> ACols, log |-> as] [] x = "b" -> [cols |-> BCols, log |-> bs]
      [] x = "f" -> [cols |-> <<[name |-> "n", type |-> "int"], [name |-> "on", type |-> "bool"]>>, log |-> cs]]
Flags == <<Ins(<<I(1), S("bool", 0)>>), Ins(<<I(2), S("bool", 1)>>), Ins(<<I(3), S("bool", 0)>>)>>
Vals == {I(0), I(2), NULL}
As1 == {<<>>} \union {<<ARow(1, v, 2)>> : v \in Vals} \union {<<ARow(1, v, 2), ARow(2, w, 1), ARow(3, x, 2)>> : v, w, x \in Vals}
       \union {<<ARow(1, v, 2), ARow(2, w, 1), ARow(3, x, 2), ARow(2, y, 3), ARow(1, I(2), 3)>> : v, w, x, y \in Vals}
Bs1 == {<<>>, <<BRow(2, 1)>>, <<BRow(1, 1), BRow(2, 0), BRow(2, 1)>>}
Disks == {Disk(p, b, Flags) : p \in As1, b \in Bs1}
Plain == Q(<<Tab("a")>>, <<Star>>)
Joined == Q(<<Tab("a"), On("b", O("=", <<C("id"), C("k")>>))>>, <<Star>>)
Cnt == F("count", <<C("v")>>)
Questions == <<
    Plain,
    [Plain EXCEPT !.where = <<O(">", <<C("v"), L(I(0))>>)>>],
    [Plain EXCEPT !.where = <<O("or", <<O("isnull", <<C("v")>>), O("and", <<O("=", <<C("g"), L(T(3))>>), O("<", <<C("v"), C("id")>>)>>)>>)>>],
    [Plain EXCEPT !.order = <<Up(C("v")), Down(C("id"))>>, !.limit = 2, !.offset = 1],
    [Plain EXCEPT !.where = <<O("<>", <<C("id"), L(I(2))>>)>>, !.order = <<Down(C("g"))>>],
    [Plain EXCEPT !.limit = 3],
    Joined,
    [Joined EXCEPT !.where = <<O(">", <<C("w"), L(I(0))>>)>>, !.order = <<Up(C("w"))>>, !.limit = 3, !.offset = 2],
    Q(<<Tab("a")>>, <<F("count", <<Star>>), F("sum", <<C("v")>>)>>),
    [Q(<<Tab("a")>>, <<C("g"), Cnt, As("m", F("max", <<C("id")>>))>>) EXCEPT !.group = <<C("g")>>],
    [Q(<<Tab("a")>>, <<C("g"), F("sum", <<C("v")>>)>>) EXCEPT !.group = <<C("g")>>,
        !.having = <<O(">", <<F("sum", <<C("v")>>), L(I(1))>>)>>],
    [Q(<<Tab("a")>>, <<C("g"), As("m", F("avg", <<C("v")>>))>>) EXCEPT !.group = <<C("g")>>, !.order = <<Down(C("m"))>>, !.limit = 2],
    [Q(<<Tab("a"), On("b", O("=", <<C("id"), C("k")>>))>>, <<C("w"), F("min", <<C("g")>>)>>) EXCEPT !.group = <<C("w")>>,
        !.where = <<O(">", <<C("v"), L(I(0))>>)>>],
    [Plain EXCEPT !.limit = 2, !.offset = 2],
    [Q(<<Tab("f")>>, <<Star>>) EXCEPT !.where = <<O("=", <<C("n"), L(I(2))>>)>>],
    [Plain EXCEPT !.window = TRUE],
    [Plain EXCEPT !.distinct = TRUE],
    Q(<<Tab("a"), On("b", O("=", <<C("id"), C("k")>>)), On("f", O("not", <<O("=", <<F("coalesce", <<C("w"), C("n")>>), O("+", <<F("abs", <<C("n")>>), F("nullif", <<C("k"), L(I(1))>>)>>)>>)>>))>>, <<Star>>) >>
Left == {[x \in {"int", "dbl", "text", "bool"} |-> S(x, n)] : n \in {1}}
V == INSTANCE VolcanoPlan WITH Logs <- Disks, Questions <- Questions, Leftovers <- Left, BATCH_SIZE <- 2, AGG_MAX_GROUPS <- 3
VolcanoAgrees == V!VolcanoAgrees
=============================================================================
