---------------------------- MODULE MCSqlGrammar ----------------------------
(* The trees that are printed and parsed back, for MCFrontEnds. *)
EXTENDS Naturals, Sequences, TLC

VARIABLES given, parsed

Col(n) == <<"col", "", n>>
Lit(t) == <<"lit", t>>
a == Col("a")
b == Col("b")

Binary == {"OR", "AND", "=", "<", "LIKE", "||", "+", "-", "*", "/", "notlike"}
Form(op, x, y) ==
    CASE op \in Binary -> <<op, x, y>>
      [] op \in {"not", "neg", "isnull", "isnotnull"} -> <<op, x>>
      [] op \in {"between", "notbetween"} -> <<op, x, Lit("1"), y>>
      [] op \in {"in", "notin"} -> <<op, x, <<Lit("1"), y>>, <<>>>>
AllOps == Binary \cup {"not", "neg", "isnull", "between", "notbetween", "in"}
FewOps == {"OR", "AND", "not", "=", "between", "+", "*"}
One(ops) == {Form(op, a, b) : op \in ops}
Around(ops, xs) == {Form(op, x, b) : op \in ops, x \in xs} \cup {Form(op, a, x) : op \in ops, x \in xs}
Exprs ==
    Around(AllOps, One(AllOps)) \cup Around(FewOps, Around(FewOps, One(FewOps)))
    \cup {Form(op, x, y) : op \in FewOps, x \in One(FewOps), y \in One(FewOps)}

T == [join |-> "INNER", table |-> "t", sub |-> <<>>, alias |-> "", on |-> <<>>]
U(join) == [T EXCEPT !.join = join, !.table = "u", !.alias = "x",
                     !.on = <<"=", <<"col", "t", "a">>, <<"col", "x", "b">>>>]
S == [distinct |-> FALSE, list |-> <<a>>, from |-> <<T>>, where |-> <<>>, group |-> <<>>,
      having |-> <<>>, order |-> <<>>, limit |-> "", offset |-> "", ctes |-> <<>>]
Query(s) == <<"select", s>>
Key(d, n) == <<"key", a, d, n>>
Win(p, o, unit, from, to) == [partition |-> p, order |-> o, unit |-> unit, from |-> from, to |-> to]
Count == <<"func", "f", FALSE, <<<<"star", "">>>>>>
Case(x, e) == <<"case", x, <<"else", <<<<"when", a, b>>, <<"when", b, a>>>>, e>>>>

Selects == {
    [S EXCEPT !.distinct = TRUE, !.list = <<<<"star", "">>, <<"star", "t">>>>],
    [S EXCEPT !.list = <<Lit("1"), Lit("0.5"), Lit("'s'"), Lit("NULL"), Lit("TRUE")>>, !.from = <<>>],
    [S EXCEPT !.list = <<<<"alias", Count, "c">>, <<"func", "f", TRUE, <<a>>>>, <<"func", "f", FALSE, <<>>>>>>],
    [S EXCEPT !.list = <<Case(<<>>, <<>>), Case(a, b), <<"cast", <<"+", a, b>>, "c">>>>],
    [S EXCEPT !.from = <<T, [U("INNER") EXCEPT !.on = <<>>]>>, !.where = <<"=", a, b>>],
    [S EXCEPT !.from = <<T, U("INNER"), U("LEFT"), [U("CROSS") EXCEPT !.on = <<>>], U("FULL")>>],
    [S EXCEPT !.from = <<[T EXCEPT !.table = "", !.sub = Query(S), !.alias = "x"], U("RIGHT")>>],
    [S EXCEPT !.where = <<"AND", <<"in", a, <<>>, Query(S)>>, <<"exists", Query(S)>>>>],
    [S EXCEPT !.where = <<"=", a, <<"sub", <<"setop", "UNION", Query(S), Query(S)>>>>>>],
    [S EXCEPT !.group = <<a, b>>, !.having = <<">", Count, Lit("1")>>],
    [S EXCEPT !.order = <<Key("asc", "last"), Key("desc", "first")>>, !.limit = "1", !.offset = "2"],
    [S EXCEPT !.where = <<"isnull", a>>, !.group = <<a>>, !.order = <<Key("desc", "last")>>, !.limit = "2"],
    [S EXCEPT !.ctes = <<<<"x", S>>, <<"y", [S EXCEPT !.limit = "1"]>>>>],
    [S EXCEPT !.list = <<<<"window", "f", <<a>>, Win(<<a>>, <<Key("desc", "last")>>, "", <<>>, <<>>)>>,
                         <<"window", "f", <<>>, Win(<<>>, <<>>, "", <<>>, <<>>)>>>>],
    [S EXCEPT !.list = <<<<"window", "f", <<a>>, Win(<<a, b>>, <<Key("asc", "last"), Key("desc", "last")>>,
        "ROWS", <<"2", "PRECEDING">>, <<"CURRENT", "ROW">>)>>>>],
    [S EXCEPT !.list = <<<<"window", "f", <<a>>, Win(<<>>, <<Key("asc", "last")>>,
        "RANGE", <<"UNBOUNDED", "PRECEDING">>, <<"1", "FOLLOWING">>)>>>>],
    [S EXCEPT !.list = <<<<"window", "f", <<a>>, Win(<<>>, <<Key("asc", "last")>>,
        "ROWS", <<"CURRENT", "ROW">>, <<"UNBOUNDED", "FOLLOWING">>)>>>>] }
Others == {
    <<"setop", "UNION ALL", <<"setop", "EXCEPT", Query(S), Query(S)>>, Query([S EXCEPT !.limit = "1"])>>,
    <<"setop", "INTERSECT", Query([S EXCEPT !.where = <<"not", a>>]), Query(S)>>,
    <<"update", [table |-> "t", set |-> <<<<"a", FALSE, "1">>, <<"b", TRUE, "2">>>>, where |-> <<"=", a, b>>]>>,
    <<"update", [table |-> "t", set |-> <<<<"a", FALSE, "'s'">>>>, where |-> <<>>]>>,
    <<"delete", [table |-> "t", set |-> <<>>, where |-> <<"OR", a, <<"AND", a, b>>>>]>>,
    <<"delete", [table |-> "t", set |-> <<>>, where |-> <<>>]>>,
    <<"begin">>, <<"COMMIT">>, <<"ROLLBACK">> }

MCTrees ==
    {Query([S EXCEPT !.list = <<e>>, !.from = <<>>]) : e \in Exprs} \cup {Query(s) : s \in Selects} \cup Others

G == INSTANCE SqlGrammar WITH
        Idents <- {"a", "b", "c", "f", "t", "u", "x", "y", "fetch", "next", "only"},
        Ints <- {"1", "2"}, Floats <- {"0.5"}, Strings <- {"'s'"}, Trees <- MCTrees
ParsesWhatWasPrinted == G!ParsesWhatWasPrinted
=============================================================================
