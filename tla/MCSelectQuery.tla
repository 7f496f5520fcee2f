---------------------------- MODULE MCSelectQuery -----------------------------
(* Two tables, a few batches that meet every encoding, and statements of     *)
(* each kind.                                                                *)
EXTENDS SelectQuery, TLC

A == Txt(1)
B == Txt(2)
C == Txt(3)
MCNullWord == Txt(50)
Comma == Txt(60)
MCSpecials == {Comma}
Texts(n) == [i \in 1 .. n |-> "text"]

MCTables == [emp |-> [cols |-> <<"id", "g", "v">>, types |-> Texts(3)],
             dep |-> [cols |-> <<"g", "name">>, types |-> Texts(2)]]
MCBatches ==
    [emp |-> {<< <<Num(1), A, Num(2)>>, <<Num(2), A, Num(10)>>, <<Num(1), A, Num(2)>>,
                 <<Num(3), A, Null>>, <<Num(4), B, Num(1)>> >>,
              << <<Num(2), Null, Num(10)>>, <<Num(5), Empty, Num(2)>> >>},
     dep |-> {<< <<A, MCNullWord>>, <<B, Null>> >>, << <<A, Comma>>, <<C, Empty>> >>}]
MCIndexed == {<<"emp", "id">>}

id == Col("", "id")
g == Col("", "g")
v == Col("", "v")
N(n) == Lit(Num(n))
All(t) == Select(<<Item(Star, "")>>, <<From(t)>>)
IdV == <<Item(id, ""), Item(v, "")>>
emp == From("emp")
Where(s, e) == [s EXCEPT !.where = <<e>>]
OrderBy(s, o) == [s EXCEPT !.order = o]
Page(s, n, m) == [s EXCEPT !.skip = n, !.take = m]
Cond(a, o, b) == Op(o, <<a, b>>)

Rows == <<
    Where(All("emp"), Cond(id, "=", N(2))),
    Where(All("emp"), Cond(Op("BETWEEN", <<id, N(2), N(4)>>), "AND", Cond(v, ">", N(1)))),
    Where(All("emp"), Op("NOT", <<Cond(v, "<", N(5))>>)),
    Where(Select(<<Item(Op("COALESCE", <<v, N(0)>>), "c"), Item(Op("GREATEST", <<v, N(2), id>>), "m")>>, <<emp>>),
          Op("OR", <<Op("IS NULL", <<v>>), Op("NOT BETWEEN", <<v, N(3), id>>)>>)),
    Where(Select(<<Item(Op("CASE", <<Op("IS NOT NULL", <<v>>), Cond(v, "+", id), N(-1)>>), "n"),
                   Item(Op("NULLIF", <<v, id>>), ""), Item(Op("IF", <<Cond(v, "<>", N(2)), id, v>>), "")>>, <<emp>>),
          WithQuery("IN", <<g>>, Select(<<Item(g, "")>>, <<From("dep")>>))),
    Where(All("dep"), WithQuery("EXISTS", <<>>,
          Where(All("emp"), Cond(Col("emp", "g"), "=", Col("dep", "g"))))),
    Where(All("dep"), Op("NOT IN", <<g, Lit(A), Lit(Null)>>)),
    OrderBy(Select(<<Item(v, "w"), Item(id, ""), Item(g, "")>>, <<emp>>), <<Desc(Col("", "w")), Asc(N(2)), Asc(g)>>),
    [OrderBy(Select(<<Item(g, ""), Item(v, "")>>, <<emp>>), <<Asc(g)>>) EXCEPT !.distinct = TRUE] >>

On_ == Cond(Col("e", "g"), "=", Col("d", "g"))
Pairs(join) == Select(<<Item(id, ""), Item(Col("d", "name"), "")>>,
                      <<Source("emp", "e", "INNER", Lit(Bool(TRUE))), Source("dep", "d", join, On_)>>)
Joins == <<
    Pairs("INNER"), Pairs("LEFT"),
    Where(Pairs("LEFT"), Op("IS NULL", <<Col("d", "g")>>)),
    Select(<<Item(id, ""), Item(WithQuery("SUBQUERY", <<>>,
               Where(Select(<<Item(Col("", "name"), "")>>, <<From("dep")>>), Cond(Col("dep", "g"), "=", Col("emp", "g")))), "n")>>,
           <<emp>>),
    [Select(<<Item(Col("c", "id"), "")>>, <<Source("c", "c", "INNER", Lit(Bool(TRUE)))>>) EXCEPT
        !.ctes = <<[name |-> "c", body |-> Where(All("emp"), Cond(id, ">", N(1)))]>>],
    Select(<<Item(Col("s", "g"), ""), Item(Col("s", "m"), "")>>,
           <<Derived([Select(<<Item(g, ""), Item(Agg("MAX", v), "m")>>, <<emp>>) EXCEPT !.group = <<g>>], "s")>>) >>

G(t) == Select(<<Item(g, "")>>, <<From(t)>>)
Ops == <<"UNION", "UNION ALL", "INTERSECT", "EXCEPT">>
Sets == [o \in DOMAIN Ops |-> SetOp(Ops[o], G("emp"), G("dep"))]

By(items) == [Select(items, <<emp>>) EXCEPT !.group = <<g>>]
Groups == <<
    By(<<Item(g, ""), Item(Agg("COUNT", Star), ""), Item(Agg("COUNT", v), ""), Item(Agg("SUM", v), "s"),
         Item(AggDistinct("COUNT", v), "d"), Item(AggDistinct("SUM", v), "")>>),
    [By(<<Item(g, ""), Item(Agg("MIN", v), ""), Item(Cond(Agg("MAX", v), "-", Agg("MIN", v)), "r")>>)
        EXCEPT !.having = <<Cond(Agg("COUNT", id), ">", N(1))>>],
    [By(<<Item(g, ""), Item(Agg("MAX", id), "")>>) EXCEPT
        !.having = <<Cond(Agg("SUM", v), ">", N(2))>>, !.order = <<Desc(Agg("COUNT", Star))>>],
    Select(<<Item(Agg("COUNT", Star), ""), Item(Agg("SUM", v), "")>>, <<emp>>) >>

Over(f, args) == Window(f, args, <<Col("", "g")>>, <<Asc(Col("", "v"))>>, <<>>)
Wins == <<
    Select(<<Item(g, ""), Item(v, ""), Item(Over("ROW_NUMBER", <<>>), "rn"), Item(Over("RANK", <<>>), "rk"),
             Item(Over("LAG", <<Col("", "v")>>), "before"),
             Item(Window("SUM", <<Col("", "v")>>, <<Col("", "g")>>, <<Asc(Col("", "v"))>>, <<[lo |-> -9, hi |-> 0]>>), "acc")>>,
           <<emp>>) >>

Slices(s, pages) == [i \in DOMAIN pages |-> Page(s, pages[i][1], pages[i][2])]
Pages == Slices(All("emp"), <<<<0, 2>>, <<2, 2>>, <<5, -1>>, <<6, 2>>>>)
         \o Slices(Where(All("emp"), Cond(v, "<", N(9))), <<<<1, 2>>>>)
         \o Slices(OrderBy(Select(IdV, <<emp>>), <<Desc(v)>>), <<<<0, 3>>, <<2, 3>>>>)
         \o Slices(Pairs("LEFT"), <<<<1, 3>>>>)

MCStatements == Rows \o Joins \o Sets \o Groups \o Wins \o Pages
===============================================================================
