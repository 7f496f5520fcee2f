------------------------------ MODULE SqlGrammar ------------------------------
(***************************************************************************)
(* The recursive-descent parser of lib/sql_parser/sql.c, over tokens.      *)
(* A token is a string: a keyword, a mark, or one of the names, numbers    *)
(* and string literals of the instance.  Trees are tuples headed by their  *)
(* kind, statements and their clauses are records, and <<>> is what is     *)
(* absent.  A rule takes the tokens w and what has been read so far, a     *)
(* record [e: tree, at: next token, ok: no error yet], and returns the     *)
(* same.  lex_eat ignores a token that is not there, and so does Eat.      *)
(***************************************************************************)
EXTENDS Integers, Sequences, TLC

LOCAL SX == INSTANCE SequencesExt

CONSTANTS
    Idents, Ints, Floats, Strings,   \* tokens of these four kinds
    Trees                            \* the statements to print and parse

VARIABLES
    given,    \* the statement whose text was sent, or <<>>
    parsed    \* what sql_parse made of the text

grammarVars == <<given, parsed>>

-----------------------------------------------------------------------------
(* Tokens *)

Tok(w, i) == IF i <= Len(w) THEN w[i] ELSE "EOF"
Kind(t) ==
    CASE t \in Idents -> "IDENT" [] t \in Ints -> "INT" [] t \in Floats -> "FLOAT"
      [] t \in Strings -> "STRING" [] OTHER -> t
Is(w, i, k) == Kind(Tok(w, i)) = k
Eat(w, i, k) == IF Is(w, i, k) THEN i + 1 ELSE i
Starts(w, i) == Tok(w, i) \in {"SELECT", "WITH"}

Res(e, i, ok) == [e |-> e, at |-> i, ok |-> ok]
From(i) == Res(<<>>, i, TRUE)
Eaten(w, r, k) == [r EXCEPT !.at = Eat(w, @, k)]
(* consume_ident: the token goes whatever it is.                             *)
Ident(w, i) == Res(IF Is(w, i, "IDENT") THEN Tok(w, i) ELSE "", i + 1, TRUE)

(* A result put into a tree or into a field of a record.                     *)
Under(kind, r) == [r EXCEPT !.e = <<kind, @>>]
Node(kind, l, r) == Res(<<kind, l.e, r.e>>, r.at, l.ok /\ r.ok)
Node3(kind, e, l, r) == Res(<<kind, e, l.e, r.e>>, r.at, l.ok /\ r.ok)
(* The first error is kept.                                                  *)
Kept(r, x) == [x EXCEPT !.ok = @ /\ r.ok]
Set(s, field, r) == Res([s.e EXCEPT ![field] = r.e], r.at, s.ok /\ r.ok)

-----------------------------------------------------------------------------
(* Operators *)

Compares == {"=", "<>", "<", "<=", ">", ">=", "LIKE", "ILIKE"}
(* binop_prec; IS, IN and BETWEEN are taken before it is asked.              *)
BinopPrecFlat(t) == IF t \in {"OR", "AND"} THEN 1                  \* mutant
    ELSE IF t \in Compares THEN 4 ELSE IF t = "||" THEN 5
    ELSE IF t \in {"+", "-"} THEN 6 ELSE IF t \in {"*", "/", "%"} THEN 7 ELSE -1
BinopPrec(t) ==
    CASE t = "OR" -> 1 [] t = "AND" -> 2 [] t \in Compares -> 4 [] t = "||" -> 5
      [] t \in {"+", "-"} -> 6 [] t \in {"*", "/", "%"} -> 7 [] OTHER -> -1

-----------------------------------------------------------------------------
(* Rules *)

RECURSIVE Parse(_, _, _, _)
(* rule "expr": k is min_prec.  rule "rest": r.e is the left side so far.    *)
Expr(w, i, k) == Parse("expr", w, From(i), k)
Primary(w, i) == Parse("primary", w, From(i), 0)
Statement(w, i) == Parse("stmt", w, From(i), 0)
(* rule "list": items of the rule named by k are appended to r.e.            *)
ListOf(w, i, k) == Parse("list", w, From(i), k)

Appended(r, x) == Res(Append(r.e, x.e), x.at, r.ok /\ x.ok)
Listed(w, r, k) ==
    IF Is(w, r.at, ",") /\ ~(k = "arg" /\ Is(w, r.at + 1, ")"))
    THEN Parse("list", w, [r EXCEPT !.at = @ + 1], k)
    ELSE r

(* The arguments of a function; nothing, a star, or a list.                  *)
Args(w, i) ==
    CASE Is(w, i, ")") -> From(i)
      [] Is(w, i, "*") -> Res(<<<<"star", "">>>>, i + 1, TRUE)
      [] OTHER -> Eaten(w, ListOf(w, i, "arg"), ",")

(* parse_window_spec and parse_frame_bound                                   *)
Bound(w, i) ==
    CASE Tok(w, i) = "UNBOUNDED" /\ Is(w, i + 1, "FOLLOWING") ->
            Res(<<"UNBOUNDED", "FOLLOWING">>, i + 2, TRUE)
      [] Tok(w, i) = "UNBOUNDED" -> Res(<<"UNBOUNDED", "PRECEDING">>, Eat(w, i + 1, "PRECEDING"), TRUE)
      [] Tok(w, i) = "CURRENT" -> Res(<<"CURRENT", "ROW">>, Eat(w, i + 1, "ROW"), TRUE)
      [] OTHER ->
            LET n == IF Is(w, i, "INT") THEN Tok(w, i) ELSE "1" IN
            IF Is(w, i + 1, "FOLLOWING") THEN Res(<<n, "FOLLOWING">>, i + 2, TRUE)
            ELSE Res(<<n, "PRECEDING">>, Eat(w, i + 1, "PRECEDING"), TRUE)
NoWindow == [partition |-> <<>>, order |-> <<>>, unit |-> "", from |-> <<>>, to |-> <<>>]
PartitionBy(w, s) ==
    IF Is(w, s.at, "PARTITION") THEN Set(s, "partition", ListOf(w, Eat(w, s.at + 1, "BY"), "expr"))
    ELSE s
OrderBy(w, s, item) ==
    IF Is(w, s.at, "ORDER") THEN Set(s, "order", ListOf(w, Eat(w, s.at + 1, "BY"), item)) ELSE s
UpTo(w, s, from) == Set(Set(s, "from", from), "to", Bound(w, Eat(w, from.at, "AND")))
UpToHere(s, from) == Set(Set(s, "from", from), "to", Res(<<"CURRENT", "ROW">>, from.at, TRUE))
Frame(w, s) ==
    IF Tok(w, s.at) \notin {"ROWS", "RANGE"} THEN s
    ELSE LET u == Set(s, "unit", Res(Tok(w, s.at), s.at + 1, TRUE)) IN
         IF Is(w, u.at, "BETWEEN") THEN UpTo(w, u, Bound(w, u.at + 1))
         ELSE UpToHere(u, Bound(w, u.at))
WindowSpec(w, i) ==
    Eaten(w, Frame(w, OrderBy(w, PartitionBy(w, Res(NoWindow, Eat(w, i, "("), TRUE)), "sortkey")), ")")

(* name(...) with its optional DISTINCT and OVER                             *)
Call(w, name, distinct, args) ==
    IF Is(w, args.at, "OVER")
    THEN Node3("window", name, args, WindowSpec(w, args.at + 1))
    ELSE Res(<<"func", name, distinct, args.e>>, args.at, args.ok)
Function(w, name, i) ==
    Call(w, name, Is(w, i, "DISTINCT"), Eaten(w, Args(w, Eat(w, i, "DISTINCT")), ")"))
Name(w, name, i) ==
    CASE Is(w, i, "(") -> Function(w, name, i + 1)
      [] Is(w, i, ".") -> Res(<<"col", name, Tok(w, i + 1)>>, i + 2, TRUE)
      [] OTHER -> Res(<<"col", "", name>>, i, TRUE)

(* CASE [x] WHEN .. THEN .. [ELSE ..] END                                    *)
When(w, cond) == Node("when", cond, Expr(w, Eat(w, cond.at, "THEN"), 0))
Whens(w, r) == IF Is(w, r.at, "WHEN") THEN Parse("whens", w, [r EXCEPT !.at = @ + 1], 0) ELSE r
Otherwise(w, whens) ==
    IF Is(w, whens.at, "ELSE") THEN Node("else", whens, Expr(w, whens.at + 1, 0))
    ELSE [whens EXCEPT !.e = <<"else", @, <<>>>>]
CaseOf(w, x) == Eaten(w, Node("case", x, Otherwise(w, Whens(w, From(x.at)))), "END")
Case(w, i) == IF Is(w, i, "WHEN") THEN CaseOf(w, From(i)) ELSE CaseOf(w, Expr(w, i, 0))

(* CAST(x AS type): the first word of the type's name                        *)
CastTo(w, x) ==
    Eaten(w, Node("cast", x, IF Is(w, Eat(w, x.at, "AS"), "IDENT")
                             THEN Ident(w, Eat(w, x.at, "AS"))
                             ELSE Res("", Eat(w, x.at, "AS"), TRUE)), ")")

Parenthesis(w, i) ==
    IF Starts(w, i) THEN Under("sub", Eaten(w, Statement(w, i), ")"))
    ELSE Eaten(w, Expr(w, i, 0), ")")

ParsePrimary(w, i) ==
    LET t == Tok(w, i) IN
    CASE t = "CASE" -> Case(w, i + 1)
      [] t = "EXISTS" -> Under("exists", Eaten(w, Statement(w, Eat(w, i + 1, "(")), ")"))
      [] t = "CAST" -> CastTo(w, Expr(w, Eat(w, i + 1, "("), 0))
      [] Kind(t) \in {"INT", "FLOAT", "STRING"} \/ t \in {"NULL", "TRUE", "FALSE"} ->
            Res(<<"lit", t>>, i + 1, TRUE)
      [] t = "*" -> Res(<<"star", "">>, i + 1, TRUE)
      [] t = "-" -> Under("neg", Primary(w, i + 1))
      [] t = "NOT" -> Under("not", Primary(w, i + 1))
      [] t = "(" -> Parenthesis(w, i + 1)
      [] Kind(t) = "IDENT" -> Name(w, t, i + 1)
      [] OTHER -> Res(<<"lit", "NULL">>, i + 1, FALSE)       \* expected expression

(* The postfix forms, whatever min_prec is: r.e is their left side.          *)
IsNull(w, r) ==
    LET e == IF Is(w, r.at + 1, "NOT") THEN "isnotnull" ELSE "isnull" IN
    Res(<<e, r.e>>, Eat(w, Eat(w, r.at + 1, "NOT"), "NULL"), r.ok)
BetweenTo(w, kind, r, low) ==
    Kept(r, Node3(kind, r.e, low, Expr(w, Eat(w, low.at, "AND"), 6)))
InItems(w, kind, r, items) == Node3(kind, r.e, items, [items EXCEPT !.e = <<>>])
(* IN has a list of expressions or a subquery, and <<>> for the other.       *)
InList(w, kind, r, i) ==
    Kept(r, IF Starts(w, i) THEN Node3(kind, r.e, From(i), Eaten(w, Statement(w, i), ")"))
            ELSE IF Is(w, i, ")") THEN Node3(kind, r.e, From(i), From(i + 1))
            ELSE InItems(w, kind, r, Eaten(w, ListOf(w, i, "expr"), ")")))
In(w, kind, r, i) == InList(w, kind, r, Eat(w, i, "("))
Negated(w, r, i) ==
    LET t == Tok(w, i) IN
    CASE t \in {"LIKE", "ILIKE"} ->
            Node(IF t = "LIKE" THEN "notlike" ELSE "notilike", r, Expr(w, i + 1, 5))
      [] t = "BETWEEN" -> BetweenTo(w, "notbetween", r, Expr(w, i + 1, 6))
      [] t = "IN" -> In(w, "notin", r, i + 1)
      [] OTHER -> Kept(r, Under("not", Primary(w, i)))       \* r.e is forgotten

ParseRest(w, r, k) ==
    LET t == Tok(w, r.at) IN
    CASE t = "IS" -> Parse("rest", w, IsNull(w, r), k)
      [] t = "NOT" -> Parse("rest", w, Negated(w, r, r.at + 1), k)
      [] t = "BETWEEN" -> Parse("rest", w, BetweenTo(w, "between", r, Expr(w, r.at + 1, 6)), k)
      [] t = "IN" -> Parse("rest", w, In(w, "in", r, r.at + 1), k)
      [] BinopPrec(t) >= k /\ BinopPrec(t) > 0 ->
            Parse("rest", w, Node(t, r, Expr(w, r.at + 1, BinopPrec(t) + 1)), k)
      [] OTHER -> r

-----------------------------------------------------------------------------
(* SELECT, clause by clause *)

AliasOf(w, r, i) ==
    IF Kind(Tok(w, i)) \in {"IDENT", "STRING"}
    THEN Res(<<"alias", r.e, Tok(w, i)>>, i + 1, r.ok) ELSE [r EXCEPT !.at = i + 1]
Aliased(w, r) ==
    IF Is(w, r.at, "AS") THEN AliasOf(w, r, r.at + 1)
    ELSE IF Is(w, r.at, "IDENT") THEN AliasOf(w, r, r.at) ELSE r
SelectExpr(w, i) ==
    CASE Is(w, i, "*") -> Res(<<"star", "">>, i + 1, TRUE)
      [] Is(w, i, "IDENT") /\ Is(w, i + 1, ".") /\ Is(w, i + 2, "*") ->
            Res(<<"star", Tok(w, i)>>, i + 3, TRUE)
      [] OTHER -> Aliased(w, Expr(w, i, 0))

(* Up to the closing parenthesis, whatever stands there.                     *)
Skipped(w, i) ==
    CHOOSE j \in i..(Len(w) + 1) :
        /\ Tok(w, j) \in {")", "EOF"} /\ \A k \in i..(j - 1) : Tok(w, k) # ")"

NoItem == [join |-> "INNER", table |-> "", sub |-> <<>>, alias |-> "", on |-> <<>>]
ItemAlias(w, f) ==
    IF Is(w, f.at, "AS") THEN Set(f, "alias", Ident(w, f.at + 1))
    ELSE IF Is(w, f.at, "IDENT") THEN Set(f, "alias", Ident(w, f.at)) ELSE f
Derived(w, f) ==
    IF Starts(w, f.at) THEN Set(f, "sub", Statement(w, f.at)) ELSE [f EXCEPT !.at = Skipped(w, @)]
Closed(w, f, strict) == Res(f.e, Eat(w, f.at, ")"), f.ok /\ (strict => Is(w, f.at, ")")))
(* In FROM a missing name or parenthesis is an error; after JOIN it is not.  *)
Source(w, f, strict) ==
    IF Is(w, f.at, "(") THEN Closed(w, Derived(w, [f EXCEPT !.at = @ + 1]), strict)
    ELSE Set(f, "table", Res(Ident(w, f.at).e, f.at + 1, strict => Is(w, f.at, "IDENT")))
FromItem(w, i) == ItemAlias(w, Source(w, Res(NoItem, i, TRUE), TRUE))

JoinWords(w, i) ==
    CASE Tok(w, i) \in {"LEFT", "RIGHT", "FULL"} -> <<Tok(w, i), Eat(w, i + 1, "OUTER")>>
      [] Tok(w, i) \in {"CROSS", "INNER"} -> <<Tok(w, i), i + 1>>
      [] OTHER -> <<"INNER", i>>
On(w, f) == IF Is(w, f.at, "ON") THEN Set(f, "on", Expr(w, f.at + 1, 0)) ELSE f
JoinItem(w, jt, i) == On(w, ItemAlias(w, Source(w, Res([NoItem EXCEPT !.join = jt], i, TRUE), FALSE)))
Joined(s, f) == Res([s.e EXCEPT !.from = Append(@, f.e)], f.at, s.ok /\ f.ok)
Joins(w, s, jw) ==
    IF Is(w, jw[2], "JOIN") THEN Parse("joins", w, Joined(s, JoinItem(w, jw[1], jw[2] + 1)), 0)
    ELSE [s EXCEPT !.at = jw[2]]

NullsOrder(w, r) ==
    IF ~Is(w, r.at, "NULLS") THEN r
    ELSE IF Is(w, r.at + 1, "FIRST") THEN Res([r.e EXCEPT ![4] = "first"], r.at + 2, r.ok)
    ELSE [r EXCEPT !.at = Eat(w, @ + 1, "LAST")]
SortKey(w, r) ==
    IF Is(w, r.at, "DESC") THEN Res(<<"key", r.e, "desc", "last">>, r.at + 1, r.ok)
    ELSE Res(<<"key", r.e, "asc", "last">>, Eat(w, r.at, "ASC"), r.ok)
OrderItem(w, i) == NullsOrder(w, SortKey(w, Expr(w, i, 0)))

NoSelect == [distinct |-> FALSE, list |-> <<>>, from |-> <<>>, where |-> <<>>, group |-> <<>>,
             having |-> <<>>, order |-> <<>>, limit |-> "", offset |-> "", ctes |-> <<>>]
Quantifier(w, i) ==
    IF Is(w, i, "DISTINCT") THEN Res([NoSelect EXCEPT !.distinct = TRUE], i + 1, TRUE)
    ELSE Res(NoSelect, Eat(w, i, "ALL"), TRUE)
SelectList(w, s) == Set(s, "list", ListOf(w, s.at, "item"))
FromClause(w, s) == IF Is(w, s.at, "FROM") THEN Set(s, "from", ListOf(w, s.at + 1, "source")) ELSE s
Clause(w, s, word, field) == IF Is(w, s.at, word) THEN Set(s, field, Expr(w, s.at + 1, 0)) ELSE s
GroupBy(w, s) ==
    IF Is(w, s.at, "GROUP") THEN Set(s, "group", ListOf(w, Eat(w, s.at + 1, "BY"), "expr")) ELSE s
Count(w, s, word, field) ==
    IF ~Is(w, s.at, word) THEN s
    ELSE Set(s, field, Res(IF Is(w, s.at + 1, "INT") THEN Tok(w, s.at + 1) ELSE "", s.at + 2, TRUE))
(* ROW(S), FIRST, FETCH, NEXT, ONLY, and numbers among them, go unread.      *)
PageWord(w, i) == Tok(w, i) \in {"ROWS", "ROW", "FIRST", "fetch", "next", "only"}
PageTail(w, s) ==
    [s EXCEPT !.at = CHOOSE j \in s.at..(Len(w) + 1) :
        LET Goes(k) == PageWord(w, k) \/ (Is(w, k, "INT") /\ \E h \in s.at..(k - 1) : PageWord(w, h))
        IN ~Goes(j) /\ \A k \in s.at..(j - 1) : Goes(k)]
AfterFrom(w, s) ==
    PageTail(w, Count(w, Count(w, OrderBy(w, Clause(w, GroupBy(w, Clause(w, s, "WHERE", "where")),
        "HAVING", "having"), "orderitem"), "LIMIT", "limit"), "OFFSET", "offset"))
ParseSelect(w, i) ==
    AfterFrom(w, Parse("joins", w, FromClause(w, SelectList(w, Quantifier(w, i))), 0))

-----------------------------------------------------------------------------
(* Statements.  "unknown" is a statement with an error of its own.           *)

Unknown(i) == Res(<<"unknown">>, i, TRUE)

(* One CTE; a body that is not a plain SELECT is dropped.                    *)
Columns(w, i) == IF Is(w, i, "(") THEN Eat(w, Skipped(w, i + 1), ")") ELSE i
CteBody(name, b) == Res(<<name, IF b.e[1] = "select" THEN b.e[2] ELSE <<>>>>, b.at, b.ok)
Cte(w, i) ==
    Eaten(w, CteBody(Ident(w, i).e,
                     Statement(w, Eat(w, Eat(w, Columns(w, i + 1), "AS"), "("))), ")")
WithCtes(ctes, s) == Res(<<"select", [s.e EXCEPT !.ctes = ctes.e]>>, s.at, ctes.ok /\ s.ok)
With(w, ctes) ==
    IF Is(w, ctes.at, "SELECT") THEN WithCtes(ctes, ParseSelect(w, ctes.at + 1))
    ELSE Unknown(ctes.at)

(* SET col = value, ..: a sign counts before a number only.                  *)
Signed(w, i) == IF Is(w, i, "-") THEN <<TRUE, Tok(w, i + 1), i + 2>> ELSE <<FALSE, Tok(w, i), i + 1>>
Assigned(col, v) == Res(<<col, v[1] /\ Kind(v[2]) \in {"INT", "FLOAT"}, v[2]>>, v[3], TRUE)
Assignment(w, i) ==
    IF Is(w, i, "IDENT") /\ Is(w, i + 1, "=") THEN Assigned(Tok(w, i), Signed(w, i + 2))
    ELSE Res(<<>>, i, FALSE)
Dml(kind, table, w, set) ==
    IF ~set.ok THEN Unknown(set.at)
    ELSE Under(kind, Clause(w, Res([table |-> table, set |-> set.e, where |-> <<>>], set.at, TRUE),
                            "WHERE", "where"))
Update(w, i) ==
    IF ~Is(w, i, "IDENT") \/ ~Is(w, i + 1, "SET") THEN Unknown(i)
    ELSE Dml("update", Tok(w, i), w, ListOf(w, i + 2, "assignment"))
Delete(w, i) ==
    IF ~Is(w, i, "IDENT") THEN Unknown(i) ELSE Dml("delete", Tok(w, i), w, From(i + 1))

(* UNION, INTERSECT and EXCEPT bind alike, to the left.                      *)
SetOpName(w, i) == IF Is(w, i, "UNION") /\ Is(w, i + 1, "ALL") THEN "UNION ALL" ELSE Tok(w, i)
SetOpRight(w, i) == ParseSelect(w, Eat(w, IF SetOpName(w, i) = "UNION ALL" THEN i + 2 ELSE i + 1, "SELECT"))
SetOps(w, s) ==
    IF Tok(w, s.at) \in {"UNION", "INTERSECT", "EXCEPT"}
    THEN Parse("setops", w, Node3("setop", SetOpName(w, s.at), s, Under("select", SetOpRight(w, s.at))), 0)
    ELSE s

ParseStmt(w, i) ==
    CASE Is(w, i, "WITH") -> With(w, ListOf(w, Eat(w, i + 1, "RECURSIVE"), "cte"))
      [] Is(w, i, "SELECT") -> SetOps(w, Under("select", ParseSelect(w, i + 1)))
      [] Is(w, i, "UPDATE") -> Update(w, i + 1)
      [] Is(w, i, "DELETE") -> Delete(w, Eat(w, i + 1, "FROM"))
      [] Is(w, i, "BEGIN") -> Res(<<"begin">>, Eat(w, i + 1, "TRANSACTION"), TRUE)
      [] Tok(w, i) \in {"COMMIT", "ROLLBACK"} -> Res(<<Tok(w, i)>>, i + 1, TRUE)
      [] OTHER -> Unknown(i)

Item(rule, w, i) ==
    CASE rule \in {"expr", "arg"} -> Expr(w, i, 0) [] rule = "item" -> SelectExpr(w, i)
      [] rule = "source" -> FromItem(w, i) [] rule = "orderitem" -> OrderItem(w, i)
      [] rule = "sortkey" -> SortKey(w, Expr(w, i, 0)) [] rule = "cte" -> Cte(w, i)
      [] rule = "assignment" -> Assignment(w, i)

Parse(rule, w, r, k) ==
    CASE rule = "expr" -> Parse("rest", w, Primary(w, r.at), k)
      [] rule = "rest" -> ParseRest(w, r, k)
      [] rule = "primary" -> ParsePrimary(w, r.at)
      [] rule = "list" -> Listed(w, Appended(r, Item(k, w, r.at)), k)
      [] rule = "whens" -> Whens(w, Appended(r, When(w, Expr(w, r.at, 0))))
      [] rule = "joins" -> Joins(w, r, JoinWords(w, r.at))
      [] rule = "setops" -> SetOps(w, r)
      [] rule = "stmt" -> ParseStmt(w, Eat(w, r.at, ";"))

(* sql_parse: only semicolons may follow.                                    *)
Failed == <<"error">>
Semicolons(w, i) == CHOOSE j \in i..(Len(w) + 1) : Tok(w, j) # ";" /\ \A k \in i..(j - 1) : Tok(w, k) = ";"
Accepted(w, r) ==
    IF r.ok /\ r.e[1] # "unknown" /\ Is(w, Semicolons(w, r.at), "EOF") THEN r.e ELSE Failed
SqlParse(w) == Accepted(w, Statement(w, 1))

-----------------------------------------------------------------------------
(* The grammar the parser is meant for: the words of a tree, with a         *)
(* parenthesis wherever SQL's precedence needs one and wherever the parser   *)
(* is known to bind otherwise (the operands of NOT, IS, IN and BETWEEN).     *)

Postfix == {"isnull", "isnotnull", "notlike", "notilike", "between", "notbetween", "in", "notin"}
Levels == [op \in {"OR"} |-> 1] @@ [op \in {"AND"} |-> 2] @@ [op \in {"not"} |-> 3]
          @@ [op \in Compares \cup Postfix |-> 4] @@ [op \in {"||"} |-> 5]
          @@ [op \in {"+", "-"} |-> 6] @@ [op \in {"*", "/", "%"} |-> 7] @@ [op \in {"neg"} |-> 8]
Atom == 9
Level(e) == IF e[1] \in DOMAIN Levels THEN Levels[e[1]] ELSE Atom
KeywordWords(k) ==
    CASE k = "isnull" -> <<"IS", "NULL">> [] k = "isnotnull" -> <<"IS", "NOT", "NULL">>
      [] k = "notlike" -> <<"NOT", "LIKE">> [] k = "notilike" -> <<"NOT", "ILIKE">>
      [] k = "between" -> <<"BETWEEN">> [] k = "notbetween" -> <<"NOT", "BETWEEN">>
      [] k = "in" -> <<"IN">> [] k = "notin" -> <<"NOT", "IN">>

RECURSIVE Words(_)
Enclosed(x) == <<"(">> \o x \o <<")">>
Wrapped(e, level) == IF Level(e) < level THEN Enclosed(Words(e)) ELSE Words(e)
Separated(parts) ==
    SX!FlattenSeq([i \in DOMAIN parts |-> (IF i = 1 THEN <<>> ELSE <<",">>) \o parts[i]])
WordsOf(es) == Separated([i \in DOMAIN es |-> Words(es[i])])
If(present, x) == IF present THEN x ELSE <<>>

KeyWords(k) ==
    Words(k[2]) \o If(k[3] = "desc", <<"DESC">>) \o If(k[4] = "first", <<"NULLS", "FIRST">>)
KeysOf(ks) == Separated([i \in DOMAIN ks |-> KeyWords(ks[i])])
WindowWords(o) ==
    If(o.partition # <<>>, <<"PARTITION", "BY">> \o WordsOf(o.partition))
    \o If(o.order # <<>>, <<"ORDER", "BY">> \o KeysOf(o.order))
    \o If(o.unit # "", <<o.unit, "BETWEEN">> \o o.from \o <<"AND">> \o o.to)
WhenWords(ws) ==
    SX!FlattenSeq([i \in DOMAIN ws |-> <<"WHEN">> \o Words(ws[i][2]) \o <<"THEN">> \o Words(ws[i][3])])
CaseWords(x, whens, otherwise) ==
    <<"CASE">> \o If(x # <<>>, Words(x)) \o WhenWords(whens)
    \o If(otherwise # <<>>, <<"ELSE">> \o Words(otherwise)) \o <<"END">>

Qualified(q, n) == IF q = "" THEN <<n>> ELSE <<q, ".", n>>
AtomWords(e) ==
    CASE e[1] = "lit" -> <<e[2]>>
      [] e[1] = "star" -> Qualified(e[2], "*")
      [] e[1] = "col" -> Qualified(e[2], e[3])
      [] e[1] = "func" -> <<e[2], "(">> \o If(e[3], <<"DISTINCT">>) \o WordsOf(e[4]) \o <<")">>
      [] e[1] = "window" -> <<e[2]>> \o Enclosed(WordsOf(e[3])) \o <<"OVER">> \o Enclosed(WindowWords(e[4]))
      [] e[1] = "case" -> CaseWords(e[2], e[3][2], e[3][3])
      [] e[1] = "cast" -> <<"CAST">> \o Enclosed(Words(e[2]) \o <<"AS", e[3]>>)
      [] e[1] = "sub" -> Enclosed(Words(e[2]))
      [] e[1] = "exists" -> <<"EXISTS">> \o Enclosed(Words(e[2]))
      [] e[1] = "alias" -> Words(e[2]) \o <<"AS", e[3]>>
PostfixWords(e) ==
    Wrapped(e[2], Atom) \o KeywordWords(e[1]) \o
    CASE e[1] \in {"isnull", "isnotnull"} -> <<>>
      [] e[1] \in {"notlike", "notilike"} -> Wrapped(e[3], 5)
      [] e[1] \in {"between", "notbetween"} -> Wrapped(e[3], 6) \o <<"AND">> \o Wrapped(e[4], 6)
      [] e[1] \in {"in", "notin"} -> Enclosed(IF e[4] # <<>> THEN Words(e[4]) ELSE WordsOf(e[3]))

ItemWords(f, first, plain) ==
    (CASE first -> <<>> [] ~first /\ plain -> <<",">>
       [] ~first /\ ~plain -> If(f.join # "INNER", <<f.join>>) \o <<"JOIN">>)
    \o (IF f.sub # <<>> THEN Enclosed(Words(f.sub)) ELSE <<f.table>>)
    \o If(f.alias # "", <<f.alias>>) \o If(f.on # <<>>, <<"ON">> \o Words(f.on))
Plain(f) == f.join = "INNER" /\ f.on = <<>>
FromWords(fs) ==
    SX!FlattenSeq([i \in DOMAIN fs |-> ItemWords(fs[i], i = 1, \A j \in 1..i : Plain(fs[j]))])
CteWords(ctes) ==
    Separated([i \in DOMAIN ctes |->
        <<ctes[i][1], "AS">> \o Enclosed(Words(<<"select", ctes[i][2]>>))])
SelectWords(s) ==
    If(s.ctes # <<>>, <<"WITH">> \o CteWords(s.ctes))
    \o <<"SELECT">> \o If(s.distinct, <<"DISTINCT">>) \o WordsOf(s.list)
    \o If(s.from # <<>>, <<"FROM">> \o FromWords(s.from))
    \o If(s.where # <<>>, <<"WHERE">> \o Words(s.where))
    \o If(s.group # <<>>, <<"GROUP", "BY">> \o WordsOf(s.group))
    \o If(s.having # <<>>, <<"HAVING">> \o Words(s.having))
    \o If(s.order # <<>>, <<"ORDER", "BY">> \o KeysOf(s.order))
    \o If(s.limit # "", <<"LIMIT", s.limit>>) \o If(s.offset # "", <<"OFFSET", s.offset>>)
SetWords(as) ==
    Separated([i \in DOMAIN as |-> <<as[i][1], "=">> \o If(as[i][2], <<"-">>) \o <<as[i][3]>>])
StatementWords(s) ==
    CASE s[1] = "select" -> SelectWords(s[2])
      [] s[1] = "setop" ->
            Words(s[3]) \o (IF s[2] = "UNION ALL" THEN <<"UNION", "ALL">> ELSE <<s[2]>>) \o Words(s[4])
      [] s[1] = "update" -> <<"UPDATE", s[2].table, "SET">> \o SetWords(s[2].set)
                            \o If(s[2].where # <<>>, <<"WHERE">> \o Words(s[2].where))
      [] s[1] = "delete" -> <<"DELETE", "FROM", s[2].table>>
                            \o If(s[2].where # <<>>, <<"WHERE">> \o Words(s[2].where))
      [] s[1] = "begin" -> <<"BEGIN">>
      [] OTHER -> s

Words(e) ==
    CASE e[1] = "neg" -> <<"-">> \o Wrapped(e[2], Atom)
      [] e[1] = "not" -> <<"NOT">> \o Wrapped(e[2], Atom)
      [] e[1] \in Postfix -> PostfixWords(e)
      [] e[1] \in DOMAIN Levels \ (Postfix \cup {"not", "neg"}) ->
            Wrapped(e[2], Level(e)) \o <<e[1]>> \o Wrapped(e[3], Level(e) + 1)
      [] e[1] \in {"select", "setop", "update", "delete", "begin", "COMMIT", "ROLLBACK"} ->
            StatementWords(e)
      [] OTHER -> AtomWords(e)

-----------------------------------------------------------------------------
(* A client sends the text of a statement; the next one comes after it.      *)

Init == given = <<>> /\ parsed = <<>>
Ask(s) == given = <<>> /\ given' = s /\ parsed' = SqlParse(Words(s))
Forget == given # <<>> /\ given' = <<>> /\ parsed' = <<>>
Next == (\E s \in Trees : Ask(s)) \/ Forget
Spec == Init /\ [][Next]_grammarVars

(* The text of a tree is parsed into that tree: what parse_expr's precedence *)
(* climbing nests, which clause takes which words and where a statement ends *)
(* are what SQL says, in texts parenthesised where the parser differs.       *)
ParsesWhatWasPrinted == parsed = given

=============================================================================
