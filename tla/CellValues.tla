------------------------------ MODULE CellValues ------------------------------
(***************************************************************************)
(* Cells and values of the executor (src/gateway/api.c): every cell is a   *)
(* string or NULL, a value carries what the string can be read as.         *)
(*                                                                         *)
(* A number is itself; a text is its place in the order of strcmp, 0 being *)
(* the empty string; a number computed by an expression ("calc") has no    *)
(* digits of its own until it is put into a cell.                          *)
(***************************************************************************)
EXTENDS Integers

Val(k, n) == [k |-> k, n |-> n]
Null == Val("null", 0)
Num(n) == Val("num", n)
Calc(n) == Val("calc", n)
Txt(r) == Val("text", r)
Bool(b) == Val("bool", IF b THEN 1 ELSE 0)
Empty == Txt(0)
Leaked == Val("mark", 1)      \* the mark of a NULL cell, taken for a text

IsNull(v) == v.k = "null"
IsNumber(v) == v.k \in {"num", "calc"}

(* val_cell keeps NULL, val_str shows it as the empty string.                *)
CellOf(v) == IF v.k = "calc" THEN Num(v.n) ELSE IF v = Leaked THEN Null ELSE v
Shown(v) == IF IsNull(v) THEN Empty ELSE IF v = Leaked THEN v ELSE CellOf(v)

(* vt: what counts as true.                                                  *)
Truthy(v) == v.k # "null" /\ v.n # 0

(* The order of strcmp: "" before the mark before digits before letters;     *)
(* what has no string is compared as the empty one.                          *)
Place(v) ==
    CASE v.k = "text" -> IF v.n = 0 THEN 0 ELSE 100 + v.n
      [] v.k = "num" -> 50 + v.n
      [] v.k = "mark" -> 1
      [] v.k = "bool" -> 200 + v.n
      [] OTHER -> 0

Sign(n) == IF n < 0 THEN -1 ELSE IF n > 0 THEN 1 ELSE 0

(* vcmp: NULL is lowest, numbers by value, the rest as strings.              *)
Cmp(a, b) ==
    IF IsNull(a) \/ IsNull(b) THEN (IF IsNull(b) THEN 1 ELSE 0) - (IF IsNull(a) THEN 1 ELSE 0)
    ELSE IF IsNumber(a) /\ IsNumber(b) THEN Sign(a.n - b.n)
    ELSE Sign(Place(a) - Place(b))

(* veq: NULL equals nothing.                                                 *)
Same(a, b) ==
    /\ ~IsNull(a) /\ ~IsNull(b)
    /\ \/ IsNumber(a) /\ IsNumber(b) /\ a.n = b.n
       \/ a = b

(* The comparison of ORDER BY, MIN, MAX and windows: as shown, numbers by    *)
(* value when both are.                                                      *)
CmpShown(a, b) == Cmp(Shown(a), Shown(b))
=============================================================================
