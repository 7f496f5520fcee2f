------------------------------ MODULE MCTableLog ------------------------------
(* Instances of TableLog for TLC. *)
EXTENDS TableLog, TLC

Symmetry == Permutations(Threads)

(* A cell with a comma is cut by the next reader; a NULL in the first cell is *)
(* printed as the sentinel, and its record taken for a batch.                 *)
CellTexts == {"comma", "cut", "null", "sentinel"}
CellReread == [x \in CellTexts |-> CASE x = "comma" -> "cut" [] x = "null" -> "sentinel" [] OTHER -> x]
CellTextOf == <<"comma", "null">>
CellMistaken == {"sentinel"}
=============================================================================
