------------------------------- MODULE MCMatch --------------------------------
(* Candidates of short words, and the three metrics, for MCFeeds; four rows  *)
(* alike make six pairs, two more than the ceiling, five are refused.        *)
EXTENDS Integers, Sequences
VARIABLES cand, rule, pairs, matched
Null == <<1, 2, 95, 95, 68, 70, 79>>
a == 97
b == 1073
Words == UNION {[1 .. n -> {a, b, 99}] : n \in 0 .. 2} \union [1 .. 3 -> {a, b}]
Row(i, w) == [id |-> i, scan |-> <<<<7>>>>, test |-> <<w>>]
Long == {<<a, b, a, b, b>>, <<b, a, b, a>>, <<a, a, b, b>>, <<b, b, a, a, a>>, <<a, b, 99, a, b, 99>>, <<b, 99, a, a, a, b>>, <<65, 32, 32, 1041, 97>>, Null}
Sets == {<<Row(1, x), Row(2, y)>> : x, y \in Words} \union {<<Row(1, x), Row(2, y), [Row(3, <<a, a>>) EXCEPT !.scan = <<Null>>]>> : x, y \in Long} \union {[i \in 1 .. n |-> Row(i, <<a>>)] : n \in {4, 5}}
Rl(m, o, n, d, z) == [metric |-> m, op |-> o, threshold |-> <<n, d>>, normalize |-> z]
M == INSTANCE MatchStep WITH Tables <- Sets, MAX_RS_ROWS <- 4,
   Rules <- {Rl("levenshtein", "<=", 1, 1, "none"), Rl("jaro_winkler", ">=", 8, 10, "name"), Rl("word_similarity", ">=", 5, 10, "none")}
PairsScoredRight == M!PairsScoredRight
=============================================================================
