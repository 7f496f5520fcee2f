------------------------------ MODULE MatchStep ------------------------------
(***************************************************************************)
(* The match step of a pipeline (run_match_step of src/gateway/api.c):     *)
(* candidate rows that share a key are scored in pairs by a measure of     *)
(* likeness (lib/qengine/qengine.c), and the pairs within the threshold of *)
(* a rule are written to the target table.                                 *)
(*                                                                         *)
(* A text is a sequence of code points, a score a fraction <<n, d>>.       *)
(***************************************************************************)
EXTENDS Integers, Sequences, FiniteSets, SequencesExt, FiniteSetsExt

CONSTANTS
    Tables,       \* the candidate sets: sequences of [id, scan, test]
    Rules,        \* [metric, op, threshold, normalize]
    MAX_RS_ROWS   \* rows of a result

VARIABLES
    cand,     \* the candidates, in the order the SQL gave them
    rule,     \* the rule of the run
    pairs,    \* the rows of the target table: [a, b, score]
    matched   \* the run: "", "ok", "failed"

matchVars == <<cand, rule, pairs, matched>>

-----------------------------------------------------------------------------
(* The cell of a NULL: the text of DFO_NULL_SENTINEL.                        *)
Null == <<1, 2, 95, 95, 68, 70, 79>>
Blank == {32, 9, 10, 13}

(* normalize_inn keeps the digits.                                           *)
Digits(s) == SelectSeq(s, LAMBDA c : c \in 48 .. 57)

(* normalize_name: lower case of Latin and Cyrillic, blanks collapsed.       *)
Lower(c) ==
    CASE c \in 65 .. 90 \union 1040 .. 1071 -> c + 32
      [] c = 1025 -> 1105
      [] c \in Blank -> 32
      [] OTHER -> c
Name(s) ==
    LET kept == SelectSeq([i \in DOMAIN s |-> i],
                  LAMBDA i : s[i] \notin Blank \/ (/\ i > 1 /\ s[i - 1] \notin Blank
                                                   /\ \E j \in i + 1 .. Len(s) : s[j] \notin Blank))
    IN [k \in DOMAIN kept |-> Lower(s[kept[k]])]

(* qe_levenshtein: a row of the table from the row above it.                 *)
Min3(x, y, z) == Min({x, y, z})
NextRowNoSub(above, c, y, i) ==
    LET cur[j \in 0 .. Len(y)] ==
            IF j = 0 THEN i ELSE IF c = y[j] THEN above[j - 1] ELSE 1 + Min({above[j], cur[j - 1]})
    IN cur
NextRow(above, c, y, i) ==
    LET cur[j \in 0 .. Len(y)] ==
            IF j = 0 THEN i
            ELSE Min3(above[j] + 1, cur[j - 1] + 1, above[j - 1] + (IF c = y[j] THEN 0 ELSE 1))
    IN cur
Levenshtein(x, y) ==
    FoldLeft(LAMBDA row, i : NextRow(row, x[i], y, i), [j \in 0 .. Len(y) |-> j], [i \in DOMAIN x |-> i])[Len(y)]

(* qe_jaro_winkler: each code point takes the first one like it, not taken   *)
(* yet, within half the longer length.                                       *)
Reach(x, y) == Max({0, Max({Len(x), Len(y)}) \div 2 - 1})
Like(x, y, i, taken) ==
    {j \in DOMAIN y : j \in i - Reach(x, y) .. i + Reach(x, y) /\ j \notin taken /\ x[i] = y[j]}
Matching(x, y) ==
    FoldLeft(LAMBDA m, i : LET js == Like(x, y, i, {m[k][2] : k \in DOMAIN m})
                           IN IF js = {} THEN m ELSE Append(m, <<i, Min(js)>>),
             <<>>, [i \in DOMAIN x |-> i])
Transposed(x, y, m) ==
    LET taken == SetToSortSeq({m[k][2] : k \in DOMAIN m}, <)
    IN Cardinality({k \in DOMAIN m : x[m[k][1]] # y[taken[k]]})
Prefix(x, y) ==
    Max({n \in 0 .. Min({Len(x), Len(y), 4}) : \A i \in 1 .. n : x[i] = y[i]})
Winkler(n, d, prefix) == <<10 * n + prefix * (d - n), 10 * d>>
JaroWinkler(x, y) ==
    LET m == Matching(x, y)
        k == Len(m)
        d == 6 * Len(x) * Len(y) * k
        n == 2 * k * k * (Len(x) + Len(y)) + Len(x) * Len(y) * (2 * k - Transposed(x, y, m))
    IN IF x = <<>> \/ y = <<>> THEN <<IF Len(x) = Len(y) THEN 1 ELSE 0, 1>>
       ELSE IF m = <<>> THEN <<0, 1>>
       ELSE Winkler(n, d, Prefix(x, y))

(* qe_word_similarity: how many trigrams of the first are in the second; two *)
(* short texts are alike or not (strcasecmp).                                *)
AsciiLower(s) == [i \in DOMAIN s |-> IF s[i] \in 65 .. 90 THEN s[i] + 32 ELSE s[i]]
Trigram(s, i) == SubSeq(s, i, i + 2)
WordSimilarity(q, d) ==
    LET found == {i \in 1 .. Len(q) - 2 : \E j \in 1 .. Len(d) - 2 : Trigram(q, i) = Trigram(d, j)}
    IN IF Len(q) < 3 THEN <<IF Len(d) < 3 /\ AsciiLower(q) = AsciiLower(d) THEN 1 ELSE 0, 1>>
       ELSE <<Cardinality(found), Len(q) - 2>>

-----------------------------------------------------------------------------
(* A rule.                                                                   *)

(* A key with a part that is NULL or empty matches nothing.                  *)
ScanKey(row) ==
    IF \E k \in DOMAIN row.scan : row.scan[k] \in {<<>>, Null} THEN <<>> ELSE row.scan

Normal(r, s) == CASE r.normalize = "name" -> Name(s) [] r.normalize = "inn" -> Digits(s) [] OTHER -> s
TestText(r, row) ==
    FoldLeft(LAMBDA t, k : (IF k = 1 THEN <<>> ELSE t \o <<32>>) \o Normal(r, row.test[k]),
             <<>>, [k \in DOMAIN row.test |-> k])

Score(r, x, y) ==
    CASE r.metric = "jaro_winkler" -> JaroWinkler(x, y)
      [] r.metric = "levenshtein" -> <<Levenshtein(x, y), 1>>
      [] OTHER -> WordSimilarity(x, y)

Passes(r, s) ==
    \E c \in {s[1] * r.threshold[2] - r.threshold[1] * s[2]} :
        CASE r.op = ">=" -> c >= 0 [] r.op = "<=" -> c <= 0 [] r.op = ">" -> c > 0 [] r.op = "<" -> c < 0
          [] OTHER -> FALSE

Scored(r, x, y) == [a |-> x.id, b |-> y.id, score |-> Score(r, TestText(r, x), TestText(r, y))]
Grouped(rows, p) ==
    p[1] < p[2] /\ ScanKey(rows[p[1]]) # <<>> /\ ScanKey(rows[p[1]]) = ScanKey(rows[p[2]])
Found(r, rows) ==
    LET all == {p \in (DOMAIN rows) \X (DOMAIN rows) : Grouped(rows, p)}
        order == SetToSortSeq(all, LAMBDA p, q : p[1] < q[1] \/ (p[1] = q[1] /\ p[2] < q[2]))
    IN SelectSeq([k \in DOMAIN order |-> Scored(r, rows[order[k][1]], rows[order[k][2]])],
                 LAMBDA m : Passes(r, m.score))

(* rs_add: pairs above the ceiling are dropped, and nobody asks.             *)
Matches(r, rows) ==
    LET found == Found(r, rows)
    IN IF Len(found) > MAX_RS_ROWS THEN SubSeq(found, 1, MAX_RS_ROWS) ELSE found

Init ==
    /\ cand \in Tables
    /\ rule \in Rules
    /\ pairs = <<>>
    /\ matched = ""

Run ==
    /\ matched = ""
    /\ IF Len(cand) > MAX_RS_ROWS
       THEN matched' = "failed" /\ UNCHANGED pairs
       ELSE matched' = "ok" /\ pairs' = Matches(rule, cand)
    /\ UNCHANGED <<cand, rule>>

Next == Run

Spec == Init /\ [][Next]_matchVars

-----------------------------------------------------------------------------
Compared == {<<TestText(rule, cand[i]), TestText(rule, cand[j])>> :
                i \in DOMAIN cand, j \in DOMAIN cand}

(* The ways to line up two texts: as many places of each, kept in order.     *)
Alignments(x, y) ==
    UNION {{<<SetToSortSeq(p, <), SetToSortSeq(q, <)>> : p \in kSubset(k, DOMAIN x), q \in kSubset(k, DOMAIN y)}
              : k \in 0 .. Min({Len(x), Len(y)})}
Edits(x, y, m) ==
    Len(x) + Len(y) - 2 * Len(m[1]) + Cardinality({k \in DOMAIN m[1] : x[m[1][k]] # y[m[2][k]]})

(* The table of qe_levenshtein is filled a row at a time over code points    *)
(* and two buffers: what it ends with is the least number of edits any way   *)
(* of lining up the two texts needs.                                         *)
DistanceIsLeast ==
    (matched = "ok" /\ rule.metric = "levenshtein") =>
        \A c \in Compared : Levenshtein(c[1], c[2]) = Min({Edits(c[1], c[2], m) : m \in Alignments(c[1], c[2])})

AllFit == Len(Found(rule, cand)) <= MAX_RS_ROWS
Unordered(ms) == {<<{ms[k].a, ms[k].b}, ms[k].score[1], ms[k].score[2]>> : k \in DOMAIN ms}

(* The candidates come in whatever order the SQL gives them, and a pair is   *)
(* scored once, its first row against its second.  Rules that measure by     *)
(* edits or by Jaro-Winkler, whose code points take each other greedily,     *)
(* match the same pairs with the same scores in any order, where the pairs   *)
(* fit under the ceiling (run_match_step, qe_jaro_winkler, qe_levenshtein).  *)
AnyOrderMatches ==
    (matched = "ok" /\ AllFit /\ rule.metric # "word_similarity") =>
        Unordered(pairs) = Unordered(Matches(rule, Reverse(cand)))

(* The scores of a rule's pairs (run_match_step).                            *)
PairsScoredRight == DistanceIsLeast /\ AnyOrderMatches

-----------------------------------------------------------------------------
(* docs/MATCH_RULES.md:33, "for every unordered pair": the trigrams of the   *)
(* first row only are counted.                                               *)
AnyRuleMatchesInAnyOrder ==
    (matched = "ok" /\ AllFit) => Unordered(pairs) = Unordered(Matches(rule, Reverse(cand)))

(* api.c:754-756, "ported from the qengine.c implementations": the functions *)
(* of SQL read bytes, those of a rule code points.                           *)
Bytes(s) == FlattenSeq([i \in DOMAIN s |-> IF s[i] < 128 THEN <<s[i]>> ELSE <<192 + (s[i] \div 64), 128 + (s[i] % 64)>>])
api_levenshtein(x, y) == Levenshtein(Bytes(x), Bytes(y))
api_jaro_winkler(x, y) == JaroWinkler(Bytes(x), Bytes(y))
SqlScoresAlike ==
    \A c \in Compared : /\ rule.metric = "levenshtein" => api_levenshtein(c[1], c[2]) = Levenshtein(c[1], c[2])
                        /\ rule.metric = "jaro_winkler" => api_jaro_winkler(c[1], c[2]) = JaroWinkler(c[1], c[2])

(* api.c:605-607: who gets a truncated result must show it or refuse it: the *)
(* pairs above the ceiling are dropped and the step ends well.               *)
CutPairsAreTold == matched = "ok" => AllFit

(* docs/MATCH_RULES.md:36-37 of a key: a NULL name is the same text as       *)
(* another NULL name.                                                        *)
UnknownNamesDoNotMatch ==
    \A k \in DOMAIN pairs, i \in DOMAIN cand :
        cand[i].id \in {pairs[k].a, pairs[k].b} => \A p \in DOMAIN cand[i].test : cand[i].test[p] # Null
=============================================================================
