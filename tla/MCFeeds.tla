------------------------------- MODULE MCFeeds --------------------------------
(***************************************************************************)
(* What fills the warehouse, one part at work in a behaviour and the       *)
(* others at rest: materialized views, the Kafka source, the SCD2 step,    *)
(* the match step, and the directory of connections the steps open.  The   *)
(* views are two, one over the table and one over that view.               *)
(***************************************************************************)
EXTENDS MatView, KafkaSource, Dimension, Connections

VARIABLES cand, rule, pairs, matched, part

MCSources == [v \in {"orders_day", "top"} |-> IF v = "top" THEN <<"orders_day">> ELSE <<"orders">>]
MCHits == [v \in {"orders_day", "top"} |-> IF v = "top" THEN {"orders_day", "orders"} ELSE {"orders"}]
MCMode == [v \in {"orders_day", "top"} |-> IF v = "top" THEN "schedule" ELSE "on_write"]

(* Three messages, one of them not Avro, and three settings of a consumer.   *)
Field(n, t, x) == [name |-> n, type |-> t, text |-> x]
MCPayload ==
    <<[schema |-> 7, fields |-> <<Field("id", "int", "1"), Field("w", "text", "a")>>],
      [schema |-> 7, fields |-> <<Field("id", "null", "null"), Field("w", "text", "b")>>],
      [schema |-> 0, fields |-> <<>>]>>
MCSettings ==
    {[group |-> "", latest |-> FALSE, start |-> "", named |-> FALSE, avro |-> TRUE],
     [group |-> "own", latest |-> TRUE, start |-> "absolute", named |-> TRUE, avro |-> FALSE],
     [group |-> "dfo-consumer", latest |-> FALSE, start |-> "absolute", named |-> FALSE, avro |-> FALSE]}

(* Five snapshots of a source, one of them above the ceiling of four rows.   *)
MCNoKey == 0
SourceRow(k, v, at, d) == [key |-> k, val |-> v, at |-> at, deleted |-> d]
MCSnapshots ==
    {<<SourceRow(1, "x", 3, FALSE), SourceRow(2, "y", 1, FALSE)>>,
     <<SourceRow(1, "y", 2, FALSE), SourceRow(2, "y", 1, TRUE)>>,
     <<SourceRow(1, "x", 1, FALSE), SourceRow(MCNoKey, "x", 1, FALSE)>>,
     [i \in 1..5 |-> SourceRow(i, IF i < 4 THEN "y" ELSE "x", 1, FALSE)],
     <<SourceRow(1, "x", 1, FALSE), SourceRow(1, "y", 1, FALSE)>>}
MCModes == {[hash |-> b, business |-> b] : b \in BOOLEAN}

(* One connection, two forms that spell its secret differently, two clients. *)
MCOrder == <<"c1">>
Named(n, s) == [name |-> n, spelling |-> s]
Form(k, p) == [x \in {k, Named("brokers", "_")} |-> IF x = k THEN p ELSE "h1"]
MCForms == {Form(Named("sasl_password", "."), "p1"), Form(Named("sasl_password", "_"), Mask)}
MCStepConfigs ==
    {[x \in {Named("sasl_password", "_"), Named("topic", "_"), Named("brokers", "_")} |->
        IF x = Named("topic", "_") THEN "t" ELSE "own"]}

match == <<cand, rule, pairs, matched>>

S == INSTANCE MCMatch

FeedsInit ==
    /\ part \in {"views", "kafka", "dimension", "match", "connections"}
    /\ Init
    /\ KafkaInit /\ (part # "kafka" => cfg = CHOOSE c \in Settings : TRUE)
    /\ DimInit /\ (part # "dimension" => mode = CHOOSE m \in Modes : TRUE)
    /\ part # "dimension" => source = CHOOSE s \in Snapshots : TRUE
    /\ IF part = "match" THEN S!M!Init
       ELSE cand = <<>> /\ rule = 0 /\ pairs = <<>> /\ matched = ""
    /\ DirectoryInit /\ (part # "connections" => \A c \in Conns : directory[c].none)

OthersRest(mine) ==
    /\ part' = part
    /\ mine = "views" \/ UNCHANGED mvVars
    /\ mine = "kafka" \/ UNCHANGED kafkaVars
    /\ mine = "dimension" \/ UNCHANGED dimVars
    /\ mine = "match" \/ UNCHANGED match
    /\ mine = "connections" \/ UNCHANGED connVars
FeedsNext ==
    \/ part = "views" /\ Next /\ OthersRest(part)
    \/ part = "kafka" /\ KafkaNext /\ OthersRest(part)
    \/ part = "dimension" /\ DimNext /\ OthersRest(part)
    \/ part = "match" /\ S!M!Next /\ OthersRest(part)
    \/ part = "connections" /\ DirectoryNext /\ OthersRest(part)

feedVars == <<mvVars, kafkaVars, dimVars, match, connVars, part>>
FeedsSpec ==
    /\ FeedsInit /\ [][FeedsNext]_feedVars
    /\ \A th \in Threads : WF_feedVars(part = "views" /\ Step(th) /\ OthersRest(part))
    /\ WF_feedVars(part = "views" /\ Tick /\ OthersRest(part))

PairsScoredRight == part = "match" => S!PairsScoredRight
=============================================================================
