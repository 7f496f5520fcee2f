----------------------------- MODULE MCFrontEnds ------------------------------
(***************************************************************************)
(* Three ways into the query engines, one of them at work in a behaviour   *)
(* and the others at rest: the PostgreSQL wire server, the SQL parser, and *)
(* the plans of lib/qengine.                                               *)
(***************************************************************************)
EXTENDS Integers, MCSqlGrammar, PgWire

VARIABLES disk, leftover, question, printed, part

grammar == <<given, parsed>>
plan == <<disk, leftover, question, printed>>

WireValues == {<<>>, <<"7">>, <<"o'b">>}
WireDoubled(v) == IF v = "o'b" THEN "o''b" ELSE v
WireTexts == {[verb |-> "update", arg |-> Arg("param", 1, "")], [verb |-> "missing", arg |-> NoArg]}
WireLoads == {<<"x", "null">>}
V == INSTANCE MCVolcano

Init ==
    /\ part \in {"wire", "grammar", "plan"}
    /\ WireInit
    /\ G!Init
    /\ IF part = "plan" THEN V!V!Init ELSE disk = <<>> /\ leftover = <<>> /\ question = 0 /\ printed = <<>>

Next ==
    \/ part = "wire" /\ WireNext /\ UNCHANGED <<grammar, plan, part>>
    \/ part = "grammar" /\ G!Next /\ UNCHANGED <<wireVars, plan, part>>
    \/ part = "plan" /\ V!V!Next /\ UNCHANGED <<wireVars, grammar, part>>

FrontEndsSpec == Init /\ [][Next]_<<wireVars, grammar, plan, part>>
Perms == Permutations(Names)

VolcanoAgrees == V!VolcanoAgrees
=============================================================================
