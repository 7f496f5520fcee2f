--------------------------- MODULE MCPipelineSteps ---------------------------
(* Instances of PipelineSteps for TLC. *)
EXTENDS PipelineSteps, TLC

\* A step, with the fields that differ from a plain one.
Plain == [has |-> {}, deps |-> {}, target |-> "", reads |-> "", mode |-> "append",
          limit |-> -1, sorted |-> FALSE, incremental |-> FALSE, paging |-> "offset",
          described |-> TRUE, max_retries |-> 0, delay |-> 0]
Source == [Plain EXCEPT !.has = {"connector"}, !.max_retries = 1, !.delay = 2]
Sink == [Plain EXCEPT !.has = {"sink", "connector", "sql"}, !.deps = {1}, !.reads = "@prev"]
Sql == [Plain EXCEPT !.has = {"sql"}, !.deps = {1}, !.reads = "@prev"]

\* Rows carried from a source to a sink.
Feed == <<[Source EXCEPT !.incremental = TRUE, !.paging = "key"], Sink>>
\* A mart: the first rows pushed out, everything transformed.
Mart == <<[Source EXCEPT !.target = "stage"],
          [Sink EXCEPT !.deps = {1, 2, 9}, !.reads = "stage", !.mode = "overwrite",
                       !.limit = 3, !.max_retries = 1, !.delay = 2],
          [Sql EXCEPT !.max_retries = 2, !.reads = "stage"]>>
\* Steps listed after those that read them, a script among them.
Shuffled == <<[Sql EXCEPT !.deps = {3}, !.reads = "in"],
              [Sink EXCEPT !.reads = "in", !.deps = {1}, !.mode = "overwrite", !.sorted = TRUE],
              [Source EXCEPT !.target = "in"]>>
Script == <<Source, [Sql EXCEPT !.has = {"python", "sql"}, !.max_retries = 2, !.delay = 3],
            [Plain EXCEPT !.deps = {2}]>>
Looped == <<[Sql EXCEPT !.deps = {2}], Sql>>
Sound == {Feed, Mart, Shuffled, Script, Looped}

\* mssql with a query and no cursor_column; with a cursor_column.
Portion == {<<[Source EXCEPT !.paging = "portion"]>>}
Unsaid == {<<[Source EXCEPT !.incremental = TRUE, !.paging = "key unsaid"], Sink>>}
NoSchema == {<<[Source EXCEPT !.incremental = TRUE, !.paging = "key", !.described = FALSE], Sink>>}
\* A second sink, with LIMIT 0.
NoRows == {<<Source, Sink, [Sink EXCEPT !.deps = {2}, !.mode = "overwrite", !.limit = 0]>>}
=============================================================================
