--------------------------- MODULE PipelineSteps ---------------------------
(***************************************************************************)
(* One run after another of one pipeline: the order of its steps, the      *)
(* attempts at each, the pages a source step pulls into its table and a    *)
(* sink step pushes out of it, the watermark kept between runs, and what a *)
(* failure or a crash at any point leaves behind (src/gateway/api.c,       *)
(* pipeline_execute_steps_internal and the steps it calls).                *)
(*                                                                         *)
(* A row is its value of cursor_column, the key of the source.  A table is *)
(* the sequence of its rows in the order of its log.  Who may start a run  *)
(* is in PipelineRuns, who holds a session in ConnPool, what a query       *)
(* answers in TableLog and SelectQuery: here a step reads a table as a     *)
(* whole, or a page of it.                                                 *)
(***************************************************************************)
EXTENDS Integers, Sequences, FiniteSets, SequencesExt

CONSTANTS
    Pipelines,      \* the pipelines to choose from: sequences of steps
    BatchSize,      \* BATCH_SIZE: rows of a batch
    SinkPage,       \* SINK_PAGE: rows of a page read for a sink
    MaxRsRows,      \* MAX_RS_ROWS: where a result is truncated
    DelayCap,       \* RETRY_TOTAL_DELAY_CAP_SEC
    FirstKey,       \* key of the first row of the source, the next ones follow it
    MaxSource,      \* bound: rows the source ever has
    MaxRuns,        \* bound: runs
    MaxFaults,      \* bound: failures of external systems, and crashes
    MaxEdits        \* bound: statements of others on the tables

\* What a step says of itself, of what is modelled here.
StepRecord ==
    [has : SUBSET STRING, deps : SUBSET Nat, target : STRING, reads : STRING, mode : STRING,
     limit : Nat \cup {-1}, sorted : BOOLEAN, incremental : BOOLEAN,
     paging : {"key", "key unsaid", "offset", "portion"}, described : BOOLEAN,
     max_retries : Nat, delay : Nat]

ASSUME StepsAssumption ==
    /\ \A p \in Pipelines : p \in Seq(StepRecord)
    /\ {BatchSize, SinkPage, MaxRsRows, FirstKey} \subseteq Nat \ {0}
    /\ {DelayCap, MaxSource, MaxRuns, MaxFaults, MaxEdits} \subseteq Nat

VARIABLES
    pipe,       \* the pipeline
    source,     \* how many rows the external source has
    watermark,  \* [steps -> saved cursor], 0: no file
    tables,     \* [names -> rows]
    existing,   \* the names that are tables
    schemaIn,   \* [names -> where the schema lives a table points to]
    sink,       \* rows of the external destination
    run,        \* the run under way
    lastRun,    \* outcome of the last run: "none", "success", "failed"
    alert,      \* what the alert webhook was told last
    counts      \* runs, faults and edits so far

vars == <<pipe, source, watermark, tables, existing, schemaIn, sink, run, lastRun, alert, counts>>

-----------------------------------------------------------------------------
(* Pipelines.                                                              *)

\* A step's table: the user's, else the visible result for the last step of
\* the array, else a hidden table of its own.
Hidden == <<"__dfo_s0", "__dfo_s1", "__dfo_s2">>
OutputTable(i) ==
    CASE pipe[i].target # ""  -> pipe[i].target
      [] pipe[i].target = "" /\ i = Len(pipe) -> "result"
      [] OTHER                -> Hidden[i]

TableNames == {OutputTable(i) : i \in DOMAIN pipe}

\* Edges of the dependency graph: a step's own index and unknown ones do not count.
DependsOn(i) == (pipe[i].deps \cap DOMAIN pipe) \ {i}

\* Kahn's algorithm: again and again the lowest step whose dependencies are out.
ReadyAfter(emitted) ==
    {i \in DOMAIN pipe \ Range(emitted) : DependsOn(i) \subseteq Range(emitted)}
Lowest(S) == CHOOSE i \in S : \A j \in S : i <= j
TopoOrder ==
    LET emit[k \in 0 .. Len(pipe)] ==
            IF k = 0 THEN <<>>
            ELSE IF ReadyAfter(emit[k - 1]) = {} THEN emit[k - 1]
                 ELSE Append(emit[k - 1], Lowest(ReadyAfter(emit[k - 1])))
    IN emit[Len(pipe)]
Cyclic == Len(TopoOrder) < Len(pipe)

\* What a step with several descriptions is: the first that applies.
Precedence == <<"sink", "python", "scala", "connector", "match", "scd2", "sql">>
KindOf(i) ==
    LET described == {k \in DOMAIN Precedence : Precedence[k] \in pipe[i].has}
    IN IF described = {} THEN "none" ELSE Precedence[Lowest(described)]

\* The step under way.
Current == run.order[run.at]
Step == pipe[Current]
Out == OutputTable(Current)

\* Its SQL with {@prev} put in: the table it selects from ("" has no such table).
ReadsFrom == IF Step.reads = "@prev" THEN run.prev ELSE Step.reads
NoSuchTable == ReadsFrom # "" /\ ReadsFrom \notin existing
Selected == IF ReadsFrom = "" THEN <<>> ELSE tables[ReadsFrom]
FailsToResolve == Step.reads = "@prev" /\ run.prev = ""

-----------------------------------------------------------------------------
(* Runs.                                                                   *)

Idle == [phase |-> "idle", order |-> <<>>, at |-> 0, retries |-> 0, slept |-> 0,
         prev |-> "", cursor |-> 0, from |-> 0, created |-> FALSE, total |-> 0,
         offset |-> 0, first |-> TRUE, page |-> <<>>, more |-> FALSE, base |-> <<>>,
         done |-> {}, retryable |-> TRUE, touched |-> FALSE]

Count(what) == counts' = [counts EXCEPT ![what] = @ + 1]
MayFail == counts.faults < MaxFaults

\* The status is logged; the alert is sent when it differs from the last one.
EndOfRun(status) ==
    /\ lastRun' = status
    /\ alert' = IF (status = "failed") = (lastRun = "failed") THEN alert ELSE status
    \* The arena of the run is destroyed, with the schemas made in it.
    /\ schemaIn' = [t \in DOMAIN schemaIn |->
                       IF schemaIn[t] = "run" THEN "freed" ELSE schemaIn[t]]

StartRun ==
    /\ run.phase = "idle" /\ counts.runs < MaxRuns
    /\ Count("runs")
    /\ IF Cyclic
       THEN EndOfRun("failed") /\ UNCHANGED run
       ELSE /\ run' = [Idle EXCEPT !.phase = "dispatch", !.order = TopoOrder, !.at = 1]
            /\ UNCHANGED <<lastRun, alert, schemaIn>>
    /\ UNCHANGED <<pipe, source, watermark, tables, existing, sink>>

\* The next step: its output is named, its SQL resolved.
Dispatch ==
    /\ run.phase = "dispatch" /\ run.at <= Len(run.order)
    /\ IF FailsToResolve
       THEN run' = Idle /\ EndOfRun("failed")
       ELSE /\ run' = [run EXCEPT !.phase = "attempt", !.retries = 0]
            /\ UNCHANGED <<lastRun, alert, schemaIn>>
    /\ UNCHANGED <<pipe, source, watermark, tables, existing, sink, counts>>

SucceedRun ==
    /\ run.phase = "dispatch" /\ run.at > Len(run.order)
    /\ run' = Idle /\ EndOfRun("success")
    /\ UNCHANGED <<pipe, source, watermark, tables, existing, sink, counts>>

\* What an attempt starts with, by kind of step.
FirstPhase(kind) ==
    CASE kind = "sink" -> "query"
      [] kind = "connector" -> "read"
      [] kind = "none" -> "succeeded"
      [] OTHER -> "exec"

LoadedCursor == IF Step.incremental THEN watermark[Current] ELSE 0

\* A session is leased or opened, and the saved watermark is loaded.
Attempt ==
    /\ run.phase = "attempt"
    /\ \/ /\ run' = [run EXCEPT !.phase = FirstPhase(KindOf(Current)),
                      !.cursor = LoadedCursor, !.from = LoadedCursor, !.created = FALSE,
                      !.total = 0, !.offset = 0, !.first = TRUE, !.page = <<>>, !.base = sink,
                      !.touched = FALSE]
          /\ UNCHANGED counts
       \/ /\ KindOf(Current) \in {"sink", "connector"} /\ MayFail
          /\ \E again \in BOOLEAN :
                run' = [run EXCEPT !.phase = "failed", !.retryable = again]
          /\ Count("faults")
    /\ UNCHANGED <<pipe, source, watermark, tables, existing, schemaIn, sink, lastRun, alert>>

-----------------------------------------------------------------------------
(* Tables.                                                                 *)

\* recreate_table: the old log is dropped, the new one is empty, and its schema
\* is where the caller allocated it: in the arena of the run.
Recreate(t) ==
    /\ tables' = [tables EXCEPT ![t] = <<>>]
    /\ existing' = existing \cup {t}
    /\ schemaIn' = [schemaIn EXCEPT ![t] = "run"]

KeepTables == UNCHANGED <<tables, existing, schemaIn>>

-----------------------------------------------------------------------------
(* A source step.                                                          *)

\* What a connector reads on from. By key: rows past the cursor. By offset: rows
\* past as many as the cursor counts. "portion": mssql with a query and no
\* cursor_column selects its first rows, whatever the cursor.
SourceRows == [k \in 1 .. source |-> FirstKey + k - 1]
RowsUpTo(key) == IF key < FirstKey THEN 0 ELSE key - FirstKey + 1
Behind(cursor) ==
    CASE Step.paging \in {"key", "key unsaid"} -> SubSeq(SourceRows, RowsUpTo(cursor) + 1, source)
      [] Step.paging = "offset"  -> SubSeq(SourceRows, cursor + 1, source)
      [] Step.paging = "portion" -> SourceRows

Shorter(n, m) == IF n < m THEN n ELSE m

\* A page: at most a batch, possibly short. A connector may say that the page is
\* the last one, if it is; those that page by key or portion never do.
PageLengths(rest) == IF rest = <<>> THEN {0} ELSE 1 .. Shorter(BatchSize, Len(rest))
SaysLast == IF Step.paging = "offset" THEN BOOLEAN ELSE {FALSE}
Pages(rest) == {<<SubSeq(rest, 1, n), last>> : n \in PageLengths(rest), last \in SaysLast}
TruePages ==
    {p \in Pages(Behind(run.cursor)) : p[2] => Len(p[1]) = Len(Behind(run.cursor))}

\* read_batch: an error ends the attempt, an empty page ends the reading and
\* empties a table no page has created, if its schema is known; any other page
\* waits to be appended.
CreatesIfMissing(rows) == Out \notin existing                      \* mutant
Creates(rows) == ~run.created /\ (rows # <<>> \/ Step.described)
ReadPage ==
    /\ run.phase = "read"
    /\ \/ \E p \in TruePages :
            /\ run' = [run EXCEPT !.page = p[1], !.more = ~p[2],
                                  !.phase = IF p[1] = <<>> THEN "save" ELSE "append",
                                  !.created = @ \/ Creates(p[1])]
            /\ IF Creates(p[1]) THEN Recreate(Out) ELSE KeepTables
            /\ UNCHANGED counts
       \/ /\ MayFail /\ Count("faults") /\ KeepTables
          /\ \E again \in BOOLEAN :
                run' = [run EXCEPT !.phase = "failed", !.retryable = again]
    /\ UNCHANGED <<pipe, source, watermark, sink, lastRun, alert>>

\* In incremental mode the next cursor is what the connector hands back; from one
\* that hands nothing back, and in OFFSET mode, it is the number of rows read.
AdvancedByCount(total) == total                                    \* mutant
Advanced(total) ==
    IF Step.incremental /\ Step.paging = "key" THEN Last(run.page) ELSE total

AppendPage ==
    /\ run.phase = "append"
    /\ LET total == run.total + Len(run.page)
       IN /\ tables' = [tables EXCEPT ![Out] = @ \o run.page]
          /\ run' = [run EXCEPT !.total = total, !.cursor = Advanced(total), !.page = <<>>,
                                !.phase = IF run.more THEN "read" ELSE "save"]
    /\ UNCHANGED <<pipe, source, watermark, existing, schemaIn, sink, lastRun, alert, counts>>

\* cursor_state_save rewrites the file of this step.
SaveCursor ==
    /\ run.phase = "save"
    /\ watermark' = IF Step.incremental THEN [watermark EXCEPT ![Current] = run.cursor] ELSE watermark
    /\ run' = [run EXCEPT !.phase = "succeeded"]
    /\ UNCHANGED <<pipe, source, tables, existing, schemaIn, sink, lastRun, alert, counts>>

-----------------------------------------------------------------------------
(* A sink step.                                                            *)

\* LIMIT page_lim OFFSET page_off over what the step selects; a LIMIT of the
\* user's own (-1: none) bounds the whole. Sorted or grouped rows are all
\* gathered before the page is cut, so too many of them are refused.
PageLimit ==
    IF Step.limit = -1 THEN SinkPage ELSE Shorter(SinkPage, Step.limit - run.offset)
CapReached == Step.limit # -1 /\ run.offset >= Step.limit
PageOf(rows, offset, limit) ==
    SubSeq(rows, offset + 1, Shorter(offset + limit, Len(rows)))

\* Each page is a query of its own. On the first page a batch is written even
\* if there is no row.
QueryPage ==
    /\ run.phase = "query"
    /\ IF CapReached THEN run' = [run EXCEPT !.phase = "succeeded"]
       ELSE IF NoSuchTable
       THEN run' = [run EXCEPT !.phase = "failed", !.retryable = FALSE]
       ELSE IF Step.sorted /\ Len(Selected) > MaxRsRows
       THEN run' = [run EXCEPT !.phase = "failed", !.retryable = TRUE]
       ELSE LET rows == PageOf(Selected, run.offset, PageLimit)
            IN run' = [run EXCEPT !.page = rows, !.more = Len(rows) = PageLimit,
                          !.phase = IF rows = <<>> /\ ~run.first THEN "succeeded" ELSE "write"]
    /\ KeepTables
    /\ UNCHANGED <<pipe, source, watermark, sink, lastRun, alert, counts>>

\* The first batch of the attempt has the step's mode, later ones append.
ModeOfTheStep(first) == Step.mode                                  \* mutant
Mode(first) == IF first THEN Step.mode ELSE "append"
Written(rows, mode) == IF mode = "overwrite" THEN rows ELSE sink \o rows

AfterBatch(rest) ==
    IF rest # <<>> THEN "write" ELSE IF run.more THEN "query" ELSE "succeeded"
NextOffset(rest) == IF rest = <<>> THEN run.offset + SinkPage ELSE run.offset

\* write_batch, which may fail before or after the destination took the rows.
WriteBatch ==
    /\ run.phase = "write"
    /\ LET batch == SubSeq(run.page, 1, Shorter(BatchSize, Len(run.page)))
           rest == SubSeq(run.page, Len(batch) + 1, Len(run.page))
       IN \/ /\ sink' = Written(batch, Mode(run.first))
             /\ run' = [run EXCEPT !.page = rest, !.first = FALSE,
                           !.phase = AfterBatch(rest), !.offset = NextOffset(rest)]
             /\ UNCHANGED counts
          \/ /\ MayFail /\ Count("faults")
             /\ sink' \in {sink, Written(batch, Mode(run.first))}
             /\ \E again \in BOOLEAN :
                   run' = [run EXCEPT !.phase = "failed", !.retryable = again]
    /\ KeepTables
    /\ UNCHANGED <<pipe, source, watermark, lastRun, alert>>

-----------------------------------------------------------------------------
(* Steps that make a table of what they select: SQL, scripts, SCD2, match. *)

Scripts == {"python", "scala"}
\* A script is given what was selected, truncated or not; other steps refuse.
RefusesTruncated == KindOf(Current) \notin Scripts

Exec ==
    /\ run.phase = "exec"
    /\ \/ /\ run' = IF NoSuchTable THEN [run EXCEPT !.phase = "failed", !.retryable = FALSE]
                    ELSE IF Len(Selected) > MaxRsRows /\ RefusesTruncated
                    THEN [run EXCEPT !.phase = "failed", !.retryable = TRUE]
                    ELSE [run EXCEPT !.phase = "store", !.page = PageOf(Selected, 0, MaxRsRows)]
          /\ UNCHANGED counts
       \/ /\ KindOf(Current) \in Scripts /\ MayFail /\ Count("faults")
          /\ \E again \in BOOLEAN :
                run' = [run EXCEPT !.phase = "failed", !.retryable = again]
    /\ KeepTables
    /\ UNCHANGED <<pipe, source, watermark, sink, lastRun, alert>>

\* write_rs_to_table: the table is recreated, then filled batch by batch.
Store ==
    /\ run.phase = "store"
    /\ Recreate(Out) /\ run' = [run EXCEPT !.phase = "fill"]
    /\ UNCHANGED <<pipe, source, watermark, sink, lastRun, alert, counts>>

Fill ==
    /\ run.phase = "fill"
    /\ LET batch == SubSeq(run.page, 1, Shorter(BatchSize, Len(run.page)))
           rest == SubSeq(run.page, Len(batch) + 1, Len(run.page))
       IN /\ tables' = [tables EXCEPT ![Out] = @ \o batch]
          /\ run' = [run EXCEPT !.page = rest,
                        !.phase = IF rest = <<>> THEN "succeeded" ELSE "fill"]
    /\ UNCHANGED <<pipe, source, watermark, existing, schemaIn, sink, lastRun, alert, counts>>

-----------------------------------------------------------------------------
(* The end of an attempt.                                                  *)

StepSucceeds ==
    /\ run.phase = "succeeded"
    /\ run' = [run EXCEPT !.phase = "dispatch", !.prev = Out, !.at = @ + 1, !.retries = 0,
                          !.done = @ \cup {Current}]
    /\ UNCHANGED <<pipe, source, watermark, tables, existing, schemaIn, sink, lastRun, alert, counts>>

\* Exponential back-off, cut off by what is left of the budget of the run.
Backoff(n) == Step.delay * 2 ^ (n - 1)
Slept == run.slept + Shorter(Backoff(run.retries + 1), DelayCap - run.slept)
RetryNotCounted == run.retries                                      \* mutant
Retry == run.retries + 1
GivesUp == ~run.retryable \/ run.retries >= Step.max_retries \/ run.slept >= DelayCap

StepFails ==
    /\ run.phase = "failed"
    /\ IF GivesUp
       THEN run' = Idle /\ EndOfRun("failed")
       ELSE /\ run' = [run EXCEPT !.phase = "attempt", !.retries = Retry, !.slept = Slept]
            /\ UNCHANGED <<lastRun, alert, schemaIn>>
    /\ UNCHANGED <<pipe, source, watermark, tables, existing, sink, counts>>

-----------------------------------------------------------------------------
(* The rest of the world.                                                  *)

SourceGrows ==
    /\ source < MaxSource /\ source' = source + 1
    /\ UNCHANGED <<pipe, watermark, tables, existing, schemaIn, sink, run, lastRun, alert, counts>>

\* Another session deletes a row of a table, or updates it, which moves it to
\* the end of the log (TableLog).
Edit ==
    /\ counts.edits < MaxEdits /\ Count("edits")
    /\ \E t \in existing : \E k \in DOMAIN tables[t] :
          LET rest == RemoveAt(tables[t], k)
          IN tables' = [tables EXCEPT ![t] = rest] \/ tables' = [tables EXCEPT ![t] = Append(rest, @[k])]
    /\ run' = [run EXCEPT !.touched = run.phase # "idle"]
    /\ UNCHANGED <<pipe, source, watermark, existing, schemaIn, sink, lastRun, alert>>

\* The process dies and starts again: tables are opened from their files, the
\* run is forgotten; a watermark file being rewritten may be left empty.
Crash ==
    /\ run.phase # "idle" /\ MayFail /\ Count("faults")
    /\ run' = Idle /\ lastRun' = "none"
    /\ schemaIn' = [t \in DOMAIN schemaIn |-> "table"]
    /\ watermark' \in IF run.phase = "save" /\ Step.incremental
                      THEN {watermark, [watermark EXCEPT ![Current] = 0]} ELSE {watermark}
    /\ UNCHANGED <<pipe, source, tables, existing, sink, alert>>

-----------------------------------------------------------------------------
Init ==
    /\ pipe \in Pipelines
    /\ source = 0
    /\ watermark = [i \in DOMAIN pipe |-> 0]
    /\ tables = [t \in TableNames |-> <<>>] /\ existing = {}
    /\ schemaIn = [t \in TableNames |-> "table"]
    /\ sink = <<>>
    /\ run = Idle /\ lastRun = "none" /\ alert = "none"
    /\ counts = [runs |-> 0, faults |-> 0, edits |-> 0]

RunStep ==
    \/ Dispatch \/ SucceedRun \/ Attempt
    \/ ReadPage \/ AppendPage \/ SaveCursor
    \/ QueryPage \/ WriteBatch
    \/ Exec \/ Store \/ Fill
    \/ StepSucceeds \/ StepFails

Next == StartRun \/ RunStep \/ SourceGrows \/ Edit \/ Crash

Spec == Init /\ [][Next]_vars

\* A run goes on until it ends; sessions answer or fail.
FairSpec == Spec /\ WF_vars(RunStep)

-----------------------------------------------------------------------------
(* Properties.                                                             *)

Phases == {"idle", "dispatch", "attempt", "read", "append", "save", "query", "write",
           "exec", "store", "fill", "succeeded", "failed"}

\* Types and bounds: what a run sleeps between attempts stays in its budget
\* (api.c:7716-7726), a step is attempted at most max_retries times again.
TypeOK ==
    /\ pipe \in Pipelines /\ source \in 0 .. MaxSource
    /\ watermark \in [DOMAIN pipe -> Nat]
    /\ existing \subseteq TableNames /\ DOMAIN tables = TableNames
    /\ schemaIn \in [TableNames -> {"table", "run", "freed"}]
    /\ run.phase \in Phases /\ run.slept \in 0 .. DelayCap
    /\ run.phase = "idle" <=> run = Idle
    /\ run.at \in DOMAIN run.order => run.retries <= Step.max_retries
    /\ run.done \subseteq Range(run.order)
    /\ lastRun \in {"none", "success", "failed"} /\ alert \in {"none", "success", "failed"}

Succeeds(kind) == run.phase = "succeeded" /\ KindOf(Current) = kind /\ StepSucceeds

\* A connector that pages as it is asked to, and says what its columns are.
PagesAsAsked ==
    Step.described /\ Step.paging = (IF Step.incremental THEN "key" ELSE "offset")

\* When a source step succeeds, its table holds what the source had past the
\* cursor it started from, each row once, whatever its pages were and however
\* many attempts failed midway (api.c:5886-5896).
StageIsWhatWasRead ==
    [][Succeeds("connector") /\ ~run.touched /\ PagesAsAsked
       => tables[Out] =
            (IF Step.incremental
             THEN SubSeq(SourceRows, RowsUpTo(run.from) + 1, RowsUpTo(run.cursor))
             ELSE SubSeq(SourceRows, 1, run.cursor))]_vars

\* When a sink step succeeds, its attempt has put the whole table, or the first
\* LIMIT rows, into the destination once: behind what was there when it
\* appends, instead of it when it overwrites (api.c:6095-6100). With LIMIT 0
\* nothing is written, not even over what was there.
SinkGotTheTable ==
    [][Succeeds("sink") /\ ~run.touched /\ Step.limit # 0
       => sink =
            (IF Step.mode = "overwrite" THEN <<>> ELSE run.base)
            \o (IF Step.limit = -1 THEN Selected ELSE PageOf(Selected, 0, Step.limit))]_vars

\* A source step read by key, then a sink step that appends all it has read.
Feeds ==
    /\ TopoOrder = <<1, 2>> /\ Len(pipe) = 2
    /\ KindOf(1) = "connector" /\ pipe[1].incremental
    /\ pipe[1].described /\ pipe[1].paging = "key"
    /\ KindOf(2) = "sink" /\ pipe[2].reads = "@prev"
    /\ pipe[2].mode # "overwrite" /\ pipe[2].limit = -1 /\ ~pipe[2].sorted

\* From end to end: as long as nothing failed, an incremental source and an
\* appending sink carry each row up to the watermark over once, in order, run
\* after run (api.c:5691-5701).
EachRowOnce ==
    run.phase = "idle" /\ counts.faults = 0 /\ counts.edits = 0 /\ Feeds
    => sink = SubSeq(SourceRows, 1, RowsUpTo(watermark[1]))

\* Every run ends: attempts are bounded, and every step reads finitely many
\* pages (api.c:7528-7530).
EveryRunEnds == run.phase # "idle" ~> run.phase = "idle"

-----------------------------------------------------------------------------
(* What comments promise and the code does not keep.                       *)

\* The schema of a table lives as long as the table (api.c:4843-4846).
SchemasLive == \A t \in existing : schemaIn[t] # "freed"

\* An empty read empties the table of the step (api.c:5819-5823).
EmptyReadEmptiesTheStage ==
    [][Succeeds("connector") /\ run.total = 0 /\ ~run.touched => tables[Out] = <<>>]_vars

\* A query that cannot be paged is read as one portion (mssql_connector.c:852-855).
OnePortion ==
    run.phase \in {"read", "append", "save"} /\ Step.paging = "portion"
    => Len(tables[Out]) + Len(run.page) <= source

\* The cursor is the caller's, so that no row is read twice (mssql_connector.c:815).
NoRowIsReadTwice ==
    [][Succeeds("connector") /\ ~run.touched => IsInjective(tables[Out])]_vars

\* The overwrite mode empties the destination even if no row comes
\* (api.c:6131-6132).
OverwriteEmpties ==
    [][Succeeds("sink") /\ Step.mode = "overwrite" /\ Step.limit = 0 => sink = <<>>]_vars

\* The pages of a sink do not overlap (api.c:5990-5991).
PagesDoNotOverlap ==
    [][run.phase = "succeeded" /\ KindOf(Current) = "sink" /\ StepSucceeds /\ Step.mode = "overwrite"
       => IsInjective(sink)]_vars
=============================================================================
