------------------------------- MODULE TableLog -------------------------------
(***************************************************************************)
(* The log of one table (lib/storage/storage.c) under the statements of    *)
(* src/gateway/api.c: ingestion, DELETE and UPDATE outside a transaction,  *)
(* and the full scan of a query; crashes and restarts of the gateway.      *)
(*                                                                         *)
(* wal_append writes a length and then the record, in two calls and under  *)
(* no lock of its own, so the file is a sequence of such parts; a record's *)
(* offset is the place of its length.  DELETE and UPDATE append tombstones *)
(* that name an offset.  The debug build writes a record for each row, the *)
(* release build one record for a batch.                                   *)
(*                                                                         *)
(* A row is abstracted to an id, which WHERE selects, the statement that   *)
(* gave it its value, and the text its other cells read as.  DELETE and    *)
(* UPDATE print the rows they write again without the quoting of           *)
(* table_append, so a text may read as another one afterwards (Reread).  A *)
(* batch is told by the length of its record: "batch" if it fits the       *)
(* buffers of every reader, "wide" if only load_tbl's rows fit, "huge" if  *)
(* none.  Where lengths and records no longer alternate a reader takes     *)
(* data for a length and finds nothing more.                               *)
(***************************************************************************)
EXTENDS Integers, Sequences, FiniteSets

CONSTANTS
    Threads,      \* connection threads and workers
    NoThread,
    Texts,        \* what the cells of a row may read as
    Reread,       \* what a text reads as once it was printed without quoting
    Mistaken,     \* texts so printed that their record is taken for a batch
    TextOf,       \* the texts of the rows that are ingested
    MaxRows,      \* bound: rows ever ingested
    MaxPerIngest, \* bound: rows of one ingestion
    MaxStatements,\* bound: statements in one behaviour
    MaxCrashes    \* bound: crashes in one behaviour

ASSUME TableLogAssumption ==
    /\ NoThread \notin Threads
    /\ MaxRows \in Nat /\ MaxPerIngest \in Nat \ {0}
    /\ MaxStatements \in Nat /\ MaxCrashes \in Nat
    /\ Reread \in [Texts -> Texts] /\ Mistaken \subseteq Texts
    /\ TextOf \in [1..MaxRows -> Texts]

VARIABLES
    build,       \* "debug" or "release": ENABLE_COMPRESSION
    file,        \* wal.bin
    synced,      \* how much of it fdatasync has made durable
    tables_mu,   \* who holds g_app.tables_mu across its writes
    threads,     \* the local state of each statement
    nrows,       \* bound: ids are 1..nrows
    statements,  \* bound
    crashes,     \* bound
    acked,       \* history: rows whose ingestion was answered, in a sound log
    gone,        \* history: rows a DELETE counted
    answers,     \* history: what each row should be once all is answered
    raced        \* history: two DMLs with a row or a batch in common overlapped

control == <<build, nrows, statements, crashes>>
history == <<acked, gone, answers, raced>>
vars == <<build, file, synced, tables_mu, threads, nrows, statements, crashes,
          acked, gone, answers, raced>>

Ids == 1..MaxRows
Absent == -1
Values == {Absent} \union 0..MaxStatements
Row == [id : Ids, v : Values, text : Texts]

Tombstones == {"delete", "update"}
Batches == {"batch", "wide", "huge"}
RowRec(r) == [op |-> "row", ref |-> 0, rows |-> <<r>>]
BatchRec(op, rs) == [op |-> op, ref |-> 0, rows |-> rs]
DeleteRec(i) == [op |-> "delete", ref |-> i, rows |-> <<>>]
UpdateRec(i, r) == [op |-> "update", ref |-> i, rows |-> <<r>>]

Length == [part |-> "length"]
Data(rec) == [part |-> "data", rec |-> rec]

NoHits == [id \in Ids |-> 0]
Idle == [op |-> "none", n |-> 0, want |-> {}, pos |-> 1, end |-> 0, dead |-> {},
         todo |-> <<>>, half |-> FALSE, pending |-> <<>>, hits |-> NoHits]

Init ==
    /\ build \in {"debug", "release"}
    /\ file = <<>>
    /\ synced = 0
    /\ tables_mu = NoThread
    /\ threads = [t \in Threads |-> Idle]
    /\ nrows = 0
    /\ statements = 0
    /\ crashes = 0
    /\ acked = {}
    /\ gone = {}
    /\ answers = [id \in Ids |-> Absent]
    /\ raced = FALSE

-----------------------------------------------------------------------------
(* Reading a file f *)

PartAt(j) == IF j % 2 = 1 THEN "length" ELSE "data"
Sound(f) == \A j \in 1..Len(f) : f[j].part = PartAt(j)

(* The offsets of the records a reader finds before its first misreading.    *)
Records(f) == {i \in 1..Len(f) : i % 2 = 1 /\ i < Len(f) /\
                                 \A j \in 1..(i + 1) : f[j].part = PartAt(j)}
Rec(f, i) == f[i + 1].rec
TombsIn(f) == {i \in Records(f) : Rec(f, i).op \in Tombstones}
RowsIn(f) == Records(f) \ TombsIn(f)

(* The tombstones of D that name record i, and the one load_tbl obeys: it    *)
(* stops at the first.                                                       *)
OfRecord(f, D, i) == {d \in D : Rec(f, d).ref = i}
Obeyed(f, D, i) == {d \in OfRecord(f, D, i) : \A e \in OfRecord(f, D, i) : d <= e}

(* A row record that begins like a batch, as a NULL in its first cell is     *)
(* printed, is understood by nobody; a record over 16 MiB is not read, and   *)
(* one over 262143 bytes by load_tbl alone.                                  *)
Garbled(rec) == rec.op = "row" /\ rec.rows[1].text \in Mistaken
Loaded(rec) == rec.op # "huge" /\ ~Garbled(rec)
Walked(rec) == rec.op \notin {"wide", "huge"} /\ ~Garbled(rec)

(* What a scan of f that knows the tombstones D yields: each row with its    *)
(* record and its place in it.                                               *)
At(i, k, r) == [rec |-> i, k |-> k, row |-> r]
YieldBatches(f, D, i) ==
    {At(i, k, Rec(f, i).rows[k]) : k \in
        IF OfRecord(f, D, i) = {} THEN DOMAIN Rec(f, i).rows ELSE {}}
YieldRows(f, D, i) ==
    IF OfRecord(f, D, i) = {} THEN {At(i, 1, Rec(f, i).rows[1])}
    ELSE {At(i, 1, Rec(f, d).rows[1]) :
            d \in {e \in Obeyed(f, D, i) : Rec(f, e).op = "update"}}
YieldOf(f, D, i) ==
    IF Rec(f, i).op = "row" THEN YieldRows(f, D, i) ELSE YieldBatches(f, D, i)
Yield(f, D) == UNION {YieldOf(f, D, i) : i \in {j \in RowsIn(f) : Loaded(Rec(f, j))}}
Contents(f) == Yield(f, TombsIn(f))

Times(Y, id) == Cardinality({y \in Y : y.row.id = id})
IdsOf(rows) == {rows[k].id : k \in DOMAIN rows}

(* table_compact, which nothing calls yet: the log without its tombstones    *)
(* and the records its buffer does not hold, a row rewritten as the last     *)
(* UPDATE of it says.                                                        *)
Kept(f, i) ==
    LET D == OfRecord(f, TombsIn(f), i)
        U == {d \in D : Rec(f, d).op = "update" /\
                        \A e \in D : e > d => Rec(f, e).op # "update"} IN
    IF Rec(f, i).op \in {"wide", "huge"} THEN <<>>
    ELSE IF D = {} THEN <<Length, f[i + 1]>>
    ELSE IF U = {} THEN <<>>
    ELSE <<Length, Data(RowRec(Rec(f, CHOOSE d \in U : TRUE).rows[1]))>>

Compacted(f) ==
    LET g[j \in 0..Len(f)] ==
            IF j = 0 THEN <<>> ELSE g[j - 1] \o (IF j \in RowsIn(f) THEN Kept(f, j) ELSE <<>>)
    IN g[Len(f)]

-----------------------------------------------------------------------------
(* wal_append, one call of write(2) at a time, by a thread with records to   *)
(* append; the last write under tables_mu releases it.                       *)

WriteLength(t) ==
    LET c == threads[t] IN
    /\ c.todo # <<>> /\ ~c.half
    /\ file' = Append(file, Length)
    /\ threads' = [threads EXCEPT ![t].half = TRUE]
    /\ UNCHANGED <<control, synced, tables_mu, history>>

MuAfterWrite(t) ==
    IF tables_mu = t /\ Len(threads[t].todo) = 1 THEN NoThread ELSE tables_mu

WriteData(t) ==
    LET c == threads[t] IN
    /\ c.half
    /\ file' = Append(file, Data(Head(c.todo)))
    /\ threads' = [threads EXCEPT ![t] = [c EXCEPT !.half = FALSE, !.todo = Tail(@)]]
    /\ tables_mu' = MuAfterWrite(t)
    /\ UNCHANGED <<control, synced, history>>

-----------------------------------------------------------------------------
(* Statements *)

Starts(t) ==
    /\ threads[t] = Idle
    /\ statements < MaxStatements
    /\ statements' = statements + 1

(* POST /api/ingest/csv: table_append for the parsed rows, which quotes what *)
(* would read otherwise.  How long a batch gets depends on its cells.        *)
Ingest(t, n) ==
    LET rows == [k \in 1..n |-> [id |-> nrows + k, v |-> 0, text |-> TextOf[nrows + k]]] IN
    /\ Starts(t)
    /\ nrows + n <= MaxRows
    /\ nrows' = nrows + n
    /\ \E op \in Batches : threads' = [threads EXCEPT ![t] = [Idle EXCEPT !.op = "ingest",
            !.want = IdsOf(rows),
            !.todo = IF build = "release" THEN <<BatchRec(op, rows)>>
                     ELSE [k \in 1..n |-> RowRec(rows[k])]]]
    /\ answers' = [id \in Ids |-> IF id \in IdsOf(rows) THEN 0 ELSE answers[id]]
    /\ UNCHANGED <<build, crashes, file, synced, tables_mu, acked, gone, raced>>

(* The end of table_append: wal_sync, and the answer.                        *)
NotSynced == UNCHANGED synced                                     \* mutant
WalSync == synced' = Len(file)

IngestDone(t) ==
    LET c == threads[t] IN
    /\ c.op = "ingest" /\ c.todo = <<>>
    /\ WalSync
    /\ acked' = IF Sound(file) THEN acked \union c.want ELSE acked
    /\ threads' = [threads EXCEPT ![t] = Idle]
    /\ UNCHANGED <<control, file, tables_mu, gone, answers, raced>>

(* DELETE / UPDATE: the size of the log is taken, and a first pass collects  *)
(* the offsets that a tombstone names.  A statement on an empty log does     *)
(* nothing and is left out.                                                  *)
Dmls == {"delete", "update"}
Overlaps(t, want) ==
    \E u \in Threads \ {t} : /\ threads[u].op \in Dmls
                             /\ build = "release" \/ threads[u].want \intersect want # {}

DmlOpen(t, op, want) ==
    /\ Starts(t)
    /\ file # <<>>
    /\ threads' = [threads EXCEPT ![t] = [Idle EXCEPT !.op = op, !.n = statements',
            !.want = want, !.end = Len(file),
            !.dead = {Rec(file, d).ref : d \in TombsIn(file)}]]
    /\ raced' = (raced \/ Overlaps(t, want))
    /\ UNCHANGED <<build, nrows, crashes, file, synced, tables_mu, acked, gone, answers>>

(* The records the scan still has to act on.                                 *)
Selected(c, rec) == Walked(rec) /\ IdsOf(rec.rows) \intersect c.want # {}
MatchesToEof(c) ==                                                \* mutant
    {i \in RowsIn(file) : i >= c.pos /\ i \notin c.dead /\ Selected(c, Rec(file, i))}
MatchesDeadToo(c) ==                                              \* mutant
    {i \in RowsIn(file) : i >= c.pos /\ i <= c.end /\ Selected(c, Rec(file, i))}
Matches(c) ==
    {i \in RowsIn(file) : /\ i >= c.pos /\ i <= c.end /\ i \notin c.dead
                          /\ Selected(c, Rec(file, i))}

(* What the statement makes of a row: <<>> if it deletes it.  What it writes *)
(* again, an untouched row of a batch as well, is printed without quoting.   *)
Printed(r) == [r EXCEPT !.text = Reread[@]]
Remade(c, r) ==
    IF r.id \notin c.want THEN <<Printed(r)>>
    ELSE IF c.op = "delete" THEN <<>> ELSE <<[Printed(r) EXCEPT !.v = c.n]>>

Hit(c, ids) == [id \in Ids |-> c.hits[id] + IF id \in ids \intersect c.want THEN 1 ELSE 0]
Goes(c, ids) == gone' = IF c.op = "delete" THEN gone \union (ids \intersect c.want) ELSE gone

Scanning(t) == threads[t].op \in Dmls /\ threads[t].todo = <<>>
FirstMatch(c) == {i \in Matches(c) : \A j \in Matches(c) : i <= j}

(* A matching row record: its tombstone is written at once, under tables_mu. *)
DmlRow(t) ==
    LET c == threads[t] IN
    \E i \in FirstMatch(c) :
        LET r == Rec(file, i).rows[1] IN
        /\ Scanning(t)
        /\ Rec(file, i).op = "row"
        /\ tables_mu = NoThread
        /\ tables_mu' = t
        /\ threads' = [threads EXCEPT ![t] = [c EXCEPT !.pos = i + 2,
                !.hits = Hit(c, {r.id}),
                !.todo = IF c.op = "delete" THEN <<DeleteRec(i)>>
                         ELSE <<UpdateRec(i, Remade(c, r)[1])>>]]
        /\ Goes(c, {r.id})
        /\ UNCHANGED <<control, file, synced, acked, answers, raced>>

(* A batch with a matching row: the tombstone of the whole batch and its     *)
(* rows as they are now are queued until the scan is over.                   *)
Remake(c, rows) ==
    LET f[k \in 0..Len(rows)] ==
            IF k = 0 THEN <<>>
            ELSE f[k - 1] \o [j \in DOMAIN Remade(c, rows[k]) |-> RowRec(Remade(c, rows[k])[j])]
    IN f[Len(rows)]

DmlBatch(t) ==
    LET c == threads[t] IN
    \E i \in FirstMatch(c) :
        LET rows == Rec(file, i).rows IN
        /\ Scanning(t)
        /\ Rec(file, i).op = "batch"
        /\ threads' = [threads EXCEPT ![t] = [c EXCEPT !.pos = i + 2,
                !.hits = Hit(c, IdsOf(rows)),
                !.pending = @ \o <<DeleteRec(i)>> \o Remake(c, rows)]]
        /\ Goes(c, IdsOf(rows))
        /\ UNCHANGED <<control, file, synced, tables_mu, acked, answers, raced>>

(* The flush of the queue, in one critical section.                          *)
DmlFlush(t) ==
    LET c == threads[t] IN
    /\ Scanning(t)
    /\ Matches(c) = {}
    /\ c.pending # <<>>
    /\ tables_mu = NoThread
    /\ tables_mu' = t
    /\ threads' = [threads EXCEPT ![t] = [c EXCEPT !.pos = c.end + 1, !.todo = c.pending,
                                                  !.pending = <<>>]]
    /\ UNCHANGED <<control, file, synced, history>>

DmlDone(t) ==
    LET c == threads[t] IN
    /\ Scanning(t)
    /\ Matches(c) = {} /\ c.pending = <<>>
    /\ answers' = [id \in Ids |-> IF c.hits[id] = 0 THEN answers[id]
                                  ELSE IF c.op = "delete" THEN Absent ELSE c.n]
    /\ threads' = [threads EXCEPT ![t] = Idle]
    /\ UNCHANGED <<control, file, synced, tables_mu, acked, gone, raced>>

(* load_tbl: one pass for the tombstones, one for the rows.                  *)
ReadTombstones(t) ==
    /\ Starts(t)
    /\ file # <<>>
    /\ threads' = [threads EXCEPT ![t] = [Idle EXCEPT !.op = "read", !.dead = TombsIn(file)]]
    /\ UNCHANGED <<build, nrows, crashes, file, synced, tables_mu, history>>

ReadRows(t) ==
    LET Y == Yield(file, threads[t].dead) IN
    /\ threads[t].op = "read"
    /\ threads' = [threads EXCEPT ![t] = [Idle EXCEPT !.op = "result",
            !.hits = [id \in Ids |-> Times(Y, id)]]]
    /\ UNCHANGED <<control, file, synced, tables_mu, history>>

ReadDone(t) ==
    /\ threads[t].op = "result"
    /\ threads' = [threads EXCEPT ![t] = Idle]
    /\ UNCHANGED <<control, file, synced, tables_mu, history>>

(* The process or the machine stops; wal_open appends to what is left.       *)
Crash(n) ==
    /\ crashes < MaxCrashes
    /\ crashes' = crashes + 1
    /\ file' = SubSeq(file, 1, n)
    /\ synced' = n
    /\ tables_mu' = NoThread
    /\ threads' = [t \in Threads |-> Idle]
    /\ UNCHANGED <<build, nrows, statements, history>>

-----------------------------------------------------------------------------
Step(t) ==
    \/ \E n \in 1..MaxPerIngest : Ingest(t, n)
    \/ \E op \in Dmls, want \in SUBSET (1..nrows) \ {{}} : DmlOpen(t, op, want)
    \/ WriteLength(t) \/ WriteData(t) \/ IngestDone(t)
    \/ DmlRow(t) \/ DmlBatch(t) \/ DmlFlush(t) \/ DmlDone(t)
    \/ ReadTombstones(t) \/ ReadRows(t) \/ ReadDone(t)

Next ==
    \/ \E t \in Threads : Step(t)
    \/ \E n \in synced..Len(file) : Crash(n)

Spec == Init /\ [][Next]_vars

-----------------------------------------------------------------------------
(* Properties *)

LogRecord == [op : {"row"} \union Batches \union Tombstones, ref : Nat, rows : Seq(Row)]
Statement == [op : {"none", "ingest", "read", "result"} \union Dmls, n : 0..MaxStatements,
              want : SUBSET Ids, pos : Nat, end : Nat, dead : SUBSET Nat,
              todo : Seq(LogRecord), half : BOOLEAN, pending : Seq(LogRecord),
              hits : [Ids -> Nat]]

(* Types of the state; tables_mu is held by a statement that is writing.     *)
TypeOK ==
    /\ build \in {"debug", "release"}
    /\ file \in Seq({Length} \union [part : {"data"}, rec : LogRecord])
    /\ synced \in 0..Len(file)
    /\ threads \in [Threads -> Statement]
    /\ tables_mu \in Threads \union {NoThread}
    /\ tables_mu # NoThread =>
        threads[tables_mu].op \in Dmls /\ threads[tables_mu].todo # <<>>
    /\ nrows \in 0..MaxRows
    /\ statements \in 0..MaxStatements
    /\ crashes \in 0..MaxCrashes
    /\ acked \subseteq Ids /\ gone \subseteq Ids
    /\ answers \in [Ids -> Values]
    /\ raced \in BOOLEAN

Quiet == \A t \in Threads : threads[t] = Idle
RowsOf(Y) == {y.row : y \in Y}
IdsIn(Y) == {y.row.id : y \in Y}

(* No statement counts or rewrites a row twice, though it appends to the log *)
(* it is scanning ("double-counting and ghost rows", api.c:3203-3209), and   *)
(* no query of the debug build returns a row twice, whatever is appended     *)
(* between its two passes (api.c:1594-1730).                                 *)
OncePerStatement ==
    \A t \in Threads :
        build = "debug" \/ (threads[t].op \in Dmls /\ ~raced) =>
            \A id \in Ids : threads[t].hits[id] <= 1

(* Compaction changes nothing a query can see (storage.c:399-504), but for   *)
(* the records its buffer does not hold and updated rows that no reader      *)
(* understands as a record of their own, unless two DMLs marked one row.     *)
Compactable(y) ==
    LET op == Rec(file, y.rec).op IN
    op = "batch" \/ (op = "row" /\ y.row.text \notin Mistaken)
CompactionKeepsRows ==
    ~raced => RowsOf(Contents(Compacted(file))) = RowsOf({y \in Contents(file) : Compactable(y)})

(* What load_tbl would yield if it read every record.                        *)
Stored(f) == UNION {YieldOf(f, TombsIn(f), i) : i \in RowsIn(f)}

(* What a text may read as after its row was printed any number of times.    *)
Rewritings(x) ==
    {y \in Texts : \A S \in SUBSET Texts : x \in S /\ (\A z \in S : Reread[z] \in S) => y \in S}
WrittenAgain(y) ==
    \/ OfRecord(file, TombsIn(file), y.rec) # {}
    \/ build = "release" /\ Rec(file, y.rec).op = "row"
TextsAsFarAsPrinted ==
    \A y \in Contents(file) :
        y.row.text \in IF WrittenAgain(y) THEN Rewritings(TextOf[y.row.id])
                       ELSE {TextOf[y.row.id]}

(* The log as a table: when no statement is under way each row that was not  *)
(* deleted stands in it once, with the value of the last statement that was  *)
(* answered for it; a query returns it, unless its record is one that        *)
(* load_tbl does not read (Loaded); it reads as it was ingested, unless a    *)
(* DML wrote it again, and then as its unquoted cells do; and of the         *)
(* compacted log a query would return what it returns of this one, but for   *)
(* the records compaction cannot hold.  Excepted are crashes, appends that   *)
(* tore each other, and overlapping DMLs on one row or batch                 *)
(* (api.c:3184-3487, 1594-1730).                                             *)
RowsAnswered == {<<id, answers[id]>> : id \in {i \in Ids : answers[i] # Absent}}
TableIsWhatWasAnswered ==
    /\ (Quiet /\ crashes = 0 /\ Sound(file) /\ ~raced) =>
        /\ {<<y.row.id, y.row.v>> : y \in Stored(file)} = RowsAnswered
        /\ \A id \in Ids : Times(Stored(file), id) <= 1
        /\ TextsAsFarAsPrinted
    /\ CompactionKeepsRows

(* With the debug build, a row whose ingestion was answered is read until a  *)
(* DELETE counts it, across crashes and whatever was torn behind it: the     *)
(* answer comes after fdatasync (storage.c:376).  A row whose own text looks *)
(* like a batch is never read.                                               *)
SyncedRowsSurvive ==
    build = "debug" =>
        acked \ gone \subseteq IdsIn(Contents(file)) \union {id \in Ids : TextOf[id] \in Mistaken}

-----------------------------------------------------------------------------
(* What a comment promises and the code does not keep.                       *)

(* "The DML walker emits replacement uncompressed CSV records for survivors, *)
(* so all rows are still represented elsewhere" (api.c:1640-1642): a row     *)
(* that was ingested and not deleted is read.  One with a NULL in its first  *)
(* cell is not, as its replacement begins like a batch, nor one of a record  *)
(* over 16 MiB.                                                              *)
SurvivorsAreRepresented ==
    (Quiet /\ build = "release" /\ Sound(file)) => acked \ gone \subseteq IdsIn(Contents(file))

(* Fields are quoted in the log because "plain splitting lost such values"   *)
(* (api.c:261-264): yet DELETE and UPDATE print what they write again        *)
(* without quotes, and a text with a comma is cut (api.c:3380-3389,          *)
(* 3454-3462).                                                               *)
TextsAreKept == \A y \in Contents(file) : y.row.text = TextOf[y.row.id]

(* "UPDATE-tombstones are also DELETE in intent -- the row is masked"        *)
(* (api.c:3235-3236): yet load_tbl yields the row the tombstone carries, and *)
(* the next DML passes over both, so a row a query returns may be one that   *)
(* no statement can delete or update; so are those of a record over 262143   *)
(* bytes, which load_tbl reads and a DML does not (api.c:1631, 3273).        *)
Changeable(f) == UNION {IdsOf(Rec(f, i).rows) :
        i \in {j \in RowsIn(f) : OfRecord(f, TombsIn(f), j) = {} /\ Walked(Rec(f, j))}}
RowsReadCanBeChanged == Quiet => IdsIn(Contents(file)) \subseteq Changeable(file)

(* Compaction rewrites "the live INSERTs" (storage.c:399-402): those its     *)
(* buffer does not hold are lost.                                            *)
CompactionKeepsAllRows == RowsOf(Contents(Compacted(file))) = RowsOf(Contents(file))

=============================================================================
