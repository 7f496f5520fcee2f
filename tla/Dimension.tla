------------------------------ MODULE Dimension -------------------------------
(***************************************************************************)
(* The SCD2 step of a pipeline (run_scd2_step of src/gateway/api.c): the   *)
(* history of a table's rows is rebuilt from the target and a snapshot of  *)
(* the source, and the target is dropped, created and appended again in    *)
(* batches (write_rs_to_table).  The process may crash between any two     *)
(* steps; the tables survive.                                              *)
(*                                                                         *)
(* A row of the source is [key, val, at]: val stands for the compared      *)
(* columns, at for the column that scd2_transaction_time may name; deleted *)
(* is its soft-delete flag.  A row of the target is a version.  m is the   *)
(* mode of the step.                                                       *)
(***************************************************************************)
EXTENDS Integers, Sequences, SequencesExt, FiniteSetsExt

CONSTANTS
    Snapshots,    \* what the source may hold: a set of sequences of rows
    Modes,        \* configurations: [hash, business] of BOOLEAN
    MAX_RS_ROWS,  \* rows of a result
    BATCH_SIZE,   \* rows of one append
    NoKey,        \* a business key that is NULL or empty
    MaxTime, MaxCrashes   \* bounds

(* A time is a number, 0 a NULL one.                                         *)
ASSUME DimensionAssumption ==
    /\ \A s \in Snapshots :
        /\ s \in Seq({s[i] : i \in DOMAIN s})
        /\ \A i \in DOMAIN s : s[i].at \in Nat /\ s[i].deleted \in BOOLEAN
    /\ MAX_RS_ROWS \in Nat /\ BATCH_SIZE \in Nat \ {0} /\ MaxTime \in Nat /\ MaxCrashes \in Nat

VARIABLES
    mode,      \* hash: scd2_hash_col is set; business: scd2_transaction_time names at
    source,    \* the rows of the source
    clock,     \* time(NULL)
    target,    \* the versions of the target table, in its order
    scratch,   \* the table __scd2_src_<pipeline>_<step> exists
    step,      \* [at |-> "idle" | "read" | "write", src, before, out, cut]
    last,      \* history of the run that ended: [said, src, before, cut]
    crashes

dimVars == <<mode, source, clock, target, scratch, step, last, crashes>>

-----------------------------------------------------------------------------
Open == 0         \* a valid_to that is NULL
NoStep == [at |-> "idle", src |-> <<>>, before |-> <<>>, out |-> <<>>, cut |-> FALSE]
NothingSaid == [said |-> "", src |-> <<>>, before |-> <<>>, cut |-> FALSE]

IsOpen(v) == v.to = Open
VersionsOf(k, rows) == {i \in DOMAIN rows : rows[i].key = k}

(* ROW_NUMBER() OVER (PARTITION BY key ORDER BY <transaction time> DESC) = 1: *)
(* the sort is stable, the first of equal times in the table comes first.     *)
Time(m, v) == IF m.business THEN v.at ELSE v.from
Latest(m, k, rows) ==
    CHOOSE i \in VersionsOf(k, rows) : \A j \in VersionsOf(k, rows) :
        Time(m, rows[j]) < Time(m, rows[i]) \/ (Time(m, rows[j]) = Time(m, rows[i]) /\ i <= j)

Known(k, rows) == VersionsOf(k, rows) # {}
(* scd2_compute_hash: the digest stands for what it digests.                 *)
Hash(r) == r.val
Changed(m, r, v) == IF m.hash THEN Hash(r) # v.hash ELSE r.val # v.val

IsNew(m, r, rows) == ~r.deleted /\ (~Known(r.key, rows) \/ Changed(m, r, rows[Latest(m, r.key, rows)]))
Closes(m, r, rows) == Known(r.key, rows) /\ (r.deleted \/ Changed(m, r, rows[Latest(m, r.key, rows)]))
ClosedKeys(m, src, rows) == {src[i].key : i \in {i \in DOMAIN src : Closes(m, src[i], rows)}}

(* 4a: every version stays; those open of a closed key end now.              *)
CarriedLatestOnly(m, src, rows, now) ==
    [i \in DOMAIN rows |->
        IF IsOpen(rows[i]) /\ rows[i].key \in ClosedKeys(m, src, rows) /\ i = Latest(m, rows[i].key, rows)
        THEN [rows[i] EXCEPT !.to = now, !.flag = 0]
        ELSE [rows[i] EXCEPT !.flag = IF IsOpen(rows[i]) THEN 1 ELSE 0]]
Carried(m, src, rows, now) ==
    [i \in DOMAIN rows |->
        IF IsOpen(rows[i]) /\ rows[i].key \in ClosedKeys(m, src, rows)
        THEN [rows[i] EXCEPT !.to = now, !.flag = 0]
        ELSE [rows[i] EXCEPT !.flag = IF IsOpen(rows[i]) THEN 1 ELSE 0]]

(* 4b: one version more for every NEW or CHANGED row.                        *)
Version(m, r, rows, now) ==
    [key |-> r.key, val |-> r.val, at |-> r.at, hash |-> Hash(r), to |-> Open, flag |-> 1,
     from |-> IF m.business /\ r.at # 0 THEN r.at ELSE now,
     ver |-> 1 + Max({0} \union {rows[i].ver : i \in VersionsOf(r.key, rows)})]
ChangedOnly(m, src, rows, now) ==
    LET new[n \in 0..Len(src)] ==
            IF n = 0 THEN <<>>
            ELSE IF IsNew(m, src[n], rows) /\ Known(src[n].key, rows)
                 THEN Append(new[n - 1], Version(m, src[n], rows, now)) ELSE new[n - 1]
    IN new[Len(src)]
Added(m, src, rows, now) ==
    LET new[n \in 0..Len(src)] ==
            IF n = 0 THEN <<>>
            ELSE IF IsNew(m, src[n], rows) THEN Append(new[n - 1], Version(m, src[n], rows, now)) ELSE new[n - 1]
    IN new[Len(src)]

(* rs_add: rows above the ceiling are dropped, out->truncated says so.       *)
History(m, src, rows, now) == Carried(m, src, rows, now) \o Added(m, src, rows, now)
Capped(rows) == IF Len(rows) > MAX_RS_ROWS THEN SubSeq(rows, 1, MAX_RS_ROWS) ELSE rows

Refused(src) ==
    \/ \E i \in DOMAIN src : src[i].key = NoKey
    \/ \E i, j \in DOMAIN src : i # j /\ src[i].key = src[j].key

-----------------------------------------------------------------------------
DimInit ==
    /\ mode \in Modes
    /\ source \in Snapshots
    /\ clock = 1
    /\ target = <<>>
    /\ scratch = FALSE
    /\ step = NoStep
    /\ last = NothingSaid
    /\ crashes = 0

(* The source SQL is executed and its rows written to the scratch table.     *)
ReadSource ==
    /\ step.at = "idle"
    /\ IF Len(source) > MAX_RS_ROWS
       THEN /\ last' = [NothingSaid EXCEPT !.said = "truncated"]
            /\ UNCHANGED <<step, scratch>>
       ELSE /\ step' = [NoStep EXCEPT !.at = "read", !.src = source]
            /\ scratch' = TRUE
            /\ last' = NothingSaid
    /\ UNCHANGED <<mode, source, clock, target, crashes>>

(* The history is read, the rows are classified, the next history is built   *)
(* up to the ceiling, and the target is dropped and created again; that rows *)
(* of it were dropped is not asked.  A refusal leaves the scratch table.     *)
Rebuild ==
    /\ step.at = "read"
    /\ IF Len(target) > MAX_RS_ROWS \/ Refused(step.src)
       THEN /\ step' = NoStep
            /\ last' = [NothingSaid EXCEPT !.said = "refused"]
            /\ UNCHANGED target
       ELSE /\ LET whole == History(mode, step.src, target, clock)
               IN step' = [step EXCEPT !.at = "write", !.before = target,
                               !.out = Capped(whole), !.cut = Len(whole) > MAX_RS_ROWS]
            /\ target' = <<>>
            /\ UNCHANGED last
    /\ UNCHANGED <<mode, source, clock, scratch, crashes>>

AppendBatch ==
    /\ step.at = "write" /\ step.out # <<>>
    /\ \E n \in {IF Len(step.out) < BATCH_SIZE THEN Len(step.out) ELSE BATCH_SIZE} :
        /\ target' = target \o SubSeq(step.out, 1, n)
        /\ step' = [step EXCEPT !.out = SubSeq(step.out, n + 1, Len(step.out))]
    /\ UNCHANGED <<mode, source, clock, scratch, last, crashes>>

Finish ==
    /\ step.at = "write" /\ step.out = <<>>
    /\ last' = [said |-> "ok", src |-> step.src, before |-> step.before, cut |-> step.cut]
    /\ step' = NoStep
    /\ scratch' = FALSE
    /\ UNCHANGED <<mode, source, clock, target, crashes>>

DimCrash ==
    /\ crashes < MaxCrashes /\ step.at # "idle"
    /\ crashes' = crashes + 1
    /\ step' = NoStep
    /\ UNCHANGED <<mode, source, clock, target, scratch, last>>

SourceChanges ==
    /\ step.at = "idle"
    /\ source' \in Snapshots \ {source}
    /\ UNCHANGED <<mode, clock, target, scratch, step, last, crashes>>

ClockTicks ==
    /\ clock < MaxTime
    /\ clock' = clock + 1
    /\ UNCHANGED <<mode, source, target, scratch, step, last, crashes>>

DimNext == ReadSource \/ Rebuild \/ AppendBatch \/ Finish \/ DimCrash \/ SourceChanges \/ ClockTicks

DimSpec == DimInit /\ [][DimNext]_dimVars

-----------------------------------------------------------------------------
Keys(rows) == {rows[i].key : i \in DOMAIN rows}
After(i, rows) == {j \in VersionsOf(rows[i].key, rows) : j > i}

(* Versions are closed and opened by a rebuild of the whole table that may   *)
(* be cut short, from a current version picked by its time: the versions of  *)
(* a key are numbered in order, none but the last of them is open, and the   *)
(* flag says which (run_scd2_step, write_rs_to_table).                       *)
OneCurrentVersion ==
    \A i \in DOMAIN target :
        /\ target[i].ver = Cardinality(VersionsOf(target[i].key, target) \ After(i, target))
        /\ IsOpen(target[i]) => After(i, target) = {}
        /\ target[i].flag = IF IsOpen(target[i]) THEN 1 ELSE 0

CurrentOf(k, rows) == {i \in VersionsOf(k, rows) : IsOpen(rows[i])}
PicksAreOpen == \A k \in Keys(last.before) : IsOpen(last.before[Latest(mode, k, last.before)])
Mirrors(r) ==
    IF r.deleted THEN CurrentOf(r.key, target) = {}
    ELSE \E i \in CurrentOf(r.key, target) : target[i].val = r.val
Untouched(k) ==
    /\ VersionsOf(k, target) = VersionsOf(k, last.before)
    /\ \A i \in VersionsOf(k, target) : target[i] = last.before[i]

(* A row is compared with the version picked by its time, not with the open  *)
(* one.  When these are the same and the next history fits under the         *)
(* ceiling, a run that ended well leaves each key of the source with its     *)
(* values as the current version, none for a deleted key, the other keys as  *)
(* they were, and a version more only where the values differ from those     *)
(* that were current (run_scd2_step).                                        *)
DimensionFollows ==
    (last.said = "ok" /\ step.at = "idle" /\ ~last.cut /\ PicksAreOpen) =>
        /\ \A i \in DOMAIN last.src : Mirrors(last.src[i])
        /\ \A k \in (Keys(target) \union Keys(last.before)) \ Keys(last.src) : Untouched(k)
        /\ \A i \in DOMAIN target :
              i > Len(last.before) =>
                  \A j \in CurrentOf(target[i].key, last.before) : last.before[j].val # target[i].val

-----------------------------------------------------------------------------
(* What the comments and tests of the code say and it does not keep.         *)

(* api.c:6832-6835: a new version for every NEW or CHANGED key: not for one  *)
(* closed before that comes back as it was, nor when two versions bear the   *)
(* same time, though nothing is cut.                                         *)
EveryKeyIsCurrent ==
    (last.said = "ok" /\ step.at = "idle" /\ ~last.cut) => \A i \in DOMAIN last.src : Mirrors(last.src[i])

(* api.c:605-607: who gets a truncated result must refuse it (SCD2, sink,    *)
(* transform): the run writes the history it cut and answers well.           *)
CutIsRefused == last.said = "ok" => ~last.cut

(* api.c:6876-6877: the scratch table is dropped at the end of the run.      *)
ScratchIsDropped == (step.at = "idle" /\ crashes = 0) => ~scratch
=============================================================================
