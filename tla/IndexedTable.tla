----------------------------- MODULE IndexedTable -----------------------------
(***************************************************************************)
(* The index of a column: the page file of lib/index/btree.c, its upkeep   *)
(* by table_append and table_create_index (lib/storage/storage.c), and the *)
(* index path of load_tbl (src/gateway/api.c) beside the full scan.        *)
(*                                                                         *)
(* A row is abstracted to its value in the indexed column; its offset is   *)
(* the place of its record in the log.  The file of the tree is a sequence *)
(* of page writes: an insertion is computed as the writes it makes, in the *)
(* order of the code, and a process that dies leaves a prefix of them.     *)
(***************************************************************************)
EXTENDS Integers, Sequences, FiniteSets, SequencesExt

CONSTANTS
    LeafMax,     \* LEAF_MAX: entries of a leaf
    IntMax,      \* INT_MAX: separators of an inner page
    Keys,        \* the values of the column
    Unique,      \* no two rows have the same value
    Builds,      \* which of "debug" and "release" (ENABLE_COMPRESSION) are considered
    MaxRecords,  \* bound: records of the log
    MaxMishaps   \* bound: tombstones and crashes in one behaviour

ASSUME IndexAssumption ==
    /\ LeafMax \in Nat \ {0} /\ IntMax \in Nat \ {0}
    /\ Keys \subseteq Nat \ {0}
    /\ Unique \in BOOLEAN /\ Builds \subseteq {"debug", "release"}
    /\ {MaxRecords, MaxMishaps} \subseteq Nat

VARIABLES
    build,    \* the build that runs
    log,      \* wal.bin: records
    pages,    \* the index file from page 1 on
    header,   \* page 0: root, npages, nkeys
    bt,       \* the open BTree: the same fields, in memory
    indexed,  \* the table has the index
    crashes,  \* bound
    skipped,  \* history: offsets whose insertion was cut off before the leaf was written
    torn      \* history: a split was cut off; nothing is said of what the file does then

vars == <<build, log, pages, header, bt, indexed, crashes, skipped, torn>>

NoPage == -1
Null == 0                    \* SQL NULL in the indexed column: never indexed

-----------------------------------------------------------------------------
(* The B+-tree.  An insertion carries f, the pages as they come to be, the   *)
(* number of pages, and the writes made so far.                              *)

Leaf(es, nx) == [type |-> "leaf", ents |-> es, ch |-> <<>>, next |-> nx]
Inner(ks, ch) == [type |-> "int", ents |-> ks, ch |-> ch, next |-> NoPage]
Blank == [type |-> "blank", ents |-> <<>>, ch |-> <<>>, next |-> 0]

Wr(f, no, p) ==
    [f EXCEPT !.pages = IF no <= Len(@) THEN [@ EXCEPT ![no] = p] ELSE Append(@, p),
              !.writes = Append(@, <<no, p>>)]
AllocPg(f) == [Wr(f, f.npages, Blank) EXCEPT !.npages = @ + 1]

(* "while (pos < n && ... <= key)": how many entries come before a new one.  *)
PosOf(es, key) ==
    LET later == {i \in DOMAIN es : es[i].key > key} IN
    IF later = {} THEN Len(es) ELSE (CHOOSE i \in later : \A j \in later : i <= j) - 1
Before(es, key) == PosOf(es, key) + 1

NoSplit(f) == [f |-> f, split |-> FALSE, mk |-> 0, new |-> NoPage]

Mid == (LeafMax + 1) \div 2
NextKept(old, new) == old                                         \* mutant
NextOfLeft(old, new) == new
LeafSplit(f, no, es, next) ==
    [f |-> Wr(Wr(AllocPg(f), no, Leaf(SubSeq(es, 1, Mid), NextOfLeft(next, f.npages))), f.npages,
              Leaf(SubSeq(es, Mid + 1, Len(es)), next)),
     split |-> TRUE, mk |-> es[Mid + 1].key, new |-> f.npages]
LeafPut(f, no, es, next) ==
    IF Len(es) <= LeafMax THEN NoSplit(Wr(f, no, Leaf(es, next))) ELSE LeafSplit(f, no, es, next)
LeafIns(f, no, p, e) == LeafPut(f, no, InsertAt(p.ents, Before(p.ents, e.key), e), p.next)

(* The separator of a split child goes after all that are not greater, its   *)
(* page right of it; the middle separator of a full page moves up.           *)
HasPlace(p) == Len(p.ents) < IntMax
IntSplit(f, no, ks, ch, mid) ==
    [f |-> Wr(AllocPg(Wr(f, no, Inner(SubSeq(ks, 1, mid), SubSeq(ch, 1, mid + 1)))), f.npages,
              Inner(SubSeq(ks, mid + 2, Len(ks)), SubSeq(ch, mid + 2, Len(ch)))),
     split |-> TRUE, mk |-> ks[mid + 1].key, new |-> f.npages]
IntPut(f, no, p, ks, ch) ==
    IF HasPlace(p) THEN NoSplit(Wr(f, no, Inner(ks, ch))) ELSE IntSplit(f, no, ks, ch, (Len(p.ents) + 1) \div 2)
IntIns(f, no, p, at, mk, new) ==
    IntPut(f, no, p, InsertAt(p.ents, at + 1, [key |-> mk]), InsertAt(p.ch, at + 2, new))

(* A child that split hands its separator up.                                *)
HandedUp(no, r) ==
    IF r.split THEN IntIns(r.f, no, r.f.pages[no], PosOf(r.f.pages[no].ents, r.mk), r.mk, r.new) ELSE r

RECURSIVE DoInsert(_, _, _, _)
DoInsert(f, no, p, e) ==
    IF p.type = "leaf" THEN LeafIns(f, no, p, e)
    ELSE HandedUp(no, LET ch == p.ch[Before(p.ents, e.key)] IN DoInsert(f, ch, f.pages[ch], e))

(* btree_insert: a split root gets a new root above it; the header is last.  *)
NewRoot(t, r) ==
    IF r.split THEN [f |-> Wr(AllocPg(r.f), r.f.npages, Inner(<<[key |-> r.mk]>>, <<t.root, r.new>>)),
                     root |-> r.f.npages]
    ELSE [f |-> r.f, root |-> t.root]
Inserted(t, r) ==
    [writes |-> r.f.writes, pages |-> r.f.pages, split |-> r.f.npages > t.npages,
     bt |-> [root |-> r.root, npages |-> r.f.npages, nkeys |-> t.nkeys + 1]]
BtreeInsert(t, ps, key, off) ==
    Inserted(t, NewRoot(t, DoInsert([pages |-> ps, npages |-> t.npages, writes |-> <<>>], t.root, ps[t.root],
                                    [key |-> key, off |-> off])))

Created == [root |-> 1, npages |-> 2, nkeys |-> 0]      \* btree_create
EmptyRoot == <<Leaf(<<>>, NoPage)>>

FindChild(p, lo) ==
    LET later == {i \in DOMAIN p.ents : p.ents[i].key >= lo} IN
    IF later = {} THEN Len(p.ch) ELSE CHOOSE i \in later : \A j \in later : i <= j

RECURSIVE FindLeafGe(_, _, _)
FindLeafGe(ps, no, lo) ==
    IF ps[no].type = "leaf" THEN no ELSE FindLeafGe(ps, ps[no].ch[FindChild(ps[no], lo)], lo)

(* The walk along the leaves ends at the first key above hi.                 *)
UpToStrict(es, hi) == PosOf(es, hi - 1)                          \* mutant
UpTo(es, hi) == PosOf(es, hi)
RECURSIVE Walk(_, _, _, _, _)
Walk(t, ps, no, lo, hi) ==
    IF no < 0 \/ no >= t.npages THEN <<>>
    ELSE LET es == ps[no].ents
             n == UpTo(es, hi)
             found == SelectSeq(SubSeq(es, 1, n), LAMBDA e : e.key >= lo)
         IN found \o (IF n < Len(es) THEN <<>> ELSE Walk(t, ps, ps[no].next, lo, hi))

BtreeRange(t, ps, lo, hi) ==
    IF t.nkeys = 0 THEN <<>> ELSE Walk(t, ps, FindLeafGe(ps, t.root, lo), lo, hi)

-----------------------------------------------------------------------------
(* The log and the two ways to read it.  A record holds a row, a batch of    *)
(* rows (release build) or a tombstone.                                      *)

RowRec(k) == [op |-> "row", keys |-> <<k>>, ref |-> 0]
BatchRec(ks) == [op |-> "batch", keys |-> ks, ref |-> 0]
DeleteRec(i) == [op |-> "delete", keys |-> <<>>, ref |-> i]
UpdateRec(i, k) == [op |-> "update", keys |-> <<k>>, ref |-> i]

Tombs(i) == {j \in DOMAIN log : log[j].op \in {"delete", "update"} /\ log[j].ref = i}
FirstTomb(i) == CHOOSE j \in Tombs(i) : \A h \in Tombs(i) : j <= h

(* load_tbl's full scan: the first tombstone of a row decides; a batch is    *)
(* dropped whole by a DELETE.                                                *)
RowsAt(i) ==
    CASE log[i].op \in {"delete", "update"} -> <<>>
      [] Tombs(i) = {} -> log[i].keys
      [] log[i].op = "batch" ->
            IF \E j \in Tombs(i) : log[j].op = "delete" THEN <<>> ELSE log[i].keys
      [] OTHER -> log[FirstTomb(i)].keys
FullScan == FlattenSeq([i \in DOMAIN log |-> RowsAt(i)])

(* The index path: the record at each offset of the range is read as a row   *)
(* of text, whatever it is; WHERE then looks at the row again, which only a  *)
(* row record can pass.                                                      *)
ParseWalRow(i, lo, hi) ==
    IF log[i].op = "row" /\ log[i].keys[1] \in lo..hi THEN log[i].keys ELSE <<>>
IndexScan(lo, hi) ==
    LET es == BtreeRange(bt, pages, lo, hi) IN
    FlattenSeq([n \in DOMAIN es |-> ParseWalRow(es[n].off, lo, hi)])
ScanWhere(lo, hi) == SelectSeq(FullScan, LAMBDA k : k \in lo..hi)

-----------------------------------------------------------------------------
Init ==
    /\ build \in Builds
    /\ log = <<>> /\ pages = <<>> /\ header = Created /\ bt = Created
    /\ indexed = FALSE /\ crashes = 0 /\ skipped = {} /\ torn = FALSE

Used == UNION {Range(log[i].keys) : i \in DOMAIN log}
Fresh(k) == k = Null \/ ~Unique \/ k \notin Used
Room == Len(log) < MaxRecords /\ ~torn
Mishap ==
    Cardinality({i \in DOMAIN log : log[i].op \in {"delete", "update"}}) + crashes < MaxMishaps

Insert(k, off) == BtreeInsert(bt, pages, k, off)
Second(r, l, off) == BtreeInsert(r.bt, r.pages, l, off)
Indexes(r) == pages' = r.pages /\ bt' = r.bt /\ header' = r.bt

(* table_append in the debug build: the record of the row, then its entry.   *)
(* A row with NULL in the column has none.                                   *)
TableAppend(k) ==
    /\ build = "debug" /\ Room /\ Fresh(k)
    /\ log' = Append(log, RowRec(k))
    /\ IF indexed /\ k # Null
       THEN Indexes(Insert(k, Len(log) + 1))
       ELSE UNCHANGED <<pages, bt, header>>
    /\ UNCHANGED <<build, indexed, crashes, skipped, torn>>

(* The same in the release build, with two rows: one record, two entries.    *)
AppendBatch(k, l) ==
    /\ build = "release" /\ Room /\ Fresh(k) /\ Fresh(l) /\ (Unique => k # l)
    /\ log' = Append(log, BatchRec(<<k, l>>))
    /\ IF indexed
       THEN Indexes(Second(Insert(k, Len(log) + 1), l, Len(log) + 1))
       ELSE UNCHANGED <<pages, bt, header>>
    /\ UNCHANGED <<build, indexed, crashes, skipped, torn>>

(* DELETE and UPDATE append tombstones and leave the index alone.            *)
TableDelete(i) ==
    /\ Room /\ Mishap /\ log[i].op = "row" /\ Tombs(i) = {}
    /\ log' = Append(log, DeleteRec(i))
    /\ UNCHANGED <<build, pages, header, bt, indexed, crashes, skipped, torn>>
TableUpdate(i, k) ==
    /\ Room /\ Mishap /\ log[i].op = "row" /\ Tombs(i) = {} /\ Fresh(k)
    /\ log' = Append(log, UpdateRec(i, k))
    /\ UNCHANGED <<build, pages, header, bt, indexed, crashes, skipped, torn>>

(* table_create_index reads every record as text: a tombstone or a batch     *)
(* begins with a byte below ' ', which strtoll takes for 0.                  *)
KeyOfText(i) == IF log[i].op = "row" THEN log[i].keys[1] ELSE 0
Indexable(i) == ~(log[i].op = "row" /\ log[i].keys[1] = Null)
Built(n) ==
    FoldLeft(LAMBDA acc, i : BtreeInsert(acc.bt, acc.pages, KeyOfText(i), i),
             [bt |-> Created, pages |-> EmptyRoot],
             SelectSeq([i \in 1..n |-> i], Indexable))
CreateIndex ==
    /\ ~torn
    /\ Indexes(Built(Len(log)))
    /\ indexed' = TRUE
    /\ skipped' = {}
    /\ UNCHANGED <<build, log, crashes, torn>>

(* The process dies after the row's record and n page writes of its entry,   *)
(* or while the index is being built; table_open finds the file again.       *)
Prefix(ps, ws, n) ==
    FoldLeft(LAMBDA acc, w : IF w[1] <= Len(acc) THEN [acc EXCEPT ![w[1]] = w[2]]
                             ELSE Append(acc, w[2]), ps, SubSeq(ws, 1, n))
CrashInAppend(k) ==
    /\ build = "debug" /\ Room /\ Fresh(k) /\ k # Null /\ indexed /\ Mishap
    /\ log' = Append(log, RowRec(k))
    /\ \E r \in {Insert(k, Len(log) + 1)} : \E n \in 0..Len(r.writes) :
            /\ pages' = Prefix(pages, r.writes, n)
            /\ torn' = (n > 0 /\ r.split)
            /\ skipped' = IF n = Len(r.writes) /\ header.nkeys > 0 THEN skipped
                          ELSE skipped \union {Len(log) + 1}
    /\ bt' = header
    /\ crashes' = crashes + 1
    /\ UNCHANGED <<build, header, indexed>>
CrashInCreate(n) ==
    /\ ~torn /\ Mishap
    /\ Indexes(Built(n))
    /\ indexed' = TRUE
    /\ crashes' = crashes + 1
    /\ skipped' = (n + 1)..Len(log)
    /\ UNCHANGED <<build, log, torn>>

Next ==
    \/ \E k \in Keys \union {Null} : TableAppend(k)
    \/ \E k, l \in Keys : AppendBatch(k, l)
    \/ \E i \in DOMAIN log : TableDelete(i) \/ \E k \in Keys : TableUpdate(i, k)
    \/ CreateIndex
    \/ \E k \in Keys : CrashInAppend(k)
    \/ \E n \in 0..(Len(log) - 1) : CrashInCreate(n)

Spec == Init /\ [][Next]_vars

-----------------------------------------------------------------------------
(* Properties *)

InTree == 1..(IF indexed THEN Len(pages) ELSE 0)
Readable == indexed /\ ~torn

(* Pages are full to their bounds at most, inner pages have one child more   *)
(* than separators, and every page named exists (btree.c:144-188).           *)
TypeOK ==
    /\ \A no \in InTree :
        CASE pages[no].type = "leaf" -> Len(pages[no].ents) <= LeafMax
          [] pages[no].type = "int" -> /\ Len(pages[no].ents) \in 1..IntMax
                                       /\ Len(pages[no].ch) = Len(pages[no].ents) + 1
          [] OTHER -> torn
    /\ Readable => bt.npages = Len(pages) + 1 /\ bt.root \in InTree
    /\ header = bt /\ indexed \in BOOLEAN /\ torn \in BOOLEAN
    /\ skipped \subseteq 1..Len(log)

(* With unique keys a range of the tree is what was inserted with a key in   *)
(* it, once each and in the order of the keys, whatever the splits did and   *)
(* whether or not the process died beside them (btree.c:285).                *)
OffsetsWith(lo, hi) ==
    {i \in DOMAIN log : log[i].op = "row" /\ log[i].keys[1] \in (lo..hi) \ {Null}}
RangeIsExact ==
    (Unique /\ Readable) => \A lo, hi \in Keys :
        LET es == SelectSeq(BtreeRange(bt, pages, lo, hi), LAMBDA e : log[e.off].op = "row")
            offs == {es[n].off : n \in DOMAIN es}
        IN /\ OffsetsWith(lo, hi) \ skipped \subseteq offs
           /\ offs \subseteq OffsetsWith(lo, hi)
           /\ \A m, n \in DOMAIN es : m < n => es[m].key < es[n].key

(* A query that goes by the index answers what the full scan answers, as     *)
(* long as no DELETE or UPDATE and no crash came between: the planner may    *)
(* choose either (api.c:1543).                                               *)
IndexAnswersAsScan ==
    (Unique /\ Readable /\ skipped = {} /\ \A i \in DOMAIN log : log[i].op = "row") =>
        \A lo, hi \in Keys :
            LET x == IndexScan(lo, hi)
                s == ScanWhere(lo, hi)
            IN Len(x) = Len(s) /\ Range(x) = Range(s)

-----------------------------------------------------------------------------
(* What comments promise and the code does not keep.                         *)

(* "Keys need not be unique" (btree.h:24, in Russian): a range finds every   *)
(* entry, equal keys on several leaves included.                             *)
EqualKeysAreFound ==
    (Readable /\ skipped = {} /\ \A i \in DOMAIN log : log[i].op = "row") =>
        \A k \in Keys : Len(IndexScan(k, k)) = Len(ScanWhere(k, k))

(* load_tbl "materialises all live rows of the table" (api.c:1516, in        *)
(* Russian): by the index, too, a deleted row is gone.                       *)
IndexSeesLiveRows ==
    (Readable /\ skipped = {}) => \A k \in Keys : Range(IndexScan(k, k)) = Range(ScanWhere(k, k))

(* The index "opens existing" files (btree.h:22): what it missed when the    *)
(* process died is not missing for ever.                                     *)
IndexSurvivesCrash ==
    Readable => \A k \in Keys : Len(IndexScan(k, k)) >= Len(ScanWhere(k, k)) 

=============================================================================
