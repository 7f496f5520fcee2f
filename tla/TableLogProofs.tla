----------------------------- MODULE TableLogProofs -----------------------------
(***************************************************************************)
(* Proofs about TableLog: the types of the log and of its statements, that *)
(* the debug build loses no row whose ingestion was answered, that a       *)
(* statement counts no row twice, in either build, and that the log is the *)
(* table the answered statements made, compacted or not.                   *)
(*                                                                         *)
(* The invariant relates the log to what the statements have still to      *)
(* append.  An ingestion takes ids that no record has (Known, Fresh), so a *)
(* row has one record until an UPDATE rewrites it.  In the debug build a   *)
(* tombstone, written or queued, names a record before it whose row it     *)
(* carries or a DELETE has counted (Marked), and an answered row has its   *)
(* record below the durable end of the log (Durable).  In the release      *)
(* build a record that gives a row anew stands behind the tombstone of the *)
(* one that held it (Superseded), so a scan, which skips what is           *)
(* tombstoned when it opens, meets a row once (Scan).                      *)
(*                                                                         *)
(* For the contents of the table the two builds are one: what is written   *)
(* and what is still to be written are its entries, which a write moves    *)
(* from a queue to the log.  While no two DMLs overlap a tombstone names a *)
(* record that no other names (Marking), and a row is given by one entry,  *)
(* with the value its statement was or will be answered for (Answered).    *)
(* Every record, written or queued, holds the texts its rows were ingested *)
(* with or what printing them without quotes makes of these (Worded).      *)
(***************************************************************************)
EXTENDS TableLog, SequenceTheorems, FiniteSetTheorems, TLAPS

RowOps == {"row"} \union Batches
Ops == RowOps \union Tombstones

(* A record as the statements write it: a row and an UPDATE carry one row,   *)
(* a batch no row twice.                                                     *)
LogRec == {rec \in LogRecord :
            /\ rec.op \in {"row", "update"} => Len(rec.rows) = 1
            /\ \A k, m \in 1..Len(rec.rows) : rec.rows[k].id = rec.rows[m].id => k = m}
Part == {Length} \union [part : {"data"}, rec : LogRec]
Thread == [op : {"none", "ingest", "read", "result"} \union Dmls, n : 0..MaxStatements,
           want : SUBSET Ids, pos : Nat, end : Nat, dead : SUBSET Nat,
           todo : Seq(LogRec), half : BOOLEAN, pending : Seq(LogRec), hits : [Ids -> Nat]]

Types ==
    /\ build \in {"debug", "release"}
    /\ file \in Seq(Part)
    /\ synced \in 0..Len(file)
    /\ threads \in [Threads -> Thread]
    /\ tables_mu \in Threads \union {NoThread}
    /\ nrows \in 0..MaxRows
    /\ statements \in 0..MaxStatements
    /\ crashes \in 0..MaxCrashes
    /\ acked \subseteq Ids /\ gone \subseteq Ids
    /\ answers \in [Ids -> Values]
    /\ raced \in BOOLEAN

(* What a statement has still to append, in order.                           *)
Queue(t) == threads[t].todo \o threads[t].pending
Isdml(t) == threads[t].op \in Dmls

(* A statement that has a length written has its record to write; only an    *)
(* ingestion and a DML append, and of the DMLs the one that holds tables_mu. *)
Held == tables_mu # NoThread => Isdml(tables_mu) /\ threads[tables_mu].todo # <<>>
Shape(t) ==
    /\ threads[t].half => threads[t].todo # <<>>
    /\ threads[t].op \notin Dmls \union {"ingest"} => threads[t].todo = <<>>
    /\ ~Isdml(t) => threads[t].pending = <<>>
    /\ build = "debug" => threads[t].pending = <<>>
    /\ threads[t].op = "ingest" => \A k \in 1..Len(Queue(t)) : Queue(t)[k].op \in RowOps
    /\ build = "debug" => \A k \in 1..Len(Queue(t)) :
            Queue(t)[k].op \in IF Isdml(t) THEN Tombstones ELSE {"row"}
Shaped == Held /\ \A t \in Threads : Shape(t)

(* The records appended, whether a reader reaches them or not.               *)
Written(j) == j \in 1..Len(file) /\ file[j].part = "data"
HasRow(rec, id) == rec.op \in RowOps /\ id \in IdsOf(rec.rows)
WrittenRow(j, id) == Written(j) /\ HasRow(file[j].rec, id)
QueuedRow(t, k, id) == k \in 1..Len(Queue(t)) /\ HasRow(Queue(t)[k], id)

(* Rows come from an ingestion, which takes new ids.                         *)
Known ==
    /\ \A j, id : WrittenRow(j, id) => id \in 1..nrows
    /\ \A t \in Threads : \A k, id : QueuedRow(t, k, id) =>
            id \in 1..nrows /\ (Isdml(t) => \E j : WrittenRow(j, id))
Fresh ==
    \A t \in Threads : \A k, id : QueuedRow(t, k, id) /\ threads[t].op = "ingest" =>
        /\ ~\E j : WrittenRow(j, id)
        /\ \A u \in Threads : \A m :
                QueuedRow(u, m, id) /\ threads[u].op = "ingest" => u = t /\ m = k

-----------------------------------------------------------------------------
(* The debug build                                                           *)

(* Row i, by the offset of its record.                                       *)
RowAt(i) == Written(i + 1) /\ file[i + 1].rec.op = "row"
IdAt(i) == file[i + 1].rec.rows[1].id

(* One record for a row.                                                     *)
OneRecord == \A i, j \in Nat : RowAt(i) /\ RowAt(j) /\ IdAt(i) = IdAt(j) => i = j

(* A tombstone names a row record before it: that of a row a DELETE counted, *)
(* or of the row it carries.                                                 *)
Marks(rec, n) ==
    /\ rec.ref + 1 < n /\ RowAt(rec.ref)
    /\ rec.op = "delete" => IdAt(rec.ref) \in gone
    /\ rec.op = "update" => rec.rows[1].id = IdAt(rec.ref)
MarkedLog ==
    /\ \A j : Written(j) /\ file[j].rec.op \in Tombstones => Marks(file[j].rec, j)
    /\ \A j : Written(j) => file[j].rec.op \notin Batches
MarkedQueue(t) == \A k \in 1..Len(Queue(t)) :
    Queue(t)[k].op \in Tombstones => Marks(Queue(t)[k], Len(file) + 1)
Marked == MarkedLog /\ \A t \in Threads : MarkedQueue(t)

(* What an ingestion has of its rows in the log; and what of the answered    *)
(* ones fdatasync has made durable.                                          *)
IngestedBy(t) == threads[t].op = "ingest" => \A id \in threads[t].want :
    (\E j : WrittenRow(j, id)) \/ (\E k : QueuedRow(t, k, id))
Ingested == \A t \in Threads : IngestedBy(t)
Durable ==
    \A id \in acked : \E i \in Records(file) :
        i + 1 <= synced /\ Rec(file, i).op = "row" /\ Rec(file, i).rows[1].id = id

(* What a statement has counted: rows of records it has passed.              *)
CountedBy(t) ==
    /\ \A id \in Ids : threads[t].hits[id] <= 1
    /\ Isdml(t) => \A id \in Ids : threads[t].hits[id] = 1 =>
                    \E i \in Nat : i < threads[t].pos /\ RowAt(i) /\ IdAt(i) = id
    /\ threads[t].op = "read" => threads[t].dead \subseteq TombsIn(file)
Counted == \A t \in Threads : CountedBy(t)

Debug == build = "debug" => OneRecord /\ Marked /\ Ingested /\ Durable /\ Counted

(* What the rows of a record read as: as they were ingested, if no DML wrote *)
(* it; and otherwise as such a text does that was printed.                   *)
AsGiven(rec) == \A k \in 1..Len(rec.rows) : rec.rows[k].text = TextOf[rec.rows[k].id]
AsPrinted(rec) ==
    \A k \in 1..Len(rec.rows) : rec.rows[k].text \in Rewritings(TextOf[rec.rows[k].id])
IsWorded(rec, b) ==
    /\ AsPrinted(rec)
    /\ rec.op \in Batches \/ (rec.op = "row" /\ b = "debug") => AsGiven(rec)
Worded ==
    /\ \A j : Written(j) => IsWorded(file[j].rec, build)
    /\ \A t \in Threads : \A k \in 1..Len(Queue(t)) : IsWorded(Queue(t)[k], build)

LogInv == Types /\ Shaped /\ Known /\ Fresh /\ Debug /\ Worded

-----------------------------------------------------------------------------
LEMMA NatMin ==
    ASSUME NEW T \in SUBSET Nat, T # {}
    PROVE  \E m \in T : \A n \in T : m <= n
  <1>1. PICK N \in T : TRUE
    OBVIOUS
  <1> DEFINE R == StrictSubsetOrdering(0..N)
             U == {0..n : n \in {k \in T : k <= N}}
  <1>2. IsWellFoundedOn(R, FiniteSubsetsOf(0..N))
    <2>1. IsFiniteSet(0..N)
      BY FS_Interval
    <2> QED  BY <2>1, FS_StrictSubsetOrderingWellFounded
  <1>3. U \subseteq FiniteSubsetsOf(0..N) /\ U # {}
    <2>1. \A n \in {k \in T : k <= N} : 0..n \in SUBSET (0..N) /\ IsFiniteSet(0..n)
      BY FS_Interval
    <2> QED  BY <1>1, <2>1 DEF FiniteSubsetsOf
  <1>4. \E x \in U : \A y \in U : ~(<<y, x>> \in R)
    <2> HIDE DEF R, U
    <2> QED BY <1>2, <1>3, WFMin
  <1>5. PICK m \in {k \in T : k <= N} : \A n \in {k \in T : k <= N} : <<0..n, 0..m>> \notin R
    BY <1>4
  <1>6. ASSUME NEW n \in T, n < m  PROVE FALSE
    <2>1. n <= N /\ 0..n \subseteq 0..m /\ m \notin 0..n /\ m \in 0..m
      BY <1>5, <1>6
    <2>2. 0..n \in SUBSET (0..N) /\ 0..m \in SUBSET (0..N) /\ 0..n # 0..m
      BY <2>1, <1>5
    <2> QED  BY <1>5, <1>6, <2>1, <2>2 DEF StrictSubsetOrdering
  <1> QED  BY <1>5, <1>6

LEMMA SeqOne == \A x : DOMAIN <<x>> = {1} /\ <<x>>[1] = x /\ Len(<<x>>) = 1
  <1>1. \A x : <<x>> \in Seq({x}) /\ Len(<<x>>) = 1
    OBVIOUS
  <1>2. \A x : DOMAIN <<x>> = 1..1
    BY <1>1
  <1> QED  BY <1>1, <1>2

LEMMA PrintedFacts ==
    ASSUME NEW r \in Row
    PROVE  /\ Printed(r) \in Row /\ Printed(r).id = r.id /\ Printed(r).v = r.v
           /\ Printed(r).text = Reread[r.text]
  BY TableLogAssumption DEF TableLogAssumption, Printed, Row

LEMMA RemadeIsShort ==
    ASSUME NEW c \in Thread, NEW r \in Row
    PROVE  /\ Remade(c, r) \in Seq(Row)
           /\ Len(Remade(c, r)) <= 1
           /\ Len(Remade(c, r)) = 1 => Remade(c, r)[1].id = r.id
           /\ c.op # "delete" => Len(Remade(c, r)) = 1
  <1>1. Printed(r) \in Row /\ Printed(r).id = r.id /\ Printed(r).v = r.v
    BY PrintedFacts
  <1>2. PICK p : p = Printed(r)
    OBVIOUS
  <1>3. [p EXCEPT !.v = c.n] \in Row /\ [p EXCEPT !.v = c.n].id = r.id
    BY <1>1, <1>2 DEF Row, Thread, Values
  <1> QED  BY <1>1, <1>2, <1>3 DEF Remade

LEMMA RowRecTyped ==
    ASSUME NEW r \in Row
    PROVE  /\ RowRec(r) \in LogRec /\ RowRec(r).op = "row"
           /\ Len(RowRec(r).rows) = 1 /\ RowRec(r).rows[1] = r
  BY DEF RowRec, LogRec, LogRecord

Piece(c, r) == [j \in DOMAIN Remade(c, r) |-> RowRec(Remade(c, r)[j])]
LEMMA PieceIsShort ==
    ASSUME NEW c \in Thread, NEW r \in Row
    PROVE  /\ Piece(c, r) \in Seq(LogRec)
           /\ Len(Piece(c, r)) = Len(Remade(c, r))
           /\ Len(Remade(c, r)) = 1 => Piece(c, r)[1] = RowRec(Remade(c, r)[1])
  <1> DEFINE s == Remade(c, r)
  <1>1. s \in Seq(Row) /\ Len(s) \in Nat /\ Len(s) <= 1 /\ DOMAIN s = 1..Len(s)
        /\ \A j \in 1..Len(s) : s[j] \in Row
    BY RemadeIsShort, LenProperties, ElementOfSeq
  <1>2. \A j \in 1..Len(s) : RowRec(s[j]) \in LogRec
    BY <1>1, RowRecTyped
  <1>3. Piece(c, r) = [j \in 1..Len(s) |-> RowRec(s[j])]
    BY <1>1 DEF Piece
  <1> HIDE DEF s
  <1>4. [j \in 1..Len(s) |-> RowRec(s[j])] \in [1..Len(s) -> LogRec]
    BY <1>2
  <1>5. Piece(c, r) \in Seq(LogRec) /\ Len(Piece(c, r)) = Len(s)
    BY <1>1, <1>3, <1>4
  <1> QED  BY <1>1, <1>3, <1>5 DEF s

Steps(c, rows, g, n) ==
    /\ g[0] = <<>>
    /\ \A k \in 1..n : g[k] = g[k - 1] \o Piece(c, rows[k])
(* What a piece is of: the rows that are left, each once.                    *)
FromRows(c, rows, s, m) ==
    \E h \in [1..Len(s) -> 1..m] :
        /\ \A j \in 1..Len(s) : /\ Len(Remade(c, rows[h[j]])) = 1
                                /\ s[j] = RowRec(Remade(c, rows[h[j]])[1])
        /\ \A i, j \in 1..Len(s) : i < j => h[i] < h[j]
        /\ \A r \in 1..m : Len(Remade(c, rows[r])) = 1 => \E j \in 1..Len(s) : h[j] = r

LEMMA FromRowsMore ==
    ASSUME NEW c \in Thread, NEW rows \in Seq(Row), NEW s \in Seq(LogRec),
       NEW m \in 0..(Len(rows) - 1),
           FromRows(c, rows, s, m)
    PROVE  /\ s \o Piece(c, rows[m + 1]) \in Seq(LogRec)
           /\ FromRows(c, rows, s \o Piece(c, rows[m + 1]), m + 1)
  <1> DEFINE p == Piece(c, rows[m + 1])
             q == s \o p
             x == Remade(c, rows[m + 1])
  <1>1. rows[m + 1] \in Row
    BY ElementOfSeq, LenProperties
  <1>2. p \in Seq(LogRec) /\ Len(p) = Len(x) /\ (Len(x) = 1 => p[1] = RowRec(x[1]))
    BY <1>1, PieceIsShort
  <1>2a. Len(x) \in {0, 1}
    <2>1. x \in Seq(Row) /\ Len(x) <= 1
      BY <1>1, RemadeIsShort
    <2> HIDE DEF x
    <2>2. Len(x) \in Nat
      BY <2>1, LenProperties
    <2>3. \A n \in Nat : n <= 1 => n \in {0, 1}
      OBVIOUS
    <2> QED  BY <2>1, <2>2, <2>3
  <1>3. /\ q \in Seq(LogRec) /\ Len(q) = Len(s) + Len(p) /\ Len(s) \in Nat
        /\ \A j \in 1..Len(q) : q[j] = IF j <= Len(s) THEN s[j] ELSE p[j - Len(s)]
    <2> HIDE DEF p, x
    <2>1. Len(s) \in Nat /\ Len(p) \in Nat
      BY <1>2, LenProperties
    <2>2. /\ q \in Seq(LogRec) /\ Len(q) = Len(s) + Len(p)
          /\ \A j \in 1..Len(s) + Len(p) : q[j] = IF j <= Len(s) THEN s[j] ELSE p[j - Len(s)]
      <3>1. s \in Seq(LogRec) /\ p \in Seq(LogRec)
        BY <1>2
      <3> QED  BY <3>1, ConcatProperties
    <2> QED  BY <2>1, <2>2
  <1>4. PICK h \in [1..Len(s) -> 1..m] :
            /\ \A j \in 1..Len(s) : /\ Len(Remade(c, rows[h[j]])) = 1
                                    /\ s[j] = RowRec(Remade(c, rows[h[j]])[1])
            /\ \A i, j \in 1..Len(s) : i < j => h[i] < h[j]
            /\ \A r \in 1..m : Len(Remade(c, rows[r])) = 1 => \E j \in 1..Len(s) : h[j] = r
    BY DEF FromRows
  <1> DEFINE g == [j \in 1..Len(q) |-> IF j <= Len(s) THEN h[j] ELSE m + 1]
  <1>5. \A j \in 1..Len(q) : \/ j <= Len(s) /\ j \in 1..Len(s)
                             \/ j = Len(s) + 1 /\ Len(x) = 1 /\ ~(j <= Len(s)) /\ j - Len(s) = 1
    <2>1. Len(s) \in Nat /\ Len(q) = Len(s) + Len(x) /\ Len(x) \in {0, 1}
      BY <1>2, <1>2a, <1>3
    <2> DEFINE a == Len(s)
               b == Len(q)
               d == Len(x)
    <2>2. a \in Nat /\ b = a + d /\ (d = 0 \/ d = 1)
      BY <2>1
    <2> HIDE DEF a, b, d
    <2>3. \A j \in 1..b : \/ j <= a /\ j \in 1..a
                          \/ j = a + 1 /\ d = 1 /\ ~(j <= a) /\ j - a = 1
      BY <2>2
    <2> QED  BY <2>3 DEF a, b, d
  <1> HIDE DEF p, q, x
  <1>6. g \in [1..Len(q) -> 1..(m + 1)]
    BY <1>3, <1>4, <1>5
  <1>7. \A j \in 1..Len(q) : Len(Remade(c, rows[g[j]])) = 1
        /\ q[j] = RowRec(Remade(c, rows[g[j]])[1])
    BY <1>2, <1>2a, <1>3, <1>4, <1>5 DEF x
  <1>8. ASSUME NEW i \in 1..Len(q), NEW j \in 1..Len(q), i < j  PROVE g[i] < g[j]
    <2>1. \/ j \in 1..Len(s) /\ i \in 1..Len(s) /\ i <= Len(s) /\ j <= Len(s)
          \/ ~(j <= Len(s)) /\ i \in 1..Len(s) /\ i <= Len(s)
      BY <1>3, <1>5, <1>8
    <2>2. h \in [1..Len(s) -> 1..m] /\ \A a, b \in 1..Len(s) : a < b => h[a] < h[b]
      BY <1>4
    <2>3. \A k \in 1..m : k < m + 1
      OBVIOUS
    <2>4. \A a \in 1..Len(s) : h[a] < m + 1
      BY <2>2, <2>3
    <2> QED  BY <1>8, <2>1, <2>2, <2>4
  <1>9. ASSUME NEW r \in 1..(m + 1), Len(Remade(c, rows[r])) = 1
        PROVE  \E j \in 1..Len(q) : g[j] = r
    <2>1. CASE r = m + 1
      <3>1. PICK j : j = Len(s) + 1
        OBVIOUS
      <3>2. Len(x) = 1
        BY <1>9, <2>1 DEF x
      <3>3. j \in 1..Len(q) /\ ~(j <= Len(s))
        BY <1>2, <1>3, <3>1, <3>2
      <3> QED  BY <2>1, <3>3
    <2>2. CASE r # m + 1
      <3>1. r \in 1..m
        BY <2>2
      <3>2. PICK j \in 1..Len(s) : h[j] = r
        BY <1>4, <1>9, <3>1
      <3>3. j \in 1..Len(q) /\ j <= Len(s)
        BY <1>2, <1>2a, <1>3
      <3> QED  BY <3>2, <3>3
    <2> QED  BY <2>1, <2>2
  <1> QED  BY <1>3, <1>6, <1>7, <1>8, <1>9 DEF FromRows, p, q

(* The recursion of Remake is well defined.                                  *)
LEMMA RemakeExists ==
    ASSUME NEW c \in Thread, NEW rows \in Seq(Row)
    PROVE  \A n \in 0..Len(rows) :
                \E g \in [0..n -> Seq(LogRec)] :
                    Steps(c, rows, g, n) /\ \A k \in 0..n : FromRows(c, rows, g[k], k)
  <1> DEFINE Ok(n) == \E g \in [0..n -> Seq(LogRec)] :
                    Steps(c, rows, g, n) /\ \A k \in 0..n : FromRows(c, rows, g[k], k)
             Bad == {n \in 0..Len(rows) : ~Ok(n)}
  <1>1. Len(rows) \in Nat
    BY LenProperties
  <1>2. Ok(0)
    <2> DEFINE g == [k \in 0..0 |-> <<>>]
    <2>1. g \in [0..0 -> Seq(LogRec)] /\ g[0] = <<>> /\ Len(<<>>) = 0
      BY EmptySeq
    <2>2. FromRows(c, rows, <<>>, 0)
      <3> DEFINE h == [j \in 1..0 |-> 1]
      <3>1. h \in [1..Len(<<>>) -> 1..0]
        BY <2>1
      <3>2. \A j \in 1..Len(<<>>) : FALSE
        BY <2>1
      <3>3. \A r \in 1..0 : FALSE
        OBVIOUS
      <3> HIDE DEF h
      <3> QED  BY <3>1, <3>2, <3>3, Zenon DEF FromRows
    <2>3. Steps(c, rows, g, 0)
      BY <2>1 DEF Steps
    <2> QED  BY <2>1, <2>2, <2>3
  <1>3. ASSUME NEW n \in 0..(Len(rows) - 1), Ok(n)  PROVE Ok(n + 1)
    <2>1. PICK g \in [0..n -> Seq(LogRec)] :
            Steps(c, rows, g, n) /\ \A k \in 0..n : FromRows(c, rows, g[k], k)
      BY <1>3
    <2> DEFINE s == g[n] \o Piece(c, rows[n + 1])
               e == [k \in 0..(n + 1) |-> IF k = n + 1 THEN s ELSE g[k]]
    <2>2. s \in Seq(LogRec) /\ FromRows(c, rows, s, n + 1)
      BY <1>1, <2>1, FromRowsMore
    <2> HIDE DEF s
    <2>3. e \in [0..(n + 1) -> Seq(LogRec)]
      BY <1>1, <2>1, <2>2
    <2>4. \A k \in 0..(n + 1) : FromRows(c, rows, e[k], k)
      BY <1>1, <2>1, <2>2
    <2>5. Steps(c, rows, e, n + 1)
      <3>1. e[0] = <<>>
        BY <1>1, <2>1 DEF Steps
      <3>2. ASSUME NEW k \in 1..(n + 1)  PROVE e[k] = e[k - 1] \o Piece(c, rows[k])
        <4>1. k - 1 \in 0..n /\ e[k - 1] = g[k - 1]
          BY <1>1
        <4>2. CASE k = n + 1
          <5>1. e[k] = s /\ k - 1 = n
            BY <1>1, <4>2
          <5> QED  BY <4>1, <4>2, <5>1 DEF s
        <4>3. CASE k # n + 1
          <5>1. e[k] = g[k] /\ k \in 1..n
            BY <1>1, <4>3
          <5> QED  BY <2>1, <4>1, <5>1 DEF Steps
        <4> QED  BY <4>2, <4>3
      <3> QED  BY <3>1, <3>2 DEF Steps
    <2> QED  BY <2>3, <2>4, <2>5
  <1> HIDE DEF Ok
  <1>4. ASSUME Bad # {}  PROVE FALSE
    <2>1. PICK m \in Bad : \A n \in Bad : m <= n
      <3>1. Bad \in SUBSET Nat
        BY <1>1
      <3> HIDE DEF Bad
      <3> QED  BY <1>4, <3>1, NatMin
    <2>2. m # 0
      BY <1>2, <2>1
    <2>3. m - 1 \in 0..(Len(rows) - 1) /\ m - 1 \in 0..Len(rows) /\ ~(m <= m - 1) /\ (m - 1) + 1 = m
      BY <1>1, <2>1, <2>2
    <2>4. Ok(m - 1)
      BY <2>1, <2>3
    <2> QED  BY <1>3, <2>1, <2>3, <2>4
  <1> QED  BY <1>4 DEF Ok

LEMMA RemakeFacts ==
    ASSUME NEW c \in Thread, NEW rows \in Seq(Row)
    PROVE  Remake(c, rows) \in Seq(LogRec) /\ FromRows(c, rows, Remake(c, rows), Len(rows))
  <1> DEFINE n == Len(rows)
             Step1(g) == [k \in 0..n |-> IF k = 0 THEN <<>> ELSE g[k - 1] \o Piece(c, rows[k])]
             f == CHOOSE g : g = Step1(g)
  <1>1. n \in Nat /\ 0 \in 0..n /\ n \in 0..n
    BY LenProperties
  <1>2. Remake(c, rows) = f[n]
    BY DEF Remake, Piece
  <1>3. PICK g \in [0..n -> Seq(LogRec)] :
            Steps(c, rows, g, n) /\ \A k \in 0..n : FromRows(c, rows, g[k], k)
    BY <1>1, RemakeExists
  <1>4. g = Step1(g)
    <2>1. g = [k \in 0..n |-> g[k]]
      BY <1>3
    <2>2. \A k \in 0..n : k = 0 \/ k \in 1..n
      BY <1>1
    <2>3. \A k \in 0..n : g[k] = IF k = 0 THEN <<>> ELSE g[k - 1] \o Piece(c, rows[k])
      BY <1>3, <2>2 DEF Steps
    <2> QED  BY <2>1, <2>3, Zenon
  <1>5. f = Step1(f)
    BY <1>4
  <1> HIDE DEF f
  <1>6. \A k \in 0..n : f[k] = IF k = 0 THEN <<>> ELSE f[k - 1] \o Piece(c, rows[k])
    BY <1>5
  <1> DEFINE Differ == {k \in 0..n : f[k] # g[k]}
  <1>7. ASSUME Differ # {}  PROVE FALSE
    <2>1. PICK m \in Differ : \A k \in Differ : m <= k
      <3>1. Differ \in SUBSET Nat
        BY <1>1
      <3> HIDE DEF Differ
      <3> QED  BY <1>7, <3>1, NatMin
    <2>2. m # 0
      BY <1>1, <1>3, <1>6, <2>1 DEF Steps
    <2>3. m \in 1..n /\ m - 1 \in 0..n /\ ~(m <= m - 1)
      BY <1>1, <2>1, <2>2
    <2>4. f[m - 1] = g[m - 1]
      BY <2>1, <2>3
    <2> QED  BY <1>3, <1>6, <2>1, <2>2, <2>3, <2>4 DEF Steps
  <1> QED  BY <1>1, <1>2, <1>3, <1>7

-----------------------------------------------------------------------------
(* The parts of the state and of a step.                                     *)

LEMMA Facts == MaxRows \in Nat /\ MaxStatements \in Nat /\ MaxCrashes \in Nat
  BY TableLogAssumption DEF TableLogAssumption

LEMMA RecordFields ==
    ASSUME NEW rec \in LogRec
    PROVE  /\ rec.op \in Ops /\ rec.ref \in Nat /\ rec.rows \in Seq(Row)
           /\ Len(rec.rows) \in Nat
           /\ rec.op \in {"row", "update"} =>
                Len(rec.rows) = 1 /\ rec.rows[1] \in Row /\ IdsOf(rec.rows) = {rec.rows[1].id}
           /\ \A k, m \in 1..Len(rec.rows) : rec.rows[k].id = rec.rows[m].id => k = m
           /\ IdsOf(rec.rows) \subseteq Ids
           /\ Data(rec) \in Part /\ Data(rec).part = "data" /\ Data(rec).rec = rec
  <1>1. rec.op \in Ops /\ rec.ref \in Nat /\ rec.rows \in Seq(Row)
        /\ (rec.op \in {"row", "update"} => Len(rec.rows) = 1)
        /\ \A k, m \in 1..Len(rec.rows) : rec.rows[k].id = rec.rows[m].id => k = m
    BY DEF LogRec, LogRecord, Ops, RowOps
  <1>2. Len(rec.rows) \in Nat /\ DOMAIN rec.rows = 1..Len(rec.rows)
        /\ \A k \in 1..Len(rec.rows) : rec.rows[k] \in Row
    BY <1>1, LenProperties, ElementOfSeq
  <1>3. IdsOf(rec.rows) \subseteq Ids
    BY <1>2 DEF IdsOf, Row
  <1>4. ASSUME rec.op \in {"row", "update"}
        PROVE  rec.rows[1] \in Row /\ IdsOf(rec.rows) = {rec.rows[1].id}
    BY <1>1, <1>2, <1>4 DEF IdsOf
  <1>5. Data(rec) \in Part /\ Data(rec).part = "data" /\ Data(rec).rec = rec
    BY DEF Data, Part
  <1> QED  BY <1>1, <1>2, <1>3, <1>4, <1>5

LEMMA FileFacts ==
    ASSUME Types
    PROVE  /\ Len(file) \in Nat /\ DOMAIN file = 1..Len(file)
           /\ \A j \in 1..Len(file) : /\ file[j] \in Part
                                      /\ file[j].part \in {"length", "data"}
                                      /\ file[j].part = "data" => file[j].rec \in LogRec
  <1>1. Len(file) \in Nat /\ DOMAIN file = 1..Len(file) /\ \A j \in 1..Len(file) : file[j] \in Part
    BY LenProperties, ElementOfSeq DEF Types
  <1>2. \A x \in Part : x.part \in {"length", "data"} /\ (x.part = "data" => x.rec \in LogRec)
    BY DEF Part, Length
  <1> QED  BY <1>1, <1>2

LEMMA ThreadFields ==
    ASSUME Types, NEW t \in Threads
    PROVE  /\ threads[t] \in Thread
           /\ threads[t].op \in {"none", "ingest", "read", "result", "delete", "update"}
           /\ threads[t].n \in 0..MaxStatements /\ threads[t].want \in SUBSET Ids
           /\ threads[t].pos \in Nat /\ threads[t].end \in Nat
           /\ threads[t].dead \in SUBSET Nat /\ threads[t].half \in BOOLEAN
           /\ threads[t].todo \in Seq(LogRec) /\ threads[t].pending \in Seq(LogRec)
           /\ threads[t].hits \in [Ids -> Nat]
  BY DEF Types, Thread, Dmls

LEMMA QueueFacts ==
    ASSUME Types, NEW t \in Threads
    PROVE  /\ Queue(t) \in Seq(LogRec)
           /\ Len(threads[t].todo) \in Nat /\ Len(threads[t].pending) \in Nat
           /\ Len(Queue(t)) = Len(threads[t].todo) + Len(threads[t].pending)
           /\ \A k \in 1..Len(Queue(t)) :
                /\ Queue(t)[k] \in LogRec
                /\ Queue(t)[k] = IF k <= Len(threads[t].todo) THEN threads[t].todo[k]
                                 ELSE threads[t].pending[k - Len(threads[t].todo)]
           /\ threads[t].todo = <<>> => Queue(t) = threads[t].pending
           /\ threads[t].pending = <<>> => Queue(t) = threads[t].todo
           /\ threads[t].todo # <<>> <=> Len(threads[t].todo) > 0
  <1>1. threads[t].todo \in Seq(LogRec) /\ threads[t].pending \in Seq(LogRec)
    BY ThreadFields
  <1>2. Len(threads[t].todo) \in Nat /\ Len(threads[t].pending) \in Nat
    BY <1>1, LenProperties
  <1>3. /\ Queue(t) \in Seq(LogRec)
        /\ Len(Queue(t)) = Len(threads[t].todo) + Len(threads[t].pending)
        /\ \A k \in 1..Len(threads[t].todo) + Len(threads[t].pending) :
                Queue(t)[k] = IF k <= Len(threads[t].todo) THEN threads[t].todo[k]
                              ELSE threads[t].pending[k - Len(threads[t].todo)]
    BY <1>1, ConcatProperties DEF Queue
  <1>4. \A k \in 1..Len(Queue(t)) : Queue(t)[k] \in LogRec
    BY <1>3, ElementOfSeq
  <1>5. /\ threads[t].todo = <<>> => Queue(t) = threads[t].pending
        /\ threads[t].pending = <<>> => Queue(t) = threads[t].todo
    BY <1>1, ConcatEmptySeq DEF Queue
  <1>6. threads[t].todo # <<>> <=> Len(threads[t].todo) > 0
    BY <1>1, <1>2, EmptySeq
  <1> QED  BY <1>2, <1>3, <1>4, <1>5, <1>6

LEMMA IdleFacts ==
    /\ Idle \in Thread
    /\ Idle.op = "none" /\ Idle.todo = <<>> /\ Idle.pending = <<>> /\ Idle.half = FALSE
    /\ Idle.want = {} /\ Idle.pos = 1 /\ \A id \in Ids : Idle.hits[id] = 0
  <1>1. <<>> \in Seq(LogRec)
    BY EmptySeq
  <1>2. NoHits \in [Ids -> Nat] /\ \A id \in Ids : NoHits[id] = 0
    BY DEF NoHits
  <1> QED  BY <1>1, <1>2, Facts DEF Idle, Thread, Dmls

LEMMA ThreadSet ==
    ASSUME Types, NEW t \in Threads, NEW r \in Thread, threads' = [threads EXCEPT ![t] = r]
    PROVE  /\ threads' \in [Threads -> Thread]
           /\ \A u \in Threads : threads'[u] = IF u = t THEN r ELSE threads[u]
  BY DEF Types

(* The two ways the log changes.                                             *)
Grown(x) == /\ file' \in Seq(Part) /\ Len(file') = Len(file) + 1
            /\ \A j \in 1..Len(file) : file'[j] = file[j]
            /\ file'[Len(file) + 1] = x
LEMMA FileGrows ==
    ASSUME Types, NEW x \in Part, file' = Append(file, x)
    PROVE  Grown(x)
  BY AppendProperties DEF Types, Grown

LEMMA FileCut ==
    ASSUME Types, NEW n \in synced..Len(file), file' = SubSeq(file, 1, n)
    PROVE  /\ n \in Nat /\ n <= Len(file)
           /\ file' \in Seq(Part) /\ Len(file') = n
           /\ \A j \in 1..n : file'[j] = file[j]
  <1>1. n \in Nat /\ n <= Len(file) /\ \A j \in 1..n : j \in 1..Len(file)
    BY FileFacts DEF Types
  <1>2. \A j \in 1..n : file[j] \in Part
    BY <1>1, FileFacts
  <1>3. /\ SubSeq(file, 1, n) \in Seq(Part)
        /\ Len(SubSeq(file, 1, n)) = IF 1 <= n THEN n - 1 + 1 ELSE 0
        /\ \A i \in 1..(n - 1 + 1) : SubSeq(file, 1, n)[i] = file[1 + i - 1]
    BY <1>1, <1>2, SubSeqProperties
  <1>4. \A i \in 1..n : i \in 1..(n - 1 + 1) /\ 1 + i - 1 = i
    BY <1>1
  <1> QED  BY <1>1, <1>3, <1>4

LEMMA ImageIsFinite ==
    ASSUME NEW S, IsFiniteSet(S), NEW f, DOMAIN f = S, NEW T, T = {f[x] : x \in S}
    PROVE  IsFiniteSet(T)
  <1> DEFINE g == [x \in S |-> f[x]]
  <1>1. g \in Surjection(S, T)
    BY DEF Surjection
  <1> QED  BY <1>1, FS_Surjection

(* A record a reader finds.                                                  *)
LEMMA RecordsFacts ==
    ASSUME Types, NEW i \in Records(file)
    PROVE  /\ i \in Nat /\ i + 1 \in 1..Len(file) /\ i \in 1..Len(file)
           /\ Written(i + 1) /\ Rec(file, i) = file[i + 1].rec /\ Rec(file, i) \in LogRec
           /\ i % 2 = 1
  <1>1. i \in Nat /\ i + 1 \in 1..Len(file) /\ i \in 1..Len(file) /\ i % 2 = 1
        /\ file[i + 1].part = PartAt(i + 1)
    BY FileFacts DEF Records
  <1>2. (i + 1) % 2 # 1
    BY <1>1
  <1> QED  BY <1>1, <1>2, FileFacts DEF Written, Rec, PartAt

LEMMA RowsInFacts ==
    ASSUME Types, NEW i \in RowsIn(file)
    PROVE  i \in Records(file) /\ Rec(file, i).op \in RowOps
  BY RecordsFacts, RecordFields DEF RowsIn, TombsIn, Ops

LEMMA TombsInFacts ==
    ASSUME Types, NEW d \in TombsIn(file)
    PROVE  d \in Records(file) /\ Rec(file, d).op \in Tombstones /\ d \in Nat
  BY RecordsFacts DEF TombsIn

LEMMA ObeyedIsOne ==
    ASSUME NEW D \in SUBSET Nat, NEW i, NEW d \in Obeyed(file, D, i), NEW e \in Obeyed(file, D, i)
    PROVE  d = e
  BY DEF Obeyed, OfRecord

(* What every record yields, whether load_tbl reads it or not.               *)
AllOf(f, D) == UNION {YieldOf(f, D, i) : i \in RowsIn(f)}
LEMMA YieldInAll ==
    /\ \A f, D : Yield(f, D) \subseteq AllOf(f, D)
    /\ \A f : Stored(f) = AllOf(f, TombsIn(f))
  BY DEF Yield, AllOf, Stored

LEMMA YieldIsFinite ==
    ASSUME Types, NEW D \in SUBSET Nat
    PROVE  IsFiniteSet(AllOf(file, D))
  <1> DEFINE Of(i) == YieldOf(file, D, i)
             f == [i \in RowsIn(file) |-> Of(i)]
             Y == {f[i] : i \in RowsIn(file)}
  <1>1. IsFiniteSet(RowsIn(file))
    <2>1. IsFiniteSet(1..Len(file))
      BY FileFacts, FS_Interval
    <2>2. RowsIn(file) \subseteq 1..Len(file)
      BY RowsInFacts, RecordsFacts
    <2> QED  BY <2>1, <2>2, FS_Subset
  <1>2. ASSUME NEW i \in RowsIn(file)  PROVE IsFiniteSet(YieldBatches(file, D, i))
    <2> DEFINE K == IF OfRecord(file, D, i) = {} THEN DOMAIN Rec(file, i).rows ELSE {}
               g == [k \in K |-> At(i, k, Rec(file, i).rows[k])]
    <2>1. DOMAIN Rec(file, i).rows = 1..Len(Rec(file, i).rows) /\ Len(Rec(file, i).rows) \in Nat
      BY RowsInFacts, RecordsFacts, RecordFields, LenProperties
    <2>2. IsFiniteSet(DOMAIN Rec(file, i).rows)
      BY <2>1, FS_Interval
    <2>3. IsFiniteSet(K)
      BY <2>2, FS_EmptySet
    <2>4. YieldBatches(file, D, i) = {g[k] : k \in K} /\ DOMAIN g = K
      BY DEF YieldBatches
    <2> HIDE DEF K, g
    <2> QED  BY <2>3, <2>4, ImageIsFinite
  <1>3. ASSUME NEW i \in RowsIn(file)  PROVE IsFiniteSet(YieldRows(file, D, i))
    <2>1. CASE OfRecord(file, D, i) = {}
      BY <2>1, FS_Singleton DEF YieldRows
    <2>2. CASE OfRecord(file, D, i) # {}
      <3> DEFINE S == YieldRows(file, D, i)
      <3>1. \A x, y \in S : x = y
        BY <2>2, ObeyedIsOne DEF YieldRows
      <3>2. S = {} \/ \E x : S = {x}
        BY <3>1
      <3> QED  BY <3>2, FS_EmptySet, FS_Singleton
    <2> QED  BY <2>1, <2>2
  <1>4. \A T \in Y : IsFiniteSet(T)
    BY <1>2, <1>3 DEF YieldOf
  <1>5. IsFiniteSet(Y)
    <2> HIDE DEF f
    <2>1. DOMAIN f = RowsIn(file)
      BY DEF f
    <2> QED  BY <1>1, <2>1, ImageIsFinite
  <1>6. AllOf(file, D) = UNION Y
    BY DEF AllOf
  <1> HIDE DEF Y
  <1> QED  BY <1>4, <1>5, <1>6, FS_UNION

LEMMA TimesFacts ==
    ASSUME Types, NEW D \in SUBSET Nat, NEW id, NEW Y \in SUBSET AllOf(file, D)
    PROVE  /\ Times(Y, id) \in Nat
           /\ (\A y, z \in Y : y.row.id = id /\ z.row.id = id => y = z) => Times(Y, id) <= 1
  <1> DEFINE S == {y \in Y : y.row.id = id}
  <1>1. IsFiniteSet(S)
    BY YieldIsFinite, FS_Subset
  <1>2. Cardinality(S) \in Nat
    BY <1>1, FS_CardinalityType
  <1>3. ASSUME \A y, z \in S : y = z  PROVE Cardinality(S) <= 1
    <2>1. S = {} \/ \E x : S = {x}
      BY <1>3
    <2> HIDE DEF S
    <2>2. S = {} => Cardinality(S) <= 1
      BY FS_EmptySet
    <2>3. ASSUME NEW x, S = {x}  PROVE Cardinality(S) <= 1
      <3>1. Cardinality({x}) = 1
        BY FS_Singleton, Zenon
      <3> QED  BY <2>3, <3>1
    <2> QED  BY <2>1, <2>2, <2>3
  <1> QED  BY <1>2, <1>3 DEF Times

-----------------------------------------------------------------------------
(* The effect of each step, thread by thread.                                *)

WriteStep(t) == WriteLength(t) \/ WriteData(t)
ReadStep(t) == ReadTombstones(t) \/ ReadRows(t) \/ ReadDone(t)

LEMMA NextCases ==
    ASSUME Next
    PROVE  \/ \E t \in Threads :
                \/ \E n \in 1..MaxPerIngest : Ingest(t, n)
                \/ \E op \in Dmls, want \in SUBSET (1..nrows) \ {{}} : DmlOpen(t, op, want)
                \/ WriteLength(t) \/ WriteData(t) \/ IngestDone(t)
                \/ DmlRow(t) \/ DmlBatch(t) \/ DmlFlush(t) \/ DmlDone(t) \/ ReadStep(t)
           \/ \E n \in synced..Len(file) : Crash(n)
  BY DEF Next, Step, ReadStep

Others(t) == \A u \in Threads \ {t} : threads'[u] = threads[u] /\ Queue(u)' = Queue(u)
Typed == threads' \in [Threads -> Thread]

LEMMA WriteLengthDoes ==
    ASSUME Types, NEW t \in Threads, WriteLength(t)
    PROVE  /\ Typed /\ Others(t) /\ Queue(t)' = Queue(t) /\ Grown(Length)
           /\ threads[t].todo # <<>>
           /\ threads'[t] = [threads[t] EXCEPT !.half = TRUE]
  <1> DEFINE r == [threads[t] EXCEPT !.half = TRUE]
  <1>1. r \in Thread /\ r.todo = threads[t].todo /\ r.pending = threads[t].pending
    BY ThreadFields DEF Thread, Dmls
  <1>2. threads' = [threads EXCEPT ![t] = r] /\ threads[t].todo # <<>>
    BY DEF WriteLength, Types
  <1> HIDE DEF r
  <1>3. threads' \in [Threads -> Thread]
        /\ \A u \in Threads : threads'[u] = IF u = t THEN r ELSE threads[u]
    BY <1>1, <1>2, ThreadSet
  <1>4. Grown(Length)
    <2>1. Length \in Part
      BY DEF Part
    <2> QED  BY <2>1, FileGrows DEF WriteLength
  <1> QED  BY <1>1, <1>2, <1>3, <1>4 DEF Typed, Others, Queue, r

LEMMA WriteDataDoes ==
    ASSUME Types, Shaped, NEW t \in Threads, WriteData(t)
    PROVE  /\ Typed /\ Others(t)
           /\ Len(Queue(t)) \in Nat /\ Len(Queue(t)) > 0
           /\ Queue(t)[1] \in LogRec /\ Grown(Data(Queue(t)[1]))
           /\ Len(Queue(t)') = Len(Queue(t)) - 1
           /\ \A k \in 1..(Len(Queue(t)) - 1) : Queue(t)'[k] = Queue(t)[k + 1]
           /\ threads[t].todo # <<>> /\ threads[t].op \in Dmls \union {"ingest"}
           /\ threads'[t] = [threads[t] EXCEPT !.half = FALSE, !.todo = Tail(@)]
           /\ Len(threads'[t].todo) = Len(threads[t].todo) - 1
  <1> DEFINE todo == threads[t].todo
             pending == threads[t].pending
             r == [threads[t] EXCEPT !.half = FALSE, !.todo = Tail(@)]
             a == Len(todo)
             b == Len(pending)
             q == Queue(t)
             L == Len(q)
  <1>1. todo # <<>> /\ threads[t].op \in Dmls \union {"ingest"} /\ todo \in Seq(LogRec)
        /\ pending \in Seq(LogRec)
    BY ThreadFields DEF WriteData, Shaped, Shape
  <1>2. /\ Head(todo) = todo[1] /\ Head(todo) \in LogRec /\ Tail(todo) \in Seq(LogRec)
        /\ Len(Tail(todo)) = a - 1
        /\ \A i \in 1..Len(Tail(todo)) : Tail(todo)[i] = todo[i + 1]
    BY <1>1, HeadTailProperties
  <1>3. r \in Thread /\ r.todo = Tail(todo) /\ r.pending = pending
    BY <1>2, ThreadFields DEF Thread, Dmls
  <1>4. threads' = [threads EXCEPT ![t] = r] /\ file' = Append(file, Data(Head(todo)))
    BY DEF WriteData
  <1>5. /\ a \in Nat /\ b \in Nat /\ a > 0 /\ L = a + b
        /\ \A k \in 1..L : q[k] = IF k <= a THEN todo[k] ELSE pending[k - a]
    BY <1>1, QueueFacts, Zenon
  <1>6. threads' \in [Threads -> Thread]
        /\ \A u \in Threads : threads'[u] = IF u = t THEN r ELSE threads[u]
    <2> HIDE DEF r
    <2> QED  BY <1>3, <1>4, ThreadSet
  <1>7. Queue(t)' = Tail(todo) \o pending
    <2> HIDE DEF r
    <2> QED  BY <1>3, <1>6 DEF Queue
  <1>8. /\ Len(Queue(t)') = a - 1 + b
        /\ \A k \in 1..(a - 1 + b) : Queue(t)'[k] =
                IF k <= a - 1 THEN Tail(todo)[k] ELSE pending[k - (a - 1)]
    <2> DEFINE z == Tail(todo)
    <2>1. z \in Seq(LogRec) /\ pending \in Seq(LogRec) /\ Len(z) = a - 1 /\ Queue(t)' = z \o pending
      BY <1>1, <1>2, <1>7
    <2> HIDE DEF z, pending, a
    <2>2. /\ Len(z \o pending) = Len(z) + b
          /\ \A k \in 1..(Len(z) + b) : (z \o pending)[k] =
                IF k <= Len(z) THEN z[k] ELSE pending[k - Len(z)]
      BY <2>1, ConcatProperties
    <2> QED  BY <2>1, <2>2 DEF z
  <1>9. Typed /\ Others(t)
    BY <1>6 DEF Typed, Others, Queue
  <1> HIDE DEF a, b, L
  <1>10. L > 0 /\ L \in Nat /\ 1 \in 1..L /\ a - 1 + b = L - 1 /\ 1 <= a
    BY <1>5
  <1>11. q[1] = todo[1]
    BY <1>5, <1>10
  <1>12. ASSUME NEW k \in 1..(L - 1)  PROVE Queue(t)'[k] = q[k + 1]
    <2>1. k + 1 \in 1..L /\ k \in 1..(a - 1 + b)
      BY <1>5
    <2>2. CASE k <= a - 1
      <3>1. k \in 1..(a - 1) /\ k + 1 <= a
        BY <1>5, <2>2
      <3> QED  BY <1>2, <1>5, <1>8, <2>1, <2>2, <3>1
    <2>3. CASE ~(k <= a - 1)
      <3>1. ~(k + 1 <= a) /\ k - (a - 1) = k + 1 - a
        BY <1>5, <2>3
      <3>2. Queue(t)'[k] = pending[k - (a - 1)]
        BY <1>8, <2>1, <2>3
      <3>3. q[k + 1] = pending[k + 1 - a]
        BY <1>5, <2>1, <3>1
      <3> QED  BY <3>1, <3>2, <3>3
    <2> QED  BY <2>2, <2>3
  <1>13. Grown(Data(q[1])) /\ q[1] \in LogRec
    <2>1. Data(q[1]) \in Part /\ q[1] \in LogRec
      BY <1>2, <1>11, RecordFields
    <2> QED  BY <1>2, <1>4, <1>11, <2>1, FileGrows
  <1>14. threads'[t] = r /\ Len(threads'[t].todo) = a - 1
    BY <1>2, <1>3, <1>6
  <1> QED  BY <1>1, <1>8, <1>9, <1>10, <1>12, <1>13, <1>14 DEF a, L

NewRows(t, n) ==
    /\ build = "release" =>
        /\ Len(Queue(t)') = 1 /\ Queue(t)'[1].op \in Batches
        /\ IdsOf(Queue(t)'[1].rows) = (nrows + 1)..(nrows + n)
    /\ \A k \in 1..Len(Queue(t)') : AsGiven(Queue(t)'[k])
    /\ build = "debug" =>
        /\ Len(Queue(t)') = n
        /\ \A k \in 1..n : /\ Queue(t)'[k].op = "row"
                           /\ IdsOf(Queue(t)'[k].rows) = {nrows + k}

LEMMA IngestDoes ==
    ASSUME Types, NEW t \in Threads, NEW n \in 1..MaxPerIngest, Ingest(t, n)
    PROVE  /\ Typed /\ Others(t) /\ threads[t] = Idle
           /\ n \in Nat /\ n >= 1 /\ nrows' = nrows + n /\ nrows + n <= MaxRows
           /\ threads'[t].op = "ingest" /\ threads'[t].half = FALSE /\ threads'[t].hits = Idle.hits
           /\ threads'[t].todo # <<>> /\ threads'[t].pending = <<>>
           /\ threads'[t].want = (nrows + 1)..(nrows + n)
           /\ NewRows(t, n)
  <1> DEFINE rows == [k \in 1..n |-> [id |-> nrows + k, v |-> 0, text |-> TextOf[nrows + k]]]
  <1>0. PICK op \in Batches : threads' = [threads EXCEPT ![t] = [Idle EXCEPT !.op = "ingest",
                !.want = IdsOf(rows),
                !.todo = IF build = "release" THEN <<BatchRec(op, rows)>>
                         ELSE [k \in 1..n |-> RowRec(rows[k])]]]
    BY DEF Ingest
  <1> DEFINE todo ==
                IF build = "release" THEN <<BatchRec(op, rows)>>
                ELSE [k \in 1..n |-> RowRec(rows[k])]
             r == [Idle EXCEPT !.op = "ingest", !.want = IdsOf(rows), !.todo = todo]
  <1>1. n \in Nat /\ n >= 1 /\ nrows \in Nat /\ nrows + n \in Nat /\ nrows + n <= MaxRows
        /\ build \in {"debug", "release"}
    BY Facts, TableLogAssumption DEF TableLogAssumption, Ingest, Types
  <1>2. rows \in [1..n -> Row] /\ \A k \in 1..n : rows[k] \in Row /\ rows[k].id = nrows + k
                                                 /\ rows[k].text = TextOf[rows[k].id]
    <2>1. \A k \in 1..n : nrows + k \in Ids /\ TextOf[nrows + k] \in Texts
      BY <1>1, Facts, TableLogAssumption DEF TableLogAssumption, Ids
    <2> QED  BY <2>1, Facts DEF Row, Values
  <1>3. rows \in Seq(Row) /\ Len(rows) = n /\ DOMAIN rows = 1..n
    BY <1>1, <1>2
  <1>4. IdsOf(rows) = (nrows + 1)..(nrows + n) /\ IdsOf(rows) \in SUBSET Ids
    <2>1. IdsOf(rows) = {nrows + k : k \in 1..n}
      BY <1>2, <1>3 DEF IdsOf
    <2>2. \A x \in (nrows + 1)..(nrows + n) : x - nrows \in 1..n /\ x = nrows + (x - nrows)
          /\ x \in Ids
      BY <1>1, Facts DEF Ids
    <2>3. \A k \in 1..n : nrows + k \in (nrows + 1)..(nrows + n)
      BY <1>1
    <2> QED  BY <2>1, <2>2, <2>3
  <1>5. /\ todo \in Seq(LogRec) /\ todo # <<>>
        /\ build = "release" => Len(todo) = 1 /\ todo[1].op \in Batches /\ todo[1].rows = rows
        /\ build = "debug" => Len(todo) = n /\ \A k \in 1..n : todo[k] = RowRec(rows[k])
    <2>1. CASE build = "release"
      <3>1. BatchRec(op, rows) \in LogRec /\ BatchRec(op, rows).op = op /\ BatchRec(op, rows).rows = rows
        <4>1. \A k, m \in 1..n : rows[k].id = rows[m].id => k = m
          BY <1>1, <1>2
        <4> HIDE DEF rows
        <4>2. op \notin {"row", "update"}
          BY DEF Batches
        <4> QED  BY <1>3, <4>1, <4>2 DEF BatchRec, LogRec, LogRecord
      <3> QED  BY <2>1, <3>1
    <2>2. CASE build = "debug"
      <3>1. \A k \in 1..n : RowRec(rows[k]) \in LogRec
        BY <1>2, RowRecTyped
      <3>2. todo \in [1..n -> LogRec] /\ \A k \in 1..n : todo[k] = RowRec(rows[k])
        BY <2>2, <3>1
      <3> HIDE DEF todo, rows
      <3>3. todo \in Seq(LogRec) /\ Len(todo) = n
        BY <1>1, <3>2
      <3>4. todo # <<>>
        BY <1>1, <3>3, EmptySeq
      <3> QED  BY <2>2, <3>2, <3>3, <3>4
    <2> QED  BY <1>1, <2>1, <2>2
  <1>6. r \in Thread
    <2> HIDE DEF todo, rows
    <2> QED  BY <1>4, <1>5, IdleFacts DEF Thread
  <1>7. /\ r.op = "ingest" /\ r.half = FALSE /\ r.todo = todo /\ r.pending = <<>>
        /\ r.want = IdsOf(rows)
        /\ r.hits = Idle.hits
    <2> HIDE DEF todo, rows
    <2> QED  BY IdleFacts DEF Idle
  <1>8. threads' = [threads EXCEPT ![t] = r] /\ threads[t] = Idle /\ nrows' = nrows + n
    BY <1>0 DEF Ingest, Starts
  <1> HIDE DEF r
  <1>9. threads' \in [Threads -> Thread]
        /\ \A u \in Threads : threads'[u] = IF u = t THEN r ELSE threads[u]
    BY <1>6, <1>8, ThreadSet
  <1>10. Queue(t)' = todo
    <2> HIDE DEF todo
    <2>1. Queue(t)' = todo \o <<>>
      BY <1>7, <1>9 DEF Queue
    <2> QED  BY <1>5, <2>1, ConcatEmptySeq
  <1>11. \A k \in 1..n : RowRec(rows[k]).op = "row" /\ IdsOf(RowRec(rows[k]).rows) = {nrows + k}
    <2> TAKE k \in 1..n
    <2>1. rows[k] \in Row /\ rows[k].id = nrows + k
      BY <1>2
    <2> HIDE DEF rows
    <2>2. RowRec(rows[k]) \in LogRec /\ RowRec(rows[k]).op = "row"
          /\ RowRec(rows[k]).rows[1] = rows[k]
      BY <2>1, RowRecTyped
    <2>3. IdsOf(RowRec(rows[k]).rows) = {RowRec(rows[k]).rows[1].id}
      BY <2>2, RecordFields
    <2> QED  BY <2>1, <2>2, <2>3
  <1> HIDE DEF todo, rows
  <1>12. Typed /\ Others(t)
    BY <1>9 DEF Typed, Others, Queue
  <1>13. build = "release" => Len(Queue(t)') = 1 /\ Queue(t)'[1].op \in Batches
                              /\ IdsOf(Queue(t)'[1].rows) = IdsOf(rows)
    BY <1>5, <1>10
  <1>14. build = "debug" =>
                /\ Len(Queue(t)') = n
                /\ \A k \in 1..n : /\ Queue(t)'[k].op = "row"
                                   /\ IdsOf(Queue(t)'[k].rows) = {nrows + k}
    BY <1>5, <1>10, <1>11
  <1>16. \A k \in 1..Len(todo) : AsGiven(todo[k])
    <2>1. CASE build = "release"
      <3>1. \A k \in 1..n : rows[k].text = TextOf[rows[k].id]
        BY <1>2
      <3>2. Len(todo) = 1 /\ todo[1].rows = rows /\ Len(rows) = n
        BY <1>3, <1>5, <2>1
      <3> HIDE DEF rows, todo
      <3>3. AsGiven(todo[1])
        BY <3>1, <3>2 DEF AsGiven
      <3>4. \A k \in 1..Len(todo) : k = 1
        BY <3>2
      <3> QED  BY <3>3, <3>4
    <2>2. CASE build = "debug"
      <3>1. \A k \in 1..n : AsGiven(RowRec(rows[k]))
        BY <1>2, RowRecTyped DEF AsGiven
      <3> QED  BY <1>5, <2>2, <3>1
    <2> QED  BY <1>1, <2>1, <2>2
  <1>15. NewRows(t, n)
    BY <1>4, <1>10, <1>13, <1>14, <1>16 DEF NewRows
  <1> QED  BY <1>1, <1>4, <1>5, <1>7, <1>8, <1>9, <1>12, <1>15

(* A statement that begins, ends or only reads has nothing to append.        *)
EmptyAfter(t) == /\ Typed /\ Others(t) /\ Queue(t)' = <<>> /\ threads'[t].todo = <<>>
                 /\ threads'[t].pending = <<>> /\ threads'[t].half = FALSE

LEMMA EmptyDoes ==
    ASSUME Types, NEW t \in Threads, NEW r \in Thread, threads' = [threads EXCEPT ![t] = r],
           r.todo = <<>>, r.pending = <<>>, r.half = FALSE
    PROVE  EmptyAfter(t) /\ threads'[t] = r
  <1>1. threads' \in [Threads -> Thread]
        /\ \A u \in Threads : threads'[u] = IF u = t THEN r ELSE threads[u]
    BY ThreadSet
  <1>2. <<>> \o <<>> = <<>>
    BY EmptySeq, ConcatEmptySeq
  <1> QED  BY <1>1, <1>2 DEF EmptyAfter, Typed, Others, Queue

LEMMA DmlOpenDoes ==
    ASSUME Types, NEW t \in Threads, NEW op \in Dmls, NEW want \in SUBSET (1..nrows) \ {{}},
           DmlOpen(t, op, want)
    PROVE  /\ EmptyAfter(t) /\ threads[t] = Idle
           /\ threads'[t].op = op /\ threads'[t].want = want /\ threads'[t].end = Len(file)
           /\ threads'[t].pos = 1 /\ threads'[t].hits = Idle.hits
           /\ threads'[t].dead = {Rec(file, d).ref : d \in TombsIn(file)}
  <1> DEFINE r == [Idle EXCEPT !.op = op, !.n = statements', !.want = want, !.end = Len(file),
                               !.dead = {Rec(file, d).ref : d \in TombsIn(file)}]
  <1>1. threads[t] = Idle /\ threads' = [threads EXCEPT ![t] = r]
        /\ statements' \in 0..MaxStatements
    BY Facts DEF DmlOpen, Starts, Types
  <1>2. {Rec(file, d).ref : d \in TombsIn(file)} \in SUBSET Nat
    BY TombsInFacts, RecordsFacts, RecordFields
  <1>3. want \in SUBSET Ids
    BY Facts DEF Types, Ids
  <1>4. r \in Thread
    BY <1>1, <1>2, <1>3, IdleFacts, FileFacts DEF Thread
  <1>5. /\ r.todo = <<>> /\ r.pending = <<>> /\ r.half = FALSE /\ r.op = op /\ r.want = want
        /\ r.end = Len(file) /\ r.pos = 1 /\ r.hits = Idle.hits
        /\ r.dead = {Rec(file, d).ref : d \in TombsIn(file)}
    BY IdleFacts DEF Idle
  <1> HIDE DEF r
  <1>6. EmptyAfter(t) /\ threads'[t] = r
    BY <1>1, <1>4, <1>5, EmptyDoes
  <1> QED  BY <1>1, <1>5, <1>6

LEMMA StopDoes ==
    ASSUME Types, NEW t \in Threads, IngestDone(t) \/ DmlDone(t) \/ ReadDone(t)
    PROVE  EmptyAfter(t) /\ threads'[t] = Idle
  <1>1. threads' = [threads EXCEPT ![t] = Idle]
    BY DEF IngestDone, DmlDone, ReadDone
  <1> QED  BY <1>1, IdleFacts, EmptyDoes

LEMMA ReadTombstonesDoes ==
    ASSUME Types, NEW t \in Threads, ReadTombstones(t)
    PROVE  /\ EmptyAfter(t) /\ threads[t] = Idle
           /\ threads'[t].op = "read" /\ threads'[t].dead = TombsIn(file)
           /\ threads'[t].hits = Idle.hits
  <1> DEFINE r == [Idle EXCEPT !.op = "read", !.dead = TombsIn(file)]
  <1>1. threads[t] = Idle /\ threads' = [threads EXCEPT ![t] = r]
    BY DEF ReadTombstones, Starts
  <1>2. TombsIn(file) \in SUBSET Nat
    BY TombsInFacts
  <1>3. r \in Thread
    BY <1>2, IdleFacts DEF Thread
  <1>4. r.todo = <<>> /\ r.pending = <<>> /\ r.half = FALSE /\ r.op = "read"
        /\ r.dead = TombsIn(file)
        /\ r.hits = Idle.hits
    BY IdleFacts DEF Idle
  <1> HIDE DEF r
  <1> QED  BY <1>1, <1>3, <1>4, EmptyDoes

LEMMA ReadRowsDoes ==
    ASSUME Types, NEW t \in Threads, ReadRows(t)
    PROVE  /\ EmptyAfter(t) /\ threads[t].op = "read" /\ threads'[t].op = "result"
           /\ \A id \in Ids : threads'[t].hits[id] = Times(Yield(file, threads[t].dead), id)
  <1> DEFINE D == threads[t].dead
             h == [id \in Ids |-> Times(Yield(file, D), id)]
             r == [Idle EXCEPT !.op = "result", !.hits = h]
  <1>1. threads[t].op = "read" /\ threads' = [threads EXCEPT ![t] = r]
    BY DEF ReadRows
  <1>2. h \in [Ids -> Nat]
    BY ThreadFields, YieldInAll, TimesFacts
  <1> HIDE DEF h
  <1>3. r \in Thread
    BY <1>2, IdleFacts DEF Thread
  <1>4. r.todo = <<>> /\ r.pending = <<>> /\ r.half = FALSE /\ r.op = "result" /\ r.hits = h
    BY IdleFacts DEF Idle
  <1> HIDE DEF r
  <1>5. EmptyAfter(t) /\ threads'[t] = r
    BY <1>1, <1>3, <1>4, EmptyDoes
  <1> QED  BY <1>1, <1>4, <1>5 DEF h

(* The record a DML acts on: the first that matches.                         *)
LEMMA FirstMatchFacts ==
    ASSUME Types, NEW t \in Threads, NEW i \in FirstMatch(threads[t])
    PROVE  /\ i \in RowsIn(file) /\ i \in Nat /\ i >= threads[t].pos /\ i <= threads[t].end
           /\ i \notin threads[t].dead
           /\ IdsOf(Rec(file, i).rows) \intersect threads[t].want # {}
           /\ Rec(file, i) \in LogRec /\ Walked(Rec(file, i))
  BY RowsInFacts, RecordsFacts DEF FirstMatch, Matches, Selected

LEMMA HitFacts ==
    ASSUME Types, NEW t \in Threads, NEW ids
    PROVE  /\ Hit(threads[t], ids) \in [Ids -> Nat]
           /\ \A id \in Ids : Hit(threads[t], ids)[id] =
                threads[t].hits[id] + IF id \in ids \intersect threads[t].want THEN 1 ELSE 0
  BY ThreadFields DEF Hit

LEMMA ConsFacts ==
    ASSUME NEW s \in Seq(LogRec), NEW x \in LogRec
    PROVE  /\ Len(<<x>> \o s) = Len(s) + 1 /\ (<<x>> \o s)[1] = x /\ Len(s) \in Nat
           /\ \A k \in 1..Len(s) : (<<x>> \o s)[k + 1] = s[k]
  <1>1. <<x>> \in Seq(LogRec) /\ Len(<<x>>) = 1 /\ <<x>>[1] = x /\ Len(s) \in Nat
    BY LenProperties
  <1>2. /\ Len(<<x>> \o s) = 1 + Len(s)
        /\ \A k \in 1..(1 + Len(s)) : (<<x>> \o s)[k] = IF k <= 1 THEN <<x>>[k] ELSE s[k - 1]
    BY <1>1, ConcatProperties
  <1>3. \A k \in 1..Len(s) : k + 1 \in 1..(1 + Len(s)) /\ ~(k + 1 <= 1) /\ k + 1 - 1 = k
    BY <1>1
  <1>4. 1 \in 1..(1 + Len(s)) /\ 1 <= 1
    BY <1>1
  <1> QED  BY <1>1, <1>2, <1>3, <1>4

(* The tombstone of a row record.                                            *)
Tombstoned(t, i, tomb) ==
    /\ threads[t].op \in Dmls /\ threads[t].todo = <<>>
    /\ Rec(file, i).op = "row" /\ Rec(file, i).rows[1].id \in threads[t].want
    /\ Typed /\ Others(t)
    /\ Len(Queue(t)') = Len(Queue(t)) + 1 /\ Queue(t)'[1] = tomb
    /\ \A k \in 1..Len(Queue(t)) : Queue(t)'[k + 1] = Queue(t)[k]
    /\ threads'[t].todo = <<tomb>> /\ threads'[t].todo # <<>>
    /\ threads'[t].pending = threads[t].pending
    /\ threads'[t].op = threads[t].op /\ threads'[t].half = threads[t].half
    /\ threads'[t].want = threads[t].want /\ threads'[t].dead = threads[t].dead
    /\ threads'[t].end = threads[t].end /\ threads'[t].pos = i + 2
    /\ threads'[t].hits = Hit(threads[t], {Rec(file, i).rows[1].id})
    /\ gone' = IF threads[t].op = "delete" THEN gone \union {Rec(file, i).rows[1].id} ELSE gone
    /\ tomb.ref = i /\ tomb.op = threads[t].op
    /\ tomb.op = "update" => tomb.rows[1].id = Rec(file, i).rows[1].id
    /\ tomb.rows = IF tomb.op = "delete" THEN <<>>
                   ELSE <<[Printed(Rec(file, i).rows[1]) EXCEPT !.v = threads[t].n]>>
    /\ threads'[t].n = threads[t].n
    /\ tables_mu = NoThread /\ tables_mu' = t

LEMMA DmlRowDoes ==
    ASSUME Types, NEW t \in Threads, DmlRow(t)
    PROVE  \E i \in FirstMatch(threads[t]), tomb \in LogRec : Tombstoned(t, i, tomb)
  <1> DEFINE c == threads[t]
  <1>1. PICK i \in FirstMatch(c) :
          /\ Scanning(t) /\ Rec(file, i).op = "row" /\ tables_mu = NoThread /\ tables_mu' = t
          /\ threads' = [threads EXCEPT ![t] = [c EXCEPT !.pos = i + 2,
                !.hits = Hit(c, {Rec(file, i).rows[1].id}),
                !.todo = IF c.op = "delete" THEN <<DeleteRec(i)>>
                         ELSE <<UpdateRec(i, Remade(c, Rec(file, i).rows[1])[1])>>]]
          /\ Goes(c, {Rec(file, i).rows[1].id})
    BY Zenon DEF DmlRow
  <1> DEFINE row == Rec(file, i).rows[1]
             tomb == IF c.op = "delete" THEN DeleteRec(i) ELSE UpdateRec(i, Remade(c, row)[1])
             h == Hit(c, {row.id})
             r == [c EXCEPT !.pos = i + 2, !.hits = h, !.todo = <<tomb>>]
  <1>2. i \in Nat /\ i \in RowsIn(file) /\ row \in Row /\ row.id \in c.want /\ row.id \in Ids
        /\ IdsOf(Rec(file, i).rows) = {row.id}
    <2>1. i \in RowsIn(file) /\ i \in Nat /\ IdsOf(Rec(file, i).rows) \intersect c.want # {}
          /\ Rec(file, i) \in LogRec
      BY <1>1, FirstMatchFacts
    <2>2. row \in Row /\ IdsOf(Rec(file, i).rows) = {row.id}
      BY <1>1, <2>1, RecordFields
    <2> QED  BY <2>1, <2>2 DEF Row
  <1>3. c.op \in Dmls /\ c.todo = <<>>
    BY <1>1 DEF Scanning
  <1>4. tomb \in LogRec /\ tomb.ref = i /\ tomb.op = c.op
        /\ (tomb.op = "update" => tomb.rows[1].id = row.id)
        /\ tomb.rows = IF tomb.op = "delete" THEN <<>> ELSE <<[Printed(row) EXCEPT !.v = c.n]>>
    <2>1. CASE c.op = "delete"
      <3>1. <<>> \in Seq(Row)
        BY EmptySeq
      <3> HIDE DEF row
      <3> QED  BY <1>2, <2>1, <3>1 DEF DeleteRec, LogRec, LogRecord, Tombstones
    <2>2. CASE c.op # "delete"
      <3> DEFINE x == Remade(c, row)
      <3>1. x \in Seq(Row) /\ Len(x) = 1 /\ x[1].id = row.id
        BY <1>2, <2>2, RemadeIsShort, ThreadFields
      <3>2. 1 \in 1..Len(x)
        BY <3>1
      <3>3. x[1] \in Row
        <4> HIDE DEF x
        <4> QED  BY <3>1, <3>2, ElementOfSeq
      <3> HIDE DEF row, x
      <3>4. UpdateRec(i, x[1]) \in LogRec /\ UpdateRec(i, x[1]).ref = i
            /\ UpdateRec(i, x[1]).op = "update" /\ UpdateRec(i, x[1]).rows = <<x[1]>>
        BY <1>2, <3>3 DEF UpdateRec, LogRec, LogRecord, Tombstones
      <3>5. <<x[1]>>[1] = x[1] /\ c.op = "update"
        BY <1>3, <2>2 DEF Dmls
      <3>6. x[1] = [Printed(row) EXCEPT !.v = c.n]
        BY <1>2, <3>5 DEF x, Remade
      <3>7. tomb = UpdateRec(i, x[1])
        BY <2>2 DEF x
      <3> HIDE DEF tomb
      <3> QED  BY <3>1, <3>4, <3>5, <3>6, <3>7
    <2> QED  BY <2>1, <2>2
  <1>5. threads' = [threads EXCEPT ![t] = r]
    <2>1. <<tomb>> =
          IF c.op = "delete" THEN <<DeleteRec(i)>> ELSE <<UpdateRec(i, Remade(c, row)[1])>>
      OBVIOUS
    <2> QED  BY <1>1, <2>1, Zenon
  <1>6. h \in [Ids -> Nat]
    BY HitFacts
  <1> HIDE DEF tomb, h
  <1>7. <<tomb>> \in Seq(LogRec) /\ Len(<<tomb>>) = 1 /\ <<tomb>> # <<>>
    BY <1>4
  <1>8. r \in Thread
    <2>1. c \in Thread /\ i + 2 \in Nat
      BY <1>2, ThreadFields
    <2> HIDE DEF c
    <2> QED  BY <1>6, <1>7, <2>1 DEF Thread
  <1>9. /\ r.todo = <<tomb>> /\ r.pending = c.pending /\ r.op = c.op /\ r.half = c.half
        /\ r.want = c.want /\ r.dead = c.dead /\ r.end = c.end /\ r.pos = i + 2 /\ r.hits = h
        /\ r.n = c.n
    BY ThreadFields DEF Thread
  <1> HIDE DEF r
  <1>10. threads' \in [Threads -> Thread]
        /\ \A u \in Threads : threads'[u] = IF u = t THEN r ELSE threads[u]
    BY <1>5, <1>8, ThreadSet
  <1>11. Queue(t)' = <<tomb>> \o c.pending /\ Queue(t) = c.pending /\ c.pending \in Seq(LogRec)
    BY <1>3, <1>9, <1>10, QueueFacts, ThreadFields DEF Queue
  <1>12. /\ Len(Queue(t)') = Len(Queue(t)) + 1 /\ Queue(t)'[1] = tomb
         /\ \A k \in 1..Len(Queue(t)) : Queue(t)'[k + 1] = Queue(t)[k]
    BY <1>4, <1>11, ConsFacts
  <1>13. Typed /\ Others(t)
    BY <1>10 DEF Typed, Others, Queue
  <1>14. gone' = IF c.op = "delete" THEN gone \union {row.id} ELSE gone
    BY <1>1, <1>2 DEF Goes
  <1>15. Tombstoned(t, i, tomb)
    BY <1>1, <1>2, <1>3, <1>4, <1>7, <1>9, <1>10, <1>12, <1>13, <1>14 DEF h, Tombstoned
  <1> QED  BY <1>1, <1>4, <1>15

LEMMA SandwichFacts ==
    ASSUME NEW s \in Seq(LogRec), NEW x \in LogRec, NEW w \in Seq(LogRec)
    PROVE  /\ s \o <<x>> \o w \in Seq(LogRec) /\ Len(s) \in Nat /\ Len(w) \in Nat
           /\ Len(s \o <<x>> \o w) = Len(s) + 1 + Len(w)
           /\ \A k \in 1..Len(s) : (s \o <<x>> \o w)[k] = s[k]
           /\ (s \o <<x>> \o w)[Len(s) + 1] = x
           /\ \A k \in 1..Len(w) : (s \o <<x>> \o w)[Len(s) + 1 + k] = w[k]
  <1> DEFINE b == s \o <<x>>
             L == Len(s)
             M == Len(w)
  <1>1. <<x>> \in Seq(LogRec) /\ Len(<<x>>) = 1 /\ <<x>>[1] = x /\ L \in Nat /\ M \in Nat
    BY LenProperties
  <1>2. /\ b \in Seq(LogRec) /\ Len(b) = L + 1
        /\ \A k \in 1..(L + 1) : b[k] = IF k <= L THEN s[k] ELSE <<x>>[k - L]
    BY <1>1, ConcatProperties
  <1>3. /\ b \o w \in Seq(LogRec) /\ Len(b \o w) = L + 1 + M
        /\ \A k \in 1..(L + 1 + M) : (b \o w)[k] = IF k <= L + 1 THEN b[k] ELSE w[k - (L + 1)]
    <2> HIDE DEF b, L, M
    <2>1. /\ b \o w \in Seq(LogRec) /\ Len(b \o w) = Len(b) + Len(w)
          /\ \A k \in 1..(Len(b) + Len(w)) : (b \o w)[k] =
             IF k <= Len(b) THEN b[k] ELSE w[k - Len(b)]
      BY <1>2, ConcatProperties
    <2>2. Len(b) = L + 1 /\ Len(w) = M
      BY <1>2 DEF M
    <2> QED  BY <2>1, <2>2
  <1> HIDE DEF b, L, M
  <1>4. ASSUME NEW k \in 1..L  PROVE (b \o w)[k] = s[k]
    <2>1. k \in 1..(L + 1) /\ k \in 1..(L + 1 + M) /\ k <= L /\ k <= L + 1
      BY <1>1
    <2> QED  BY <1>2, <1>3, <2>1
  <1>5. ASSUME NEW k, k = L + 1  PROVE (b \o w)[k] = x
    <2>1. k \in 1..(L + 1) /\ k \in 1..(L + 1 + M) /\ ~(k <= L) /\ k - L = 1 /\ k <= L + 1
      BY <1>1, <1>5
    <2>2. (b \o w)[k] = b[k]
      BY <1>3, <2>1
    <2>3. b[k] = <<x>>[k - L]
      BY <1>2, <2>1
    <2> QED  BY <1>1, <2>1, <2>2, <2>3
  <1>6. ASSUME NEW k \in 1..M, NEW m, m = L + 1 + k  PROVE (b \o w)[m] = w[k]
    <2>1. m \in 1..(L + 1 + M) /\ ~(m <= L + 1) /\ m - (L + 1) = k
      BY <1>1, <1>6
    <2>2. (b \o w)[m] = w[m - (L + 1)]
      BY <1>3, <2>1
    <2> QED  BY <2>1, <2>2
  <1> QED  BY <1>1, <1>3, <1>4, <1>5, <1>6 DEF b, L, M

(* The tombstone of a batch and its rows as they are now.                    *)
Survivors(t, i) == Remake(threads[t], Rec(file, i).rows)
Replaced(t, i) ==
    /\ threads[t].op \in Dmls /\ threads[t].todo = <<>>
    /\ Rec(file, i).op = "batch"
    /\ Typed /\ Others(t)
    /\ Survivors(t, i) \in Seq(LogRec)
    /\ FromRows(threads[t], Rec(file, i).rows, Survivors(t, i), Len(Rec(file, i).rows))
    /\ Len(Queue(t)') = Len(Queue(t)) + 1 + Len(Survivors(t, i))
    /\ \A k \in 1..Len(Queue(t)) : Queue(t)'[k] = Queue(t)[k]
    /\ Queue(t)'[Len(Queue(t)) + 1] = DeleteRec(i)
    /\ \A k \in 1..Len(Survivors(t, i)) : Queue(t)'[Len(Queue(t)) + 1 + k] = Survivors(t, i)[k]
    /\ threads'[t].todo = <<>>
    /\ threads'[t].op = threads[t].op /\ threads'[t].half = threads[t].half
    /\ threads'[t].want = threads[t].want /\ threads'[t].dead = threads[t].dead
    /\ threads'[t].end = threads[t].end /\ threads'[t].pos = i + 2
    /\ threads'[t].hits = Hit(threads[t], IdsOf(Rec(file, i).rows))
    /\ threads'[t].n = threads[t].n
    /\ gone \subseteq gone' /\ gone' \subseteq Ids

LEMMA DmlBatchDoes ==
    ASSUME Types, NEW t \in Threads, DmlBatch(t)
    PROVE  \E i \in FirstMatch(threads[t]) : Replaced(t, i)
  <1> DEFINE c == threads[t]
  <1>1. PICK i \in FirstMatch(c) :
          /\ Scanning(t) /\ Rec(file, i).op = "batch"
          /\ threads' = [threads EXCEPT ![t] = [c EXCEPT !.pos = i + 2,
                !.hits = Hit(c, IdsOf(Rec(file, i).rows)),
                !.pending = @ \o <<DeleteRec(i)>> \o Remake(c, Rec(file, i).rows)]]
          /\ Goes(c, IdsOf(Rec(file, i).rows))
    BY Zenon DEF DmlBatch
  <1> DEFINE rows == Rec(file, i).rows
             w == Remake(c, rows)
             d == DeleteRec(i)
             h == Hit(c, IdsOf(rows))
             p == c.pending \o <<d>> \o w
             r == [c EXCEPT !.pos = i + 2, !.hits = h, !.pending = p]
  <1>2. i \in Nat /\ rows \in Seq(Row) /\ IdsOf(rows) \subseteq Ids
    BY FirstMatchFacts, RecordFields
  <1>3. c.op \in Dmls /\ c.todo = <<>>
    BY <1>1 DEF Scanning
  <1>4. d \in LogRec
    <2>1. <<>> \in Seq(Row)
      BY EmptySeq
    <2> QED  BY <1>2, <2>1 DEF DeleteRec, LogRec, LogRecord, Tombstones
  <1>5. w \in Seq(LogRec) /\ FromRows(c, rows, w, Len(rows))
    BY <1>2, RemakeFacts, ThreadFields
  <1>6. h \in [Ids -> Nat]
    BY HitFacts
  <1>7. threads' = [threads EXCEPT ![t] = r]
    <2>1. r = [c EXCEPT !.pos = i + 2, !.hits = h, !.pending = @ \o <<d>> \o w]
      OBVIOUS
    <2> QED  BY <1>1, <2>1, Zenon
  <1> HIDE DEF w, d, h
  <1>8. /\ p \in Seq(LogRec) /\ Len(p) = Len(c.pending) + 1 + Len(w)
        /\ \A k \in 1..Len(c.pending) : p[k] = c.pending[k]
        /\ p[Len(c.pending) + 1] = d
        /\ \A k \in 1..Len(w) : p[Len(c.pending) + 1 + k] = w[k]
    <2>1. c.pending \in Seq(LogRec)
      BY ThreadFields
    <2>2. PICK s : s = c.pending
      OBVIOUS
    <2>3. s \in Seq(LogRec) /\ w \in Seq(LogRec)
      BY <1>5, <2>1, <2>2
    <2>4. /\ s \o <<d>> \o w \in Seq(LogRec)
          /\ Len(s \o <<d>> \o w) = Len(s) + 1 + Len(w)
          /\ \A k \in 1..Len(s) : (s \o <<d>> \o w)[k] = s[k]
          /\ (s \o <<d>> \o w)[Len(s) + 1] = d
          /\ \A k \in 1..Len(w) : (s \o <<d>> \o w)[Len(s) + 1 + k] = w[k]
      BY <1>4, <2>3, SandwichFacts
    <2> QED  BY <2>2, <2>4, Zenon
  <1> HIDE DEF p
  <1>9. r \in Thread
    <2>1. c \in Thread /\ i + 2 \in Nat
      BY <1>2, ThreadFields
    <2> HIDE DEF c
    <2> QED  BY <1>6, <1>8, <2>1 DEF Thread
  <1>10. /\ r.todo = <<>> /\ r.pending = p /\ r.op = c.op /\ r.half = c.half
         /\ r.want = c.want /\ r.dead = c.dead /\ r.end = c.end /\ r.pos = i + 2 /\ r.hits = h
         /\ r.n = c.n
    BY <1>3, ThreadFields DEF Thread
  <1> HIDE DEF r
  <1>11. threads' \in [Threads -> Thread]
        /\ \A u \in Threads : threads'[u] = IF u = t THEN r ELSE threads[u]
    BY <1>7, <1>9, ThreadSet
  <1>12. Queue(t)' = p /\ Queue(t) = c.pending
    <2>1. Queue(t)' = <<>> \o p
      BY <1>10, <1>11 DEF Queue
    <2> QED  BY <1>3, <1>8, <2>1, ConcatEmptySeq, QueueFacts
  <1>13. Typed /\ Others(t)
    BY <1>11 DEF Typed, Others, Queue
  <1>14. gone \subseteq gone' /\ gone' \subseteq Ids
    BY <1>1, <1>2 DEF Goes, Types
  <1>15. Replaced(t, i)
    BY <1>1, <1>3, <1>5, <1>8, <1>10, <1>11, <1>12, <1>13, <1>14 DEF Replaced, Survivors, w, d, h
  <1> QED  BY <1>1, <1>15

LEMMA DmlFlushDoes ==
    ASSUME Types, NEW t \in Threads, DmlFlush(t)
    PROVE  /\ Typed /\ Others(t) /\ Queue(t)' = Queue(t)
           /\ threads[t].op \in Dmls /\ threads[t].todo = <<>> /\ Matches(threads[t]) = {}
           /\ threads'[t].todo = threads[t].pending /\ threads'[t].todo # <<>>
           /\ threads'[t].pending = <<>>
           /\ threads'[t].op = threads[t].op /\ threads'[t].half = threads[t].half
           /\ threads'[t].want = threads[t].want /\ threads'[t].dead = threads[t].dead
           /\ threads'[t].end = threads[t].end /\ threads'[t].pos = threads[t].end + 1
           /\ threads'[t].hits = threads[t].hits /\ threads'[t].n = threads[t].n
           /\ tables_mu = NoThread /\ tables_mu' = t
  <1> DEFINE c == threads[t]
             r == [c EXCEPT !.pos = c.end + 1, !.todo = c.pending, !.pending = <<>>]
  <1>1. /\ c.op \in Dmls /\ c.todo = <<>> /\ c.pending # <<>> /\ Matches(c) = {}
        /\ threads' = [threads EXCEPT ![t] = r] /\ tables_mu = NoThread /\ tables_mu' = t
    BY DEF DmlFlush, Scanning
  <1>2. <<>> \in Seq(LogRec) /\ c.end + 1 \in Nat /\ c \in Thread
    BY EmptySeq, ThreadFields
  <1>3. r \in Thread
    <2> HIDE DEF c
    <2> QED  BY <1>2 DEF Thread
  <1>4. /\ r.todo = c.pending /\ r.pending = <<>> /\ r.op = c.op /\ r.half = c.half
        /\ r.want = c.want /\ r.dead = c.dead /\ r.end = c.end /\ r.pos = c.end + 1
        /\ r.hits = c.hits /\ r.n = c.n
    BY <1>2 DEF Thread
  <1> HIDE DEF r
  <1>5. threads' \in [Threads -> Thread]
        /\ \A u \in Threads : threads'[u] = IF u = t THEN r ELSE threads[u]
    BY <1>1, <1>3, ThreadSet
  <1>6. Queue(t)' = Queue(t)
    <2>1. Queue(t)' = c.pending \o <<>> /\ Queue(t) = c.pending /\ c.pending \in Seq(LogRec)
      BY <1>1, <1>4, <1>5, QueueFacts, ThreadFields DEF Queue
    <2> QED  BY <2>1, ConcatEmptySeq
  <1> QED  BY <1>1, <1>4, <1>5, <1>6 DEF Typed, Others, Queue

LEMMA CrashDoes ==
    ASSUME Types, NEW n \in synced..Len(file), Crash(n)
    PROVE  /\ n \in Nat /\ n <= Len(file) /\ synced <= n /\ synced' = n
           /\ file' \in Seq(Part) /\ Len(file') = n /\ \A j \in 1..n : file'[j] = file[j]
           /\ Typed /\ tables_mu' = NoThread
           /\ \A t \in Threads : threads'[t] = Idle /\ Queue(t)' = <<>>
           /\ UNCHANGED <<build, nrows, statements, history>>
  <1>1. /\ n \in Nat /\ n <= Len(file) /\ file' \in Seq(Part) /\ Len(file') = n
        /\ \A j \in 1..n : file'[j] = file[j]
    BY FileCut DEF Crash
  <1>2. Typed /\ \A t \in Threads : threads'[t] = Idle
    BY IdleFacts DEF Crash, Typed
  <1>3. \A t \in Threads : Queue(t)' = <<>>
    <2>1. <<>> \o <<>> = <<>>
      BY EmptySeq, ConcatEmptySeq
    <2> QED  BY <1>2, <2>1, IdleFacts DEF Queue
  <1>4. synced <= n
    BY FileFacts DEF Types
  <1> QED  BY <1>1, <1>2, <1>3, <1>4 DEF Crash

-----------------------------------------------------------------------------
(* Types and shapes                                                          *)

LEMMA InitTypes == Init => Types
  <1> SUFFICES ASSUME Init PROVE Types
    OBVIOUS
  <1>1. file \in Seq(Part) /\ Len(file) = 0
    BY EmptySeq DEF Init
  <1>2. threads \in [Threads -> Thread]
    BY IdleFacts DEF Init
  <1>3. answers \in [Ids -> Values]
    BY DEF Init, Values
  <1>4. synced \in 0..Len(file)
    BY <1>1 DEF Init
  <1>5. nrows \in 0..MaxRows /\ statements \in 0..MaxStatements /\ crashes \in 0..MaxCrashes
    BY Facts DEF Init
  <1>6. build \in {"debug", "release"} /\ tables_mu \in Threads \union {NoThread}
    BY DEF Init
  <1>7. acked \subseteq Ids /\ gone \subseteq Ids /\ raced \in BOOLEAN
    BY DEF Init
  <1> QED  BY <1>1, <1>2, <1>3, <1>4, <1>5, <1>6, <1>7 DEF Types

LEMMA TypesStep ==
    ASSUME Types, Shaped, Next
    PROVE  Types'
  <1>0. /\ build \in {"debug", "release"} /\ file \in Seq(Part) /\ synced \in 0..Len(file)
        /\ Len(file) \in Nat
        /\ tables_mu \in Threads \union {NoThread} /\ nrows \in 0..MaxRows
        /\ statements \in 0..MaxStatements /\ crashes \in 0..MaxCrashes
        /\ acked \subseteq Ids /\ gone \subseteq Ids /\ answers \in [Ids -> Values]
           /\ raced \in BOOLEAN
    BY FileFacts DEF Types
  <1>1. ASSUME NEW t \in Threads, NEW n \in 1..MaxPerIngest, Ingest(t, n)  PROVE Types'
    <2>0. Typed /\ n \in Nat /\ nrows' = nrows + n /\ nrows + n <= MaxRows
      BY <1>1, IngestDoes
    <2>1. Typed /\ nrows' \in 0..MaxRows
      BY <1>0, <2>0, Facts
    <2>2. statements' \in 0..MaxStatements
      BY <1>0, <1>1, Facts DEF Ingest, Starts
    <2>3. answers' \in [Ids -> Values]
      BY <1>0, <1>1, Facts DEF Ingest, Values
    <2> QED  BY <1>0, <1>1, <2>1, <2>2, <2>3 DEF Types, Typed, Ingest
  <1>2. ASSUME NEW t \in Threads, NEW op \in Dmls, NEW want \in SUBSET (1..nrows) \ {{}},
               DmlOpen(t, op, want)
        PROVE  Types'
    <2>1. Typed
      BY <1>2, DmlOpenDoes DEF EmptyAfter
    <2>2. statements' \in 0..MaxStatements
      BY <1>0, <1>2, Facts DEF DmlOpen, Starts
    <2>3. raced' \in BOOLEAN
      BY <1>0, <1>2 DEF DmlOpen
    <2> QED  BY <1>0, <1>2, <2>1, <2>2, <2>3 DEF Types, Typed, DmlOpen
  <1>3. ASSUME NEW t \in Threads, WriteLength(t)  PROVE Types'
    <2>1. Typed /\ file' \in Seq(Part) /\ Len(file') = Len(file) + 1
      BY <1>3, WriteLengthDoes DEF Grown
    <2>2. synced \in 0..Len(file')
      BY <1>0, <2>1
    <2> QED  BY <1>0, <1>3, <2>1, <2>2 DEF Types, Typed, WriteLength, control, history
  <1>4. ASSUME NEW t \in Threads, WriteData(t)  PROVE Types'
    <2>1. Typed /\ file' \in Seq(Part) /\ Len(file') = Len(file) + 1
      BY <1>4, WriteDataDoes DEF Grown
    <2>2. synced \in 0..Len(file')
      BY <1>0, <2>1
    <2>3. tables_mu' \in Threads \union {NoThread}
      BY <1>0, <1>4 DEF WriteData, MuAfterWrite
    <2> QED  BY <1>0, <1>4, <2>1, <2>2, <2>3 DEF Types, Typed, WriteData, control, history
  <1>5. ASSUME NEW t \in Threads, IngestDone(t)  PROVE Types'
    <2>1. Typed
      BY <1>5, StopDoes DEF EmptyAfter
    <2>2. acked' \subseteq Ids
      BY <1>0, <1>5, ThreadFields DEF IngestDone
    <2>3. file' = file /\ synced' = Len(file) /\ synced' \in 0..Len(file')
      BY <1>0, <1>5 DEF IngestDone, WalSync
    <2> QED  BY <1>0, <1>5, <2>1, <2>2, <2>3 DEF Types, Typed, IngestDone, control
  <1>6. ASSUME NEW t \in Threads, DmlRow(t)  PROVE Types'
    <2>1. PICK i \in FirstMatch(threads[t]), tomb \in LogRec : Tombstoned(t, i, tomb)
      BY <1>6, DmlRowDoes
    <2>2. Typed /\ tables_mu' = t
      BY <2>1 DEF Tombstoned
    <2>3. gone' \subseteq Ids
      BY <1>0, <2>1, ThreadFields DEF Tombstoned
    <2> QED  BY <1>0, <1>6, <2>2, <2>3 DEF Types, Typed, DmlRow, control
  <1>7. ASSUME NEW t \in Threads, DmlBatch(t)  PROVE Types'
    <2>1. Typed /\ gone' \subseteq Ids
      BY <1>7, DmlBatchDoes DEF Replaced
    <2> QED  BY <1>0, <1>7, <2>1 DEF Types, Typed, DmlBatch, control
  <1>8. ASSUME NEW t \in Threads, DmlFlush(t)  PROVE Types'
    <2>1. Typed /\ tables_mu' = t
      BY <1>8, DmlFlushDoes
    <2> QED  BY <1>0, <1>8, <2>1 DEF Types, Typed, DmlFlush, control, history
  <1>9. ASSUME NEW t \in Threads, DmlDone(t)  PROVE Types'
    <2>1. Typed
      BY <1>9, StopDoes DEF EmptyAfter
    <2>2. answers' \in [Ids -> Values]
      <3>1. threads[t].n \in Values /\ Absent \in Values
        BY ThreadFields DEF Values
      <3> QED  BY <1>0, <1>9, <3>1 DEF DmlDone
    <2> QED  BY <1>0, <1>9, <2>1, <2>2 DEF Types, Typed, DmlDone, control
  <1>10. ASSUME NEW t \in Threads, ReadStep(t)  PROVE Types'
    <2>1. Typed
      BY <1>10, StopDoes, ReadTombstonesDoes, ReadRowsDoes DEF ReadStep, EmptyAfter
    <2>2. statements' \in 0..MaxStatements
      BY <1>0, <1>10, Facts DEF ReadStep, ReadTombstones, ReadRows, ReadDone, Starts, control
    <2> QED  BY <1>0, <1>10, <2>1, <2>2
             DEF Types, Typed, ReadStep, ReadTombstones, ReadRows, ReadDone, control, history
  <1>11. ASSUME NEW n \in synced..Len(file), Crash(n)  PROVE Types'
    <2>1. /\ Typed /\ file' \in Seq(Part) /\ Len(file') = n /\ n \in Nat /\ synced' = n
          /\ tables_mu' = NoThread /\ UNCHANGED <<build, nrows, statements, history>>
      BY <1>11, CrashDoes
    <2>2. crashes' \in 0..MaxCrashes /\ synced' \in 0..Len(file')
      BY <1>0, <1>11, <2>1, Facts DEF Crash
    <2> QED  BY <1>0, <2>1, <2>2 DEF Types, Typed, history
  <1> QED  BY <1>1, <1>2, <1>3, <1>4, <1>5, <1>6, <1>7, <1>8, <1>9, <1>10, <1>11, NextCases

LEMMA InitShaped == Init => Shaped
  <1> SUFFICES ASSUME Init PROVE Shaped
    OBVIOUS
  <1>1. \A t \in Threads : threads[t] = Idle
    BY DEF Init
  <1>2. \A t \in Threads : Queue(t) = <<>> /\ Len(Queue(t)) = 0
    BY <1>1, InitTypes, QueueFacts, IdleFacts, EmptySeq
  <1>3. \A t \in Threads : Shape(t)
    BY <1>1, <1>2, IdleFacts DEF Shape, Isdml, Dmls
  <1> QED  BY <1>3 DEF Init, Shaped, Held

LEMMA OthersShaped ==
    ASSUME Shaped, NEW t \in Threads, Others(t), build' = build,
           Shape(t)', Held'
    PROVE  Shaped'
  <1>1. ASSUME NEW u \in Threads \ {t}  PROVE Shape(u)'
    <2>1. threads'[u] = threads[u] /\ Queue(u)' = Queue(u) /\ Shape(u)
      BY <1>1 DEF Others, Shaped
    <2> QED  BY <2>1 DEF Shape, Isdml
  <1> QED  BY <1>1 DEF Shaped

(* tables_mu stays with another statement, or with none.                     *)
LEMMA HeldStays ==
    ASSUME Shaped, NEW t \in Threads, Others(t), tables_mu' = tables_mu,
           threads[t].todo = <<>> \/ ~Isdml(t) \/ (threads'[t].op = threads[t].op
              /\ threads'[t].todo # <<>>),
           tables_mu \in Threads \union {NoThread}
    PROVE  Held'
  BY DEF Shaped, Held, Others, Isdml

LEMMA EmptyShaped ==
    ASSUME Types, Shaped, NEW t \in Threads, EmptyAfter(t), build' = build, tables_mu' = tables_mu,
           threads[t].todo = <<>>
    PROVE  Shaped'
  <1>1. Others(t) /\ Len(Queue(t)') = 0
    BY EmptySeq DEF EmptyAfter
  <1>2. Held'
    <2>1. tables_mu \in Threads \union {NoThread}
      BY DEF Types
    <2> QED  BY <1>1, <2>1, HeldStays
  <1>3. Shape(t)'
    BY <1>1 DEF Shape, EmptyAfter
  <1> QED  BY <1>1, <1>2, <1>3, OthersShaped

LEMMA ShapedStep ==
    ASSUME Types, Shaped, Next,
           build = "debug" => \A i \in RowsIn(file) : Rec(file, i).op \notin Batches
    PROVE  Shaped'
  <1>1. ASSUME NEW t \in Threads, NEW n \in 1..MaxPerIngest, Ingest(t, n)  PROVE Shaped'
    <2>1. /\ Others(t) /\ threads[t] = Idle /\ threads'[t].op = "ingest" /\ threads'[t].half = FALSE
          /\ threads'[t].todo # <<>> /\ threads'[t].pending = <<>>
      BY <1>1, IngestDoes
    <2>1a. NewRows(t, n)
      BY <1>1, IngestDoes
    <2>2. build' = build /\ tables_mu' = tables_mu /\ build \in {"debug", "release"}
      BY <1>1 DEF Ingest, Types
    <2>3. Held'
      BY <2>1, <2>2, IdleFacts, HeldStays DEF Types
    <2>4. "ingest" \notin Dmls /\ RowOps = {"row"} \union Batches
      BY DEF Dmls, RowOps
    <2>5. \A k \in 1..Len(Queue(t)') : Queue(t)'[k].op \in RowOps
          /\ (build = "debug" => Queue(t)'[k].op = "row")
      BY <2>1a, <2>2, <2>4 DEF NewRows
    <2>6. Shape(t)'
      BY <2>1, <2>2, <2>4, <2>5 DEF Shape, Isdml
    <2> QED  BY <2>1, <2>2, <2>3, <2>6, OthersShaped
  <1>2. ASSUME NEW t \in Threads, NEW op \in Dmls, NEW want \in SUBSET (1..nrows) \ {{}},
               DmlOpen(t, op, want)
        PROVE  Shaped'
    <2>1. EmptyAfter(t) /\ threads[t] = Idle
      BY <1>2, DmlOpenDoes
    <2>2. build' = build /\ tables_mu' = tables_mu
      BY <1>2 DEF DmlOpen
    <2> QED  BY <2>1, <2>2, IdleFacts, EmptyShaped
  <1>3. ASSUME NEW t \in Threads, WriteLength(t)  PROVE Shaped'
    <2>1. /\ Others(t) /\ Queue(t)' = Queue(t) /\ threads[t].todo # <<>>
          /\ threads'[t] = [threads[t] EXCEPT !.half = TRUE]
      BY <1>3, WriteLengthDoes
    <2>2. /\ threads'[t].op = threads[t].op /\ threads'[t].todo = threads[t].todo
          /\ threads'[t].pending = threads[t].pending
      BY <2>1, ThreadFields DEF Thread
    <2>3. build' = build /\ tables_mu' = tables_mu
      BY <1>3 DEF WriteLength, control
    <2>4. Held'
      BY <2>1, <2>2, <2>3, HeldStays DEF Types
    <2>5. Shape(t)'
      <3>1. Shape(t)
        BY DEF Shaped
      <3> QED  BY <2>1, <2>2, <2>3, <3>1 DEF Shape, Isdml
    <2> QED  BY <2>1, <2>3, <2>4, <2>5, OthersShaped
  <1>4. ASSUME NEW t \in Threads, WriteData(t)  PROVE Shaped'
    <2>1. /\ Others(t) /\ Len(Queue(t)) \in Nat
          /\ Len(Queue(t)') = Len(Queue(t)) - 1
          /\ \A k \in 1..(Len(Queue(t)) - 1) : Queue(t)'[k] = Queue(t)[k + 1]
          /\ threads[t].op \in Dmls \union {"ingest"}
          /\ threads'[t] = [threads[t] EXCEPT !.half = FALSE, !.todo = Tail(@)]
          /\ Len(threads'[t].todo) = Len(threads[t].todo) - 1
      BY <1>4, WriteDataDoes
    <2>2. /\ threads'[t].op = threads[t].op /\ threads'[t].half = FALSE
          /\ threads'[t].pending = threads[t].pending
      BY <2>1, ThreadFields DEF Thread
    <2>3. build' = build /\ tables_mu' = MuAfterWrite(t)
      BY <1>4 DEF WriteData, control
    <2>4. Held'
      <3>1. CASE tables_mu = t
        <4>1. CASE Len(threads[t].todo) = 1
          BY <2>3, <3>1, <4>1 DEF MuAfterWrite, Held
        <4>2. CASE Len(threads[t].todo) # 1
          <5>1. Len(threads'[t].todo) # 0
            BY <2>1, <4>2, QueueFacts
          <5>2. threads'[t].todo # <<>>
            BY <5>1, EmptySeq
          <5> QED  BY <2>2, <2>3, <3>1, <4>2, <5>2 DEF Held, Shaped, MuAfterWrite, Isdml
        <4> QED  BY <4>1, <4>2
      <3>2. CASE tables_mu # t
        BY <2>1, <2>3, <3>2 DEF Held, Shaped, MuAfterWrite, Isdml, Others, Types
      <3> QED  BY <3>1, <3>2
    <2>5. Shape(t)'
      <3>1. Shape(t)
        BY DEF Shaped
      <3>2. \A k \in 1..Len(Queue(t)') : k + 1 \in 1..Len(Queue(t))
            /\ Queue(t)'[k] = Queue(t)[k + 1]
        BY <2>1
      <3> QED  BY <2>1, <2>2, <2>3, <3>1, <3>2 DEF Shape, Isdml
    <2> QED  BY <2>1, <2>3, <2>4, <2>5, OthersShaped
  <1>5. ASSUME NEW t \in Threads, IngestDone(t) \/ DmlDone(t) \/ ReadStep(t)  PROVE Shaped'
    <2>1. EmptyAfter(t)
      BY <1>5, StopDoes, ReadTombstonesDoes, ReadRowsDoes DEF ReadStep
    <2>2. build' = build /\ tables_mu' = tables_mu
      BY <1>5 DEF IngestDone, DmlDone, ReadStep, ReadTombstones, ReadRows, ReadDone, control
    <2>3. threads[t].todo = <<>>
      <3>1. IngestDone(t) \/ DmlDone(t) => threads[t].todo = <<>>
        BY DEF IngestDone, DmlDone, Scanning
      <3>2. ReadStep(t) => threads[t].op \notin Dmls \union {"ingest"}
        BY IdleFacts DEF ReadStep, ReadTombstones, ReadRows, ReadDone, Starts, Dmls
      <3> QED  BY <1>5, <3>1, <3>2 DEF Shaped, Shape
    <2> QED  BY <2>1, <2>2, <2>3, EmptyShaped
  <1>6. ASSUME NEW t \in Threads, DmlRow(t)  PROVE Shaped'
    <2>1. PICK i \in FirstMatch(threads[t]), tomb \in LogRec : Tombstoned(t, i, tomb)
      BY <1>6, DmlRowDoes
    <2>2. build' = build /\ tables_mu' = t
      BY <1>6, <2>1 DEF DmlRow, control, Tombstoned
    <2>3. Held'
      BY <2>1, <2>2 DEF Held, Tombstoned, Isdml
    <2>4. /\ threads'[t].op \in Dmls /\ "ingest" \notin Dmls /\ tomb.op \in Tombstones
          /\ Len(Queue(t)') = Len(Queue(t)) + 1 /\ Queue(t)'[1] = tomb
          /\ \A k \in 1..Len(Queue(t)) : Queue(t)'[k + 1] = Queue(t)[k]
          /\ threads'[t].op = threads[t].op /\ threads'[t].todo # <<>>
          /\ threads'[t].pending = threads[t].pending /\ Len(Queue(t)) \in Nat
      BY <2>1, QueueFacts DEF Tombstoned, Dmls, Tombstones
    <2>5. Shape(t)'
      <3>1. Shape(t)
        BY DEF Shaped
      <3>2. \A k \in 1..Len(Queue(t)') :
                k = 1 \/ \E m \in 1..Len(Queue(t)) : Queue(t)'[k] = Queue(t)[m]
        <4> TAKE k \in 1..Len(Queue(t)')
        <4>1. k = 1 \/ \E m \in 1..Len(Queue(t)) : m + 1 = k
          <5>1. k = 1 \/ (k - 1 \in 1..Len(Queue(t)) /\ (k - 1) + 1 = k)
            BY <2>4
          <5> QED  BY <5>1
        <4>2. \A m \in 1..Len(Queue(t)) : m + 1 = k => Queue(t)'[k] = Queue(t)[m]
          BY <2>4
        <4> QED  BY <4>1, <4>2
      <3>3. build = "debug" => \A k \in 1..Len(Queue(t)') : Queue(t)'[k].op \in Tombstones
        BY <2>4, <3>1, <3>2 DEF Shape, Isdml
      <3> QED  BY <2>2, <2>4, <3>1, <3>3 DEF Shape, Isdml
    <2> QED  BY <2>1, <2>2, <2>3, <2>5, OthersShaped DEF Tombstoned
  <1>7. ASSUME NEW t \in Threads, DmlBatch(t)  PROVE Shaped'
    <2>1. PICK i \in FirstMatch(threads[t]) : Replaced(t, i)
      BY <1>7, DmlBatchDoes
    <2>2. build' = build /\ tables_mu' = tables_mu
      BY <1>7 DEF DmlBatch, control
    <2>3. /\ threads'[t].op \in Dmls /\ threads[t].todo = <<>> /\ threads'[t].todo = <<>>
          /\ threads'[t].half = threads[t].half /\ Others(t) /\ Rec(file, i).op = "batch"
          /\ threads'[t].op = threads[t].op
      BY <2>1 DEF Replaced
    <2>4. build # "debug"
      BY <2>3, FirstMatchFacts DEF Batches
    <2>5. Held'
      <3>1. tables_mu \in Threads \union {NoThread}
        BY DEF Types
      <3> QED  BY <2>2, <2>3, <3>1, HeldStays
    <2>6. Shape(t)'
      <3>1. Shape(t) /\ "ingest" \notin Dmls
        BY DEF Shaped, Dmls
      <3> QED  BY <2>2, <2>3, <2>4, <3>1 DEF Shape, Isdml
    <2> QED  BY <2>2, <2>3, <2>5, <2>6, OthersShaped
  <1>8. ASSUME NEW t \in Threads, DmlFlush(t)  PROVE Shaped'
    <2>1. /\ Others(t) /\ Queue(t)' = Queue(t) /\ threads[t].op \in Dmls
          /\ threads'[t].todo # <<>> /\ threads'[t].pending = <<>>
          /\ threads'[t].op = threads[t].op /\ tables_mu' = t
      BY <1>8, DmlFlushDoes
    <2>2. build' = build
      BY <1>8 DEF DmlFlush, control
    <2>3. Held'
      BY <2>1 DEF Held, Isdml
    <2>4. Shape(t)'
      <3>1. Shape(t) /\ "ingest" \notin Dmls
        BY DEF Shaped, Dmls
      <3> QED  BY <2>1, <2>2, <3>1 DEF Shape, Isdml
    <2> QED  BY <2>1, <2>2, <2>3, <2>4, OthersShaped
  <1>9. ASSUME NEW n \in synced..Len(file), Crash(n)  PROVE Shaped'
    <2>1. /\ tables_mu' = NoThread /\ \A t \in Threads : threads'[t] = Idle /\ Queue(t)' = <<>>
      BY <1>9, CrashDoes
    <2>2. \A t \in Threads : Len(Queue(t)') = 0
      BY <2>1, EmptySeq
    <2>3. \A t \in Threads : Shape(t)'
      BY <2>1, <2>2, IdleFacts DEF Shape
    <2> QED  BY <2>1, <2>3 DEF Shaped, Held
  <1> QED  BY <1>1, <1>2, <1>3, <1>4, <1>5, <1>6, <1>7, <1>8, <1>9, NextCases

-----------------------------------------------------------------------------
(* Known and Fresh                                                           *)

LEMMA GrownWritten ==
    ASSUME Types, NEW x, Grown(x)
    PROVE  /\ \A j : Written(j)' <=> Written(j) \/ (j = Len(file) + 1 /\ x.part = "data")
           /\ \A j : Written(j) => file'[j] = file[j]
           /\ \A j, id : WrittenRow(j, id) => WrittenRow(j, id)'
           /\ \A j, id : WrittenRow(j, id)' =>
                WrittenRow(j, id) \/ (x.part = "data" /\ HasRow(x.rec, id))
  <1>1. /\ Len(file) \in Nat /\ Len(file') = Len(file) + 1 /\ file'[Len(file) + 1] = x
        /\ \A j \in 1..Len(file) : file'[j] = file[j]
    BY FileFacts DEF Grown
  <1>2. \A j : j \in 1..Len(file') <=> j \in 1..Len(file) \/ j = Len(file) + 1
    BY <1>1
  <1>3. \A j : Written(j)' <=> Written(j) \/ (j = Len(file) + 1 /\ x.part = "data")
    BY <1>1, <1>2 DEF Written
  <1>4. \A j : Written(j) => file'[j] = file[j]
    BY <1>1 DEF Written
  <1> QED  BY <1>1, <1>3, <1>4 DEF WrittenRow

LEMMA SameWritten ==
    ASSUME file' = file
    PROVE  /\ \A j : Written(j)' <=> Written(j)
           /\ \A j, id : WrittenRow(j, id)' <=> WrittenRow(j, id)
  BY DEF Written, WrittenRow

LEMMA OthersQueued ==
    ASSUME NEW t \in Threads, Others(t), NEW u \in Threads \ {t}
    PROVE  /\ \A k, id : QueuedRow(u, k, id)' <=> QueuedRow(u, k, id)
           /\ threads'[u] = threads[u] /\ Isdml(u)' = Isdml(u)
  BY DEF Others, QueuedRow, Isdml

LEMMA KnownAfter ==
    ASSUME Types, Known, NEW t \in Threads, Others(t), nrows' \in Nat, nrows <= nrows',
           \A j, id : WrittenRow(j, id) => WrittenRow(j, id)',
           \A j, id : WrittenRow(j, id)' => WrittenRow(j, id) \/ QueuedRow(t, 1, id),
           \A k, id : QueuedRow(t, k, id)' =>
                id \in 1..nrows' /\ (Isdml(t)' => \E j : WrittenRow(j, id)')
    PROVE  Known'
  <1>1. \A id : id \in 1..nrows => id \in 1..nrows'
    BY Facts DEF Types
  <1>2. \A j, id : WrittenRow(j, id)' => id \in 1..nrows'
    BY <1>1 DEF Known
  <1>3. ASSUME NEW u \in Threads, NEW k, NEW id, QueuedRow(u, k, id)'
        PROVE  id \in 1..nrows' /\ (Isdml(u)' => \E j : WrittenRow(j, id)')
    <2>1. CASE u = t
      BY <1>3, <2>1
    <2>2. CASE u # t
      <3>1. QueuedRow(u, k, id) /\ (Isdml(u)' => Isdml(u))
        BY <1>3, <2>2, OthersQueued
      <3> QED  BY <1>1, <3>1 DEF Known
    <2> QED  BY <2>1, <2>2
  <1> QED  BY <1>2, <1>3 DEF Known

LEMMA FreshAfter ==
    ASSUME Types, Shaped, Known, Fresh, NEW t \in Threads, Others(t),
           \A j, id : WrittenRow(j, id)' => WrittenRow(j, id) \/ QueuedRow(t, 1, id),
           ASSUME threads'[t].op = "ingest", NEW k, NEW id, QueuedRow(t, k, id)'
           PROVE  /\ \A j : ~WrittenRow(j, id)'
                  /\ \A m : QueuedRow(t, m, id)' => m = k
                  /\ \A u \in Threads \ {t} : \A m : QueuedRow(u, m, id) => threads[u].op # "ingest"
    PROVE  Fresh'
  <1>1. ASSUME NEW u \in Threads, NEW k, NEW id, QueuedRow(u, k, id)', threads'[u].op = "ingest"
        PROVE  /\ ~\E j : WrittenRow(j, id)'
               /\ \A v \in Threads : \A m :
                    QueuedRow(v, m, id)' /\ threads'[v].op = "ingest" => v = u /\ m = k
    <2>1. CASE u = t
      <3>1. ASSUME NEW v \in Threads, NEW m, QueuedRow(v, m, id)', threads'[v].op = "ingest"
            PROVE  v = u /\ m = k
        BY <1>1, <2>1, <3>1, OthersQueued
      <3> QED  BY <1>1, <2>1, <3>1
    <2>2. CASE u # t
      <3>1. QueuedRow(u, k, id) /\ threads[u].op = "ingest"
        BY <1>1, <2>2, OthersQueued
      <3>2. /\ ~\E j : WrittenRow(j, id)
            /\ \A v \in Threads : \A m :
                    QueuedRow(v, m, id) /\ threads[v].op = "ingest" => v = u /\ m = k
        BY <3>1 DEF Fresh
      <3>3. ~QueuedRow(t, 1, id)
        <4>1. CASE threads[t].op = "ingest"
          BY <2>2, <3>2, <4>1
        <4>2. CASE Isdml(t)
          BY <3>2, <4>2 DEF Known
        <4>3. CASE threads[t].op # "ingest" /\ ~Isdml(t)
          <5>1. threads[t].todo = <<>> /\ threads[t].pending = <<>>
            BY <4>3 DEF Shaped, Shape, Isdml
          <5>2. Len(Queue(t)) = 0
            BY <5>1, QueueFacts, EmptySeq
          <5> QED  BY <5>2 DEF QueuedRow
        <4> QED  BY <4>1, <4>2, <4>3
      <3>4. ASSUME NEW v \in Threads, NEW m, QueuedRow(v, m, id)', threads'[v].op = "ingest"
            PROVE  v = u /\ m = k
        <4>1. CASE v = t
          BY <2>2, <3>1, <3>4, <4>1
        <4>2. CASE v # t
          BY <3>2, <3>4, <4>2, OthersQueued
        <4> QED  BY <4>1, <4>2
      <3> QED  BY <3>2, <3>3, <3>4
    <2> QED  BY <2>1, <2>2
  <1> QED  BY <1>1 DEF Fresh

LEMMA EmptyQueued ==
    ASSUME NEW t \in Threads, Queue(t)' = <<>>
    PROVE  \A k, id : ~QueuedRow(t, k, id)'
  <1>1. Len(Queue(t)') = 0
    BY EmptySeq
  <1> QED  BY <1>1 DEF QueuedRow

LEMMA TailQueued ==
    ASSUME Types, Shaped, NEW t \in Threads, WriteData(t)
    PROVE  /\ \A k, id : QueuedRow(t, k, id)' => k \in Nat /\ k >= 1 /\ QueuedRow(t, k + 1, id)
           /\ \A k, id : QueuedRow(t, k, id) /\ k # 1 => QueuedRow(t, k - 1, id)'
           /\ \A id : QueuedRow(t, 1, id) <=> HasRow(Queue(t)[1], id)
  <1>1. /\ Len(Queue(t)) \in Nat /\ Len(Queue(t)) > 0 /\ Len(Queue(t)') = Len(Queue(t)) - 1
        /\ \A k \in 1..(Len(Queue(t)) - 1) : Queue(t)'[k] = Queue(t)[k + 1]
    BY WriteDataDoes
  <1>2. \A k \in 1..(Len(Queue(t)) - 1) : k \in Nat /\ k >= 1 /\ k + 1 \in 1..Len(Queue(t))
    BY <1>1
  <1>3. \A k \in 1..Len(Queue(t)) : k # 1 => k - 1 \in 1..(Len(Queue(t)) - 1) /\ (k - 1) + 1 = k
    BY <1>1
  <1>4. 1 \in 1..Len(Queue(t))
    BY <1>1
  <1>5. \A k, id : QueuedRow(t, k, id) /\ k # 1 => QueuedRow(t, k - 1, id)'
    <2> TAKE k, id
    <2>1. ASSUME QueuedRow(t, k, id), k # 1  PROVE QueuedRow(t, k - 1, id)'
      <3> DEFINE m == k - 1
      <3>1. m \in 1..(Len(Queue(t)) - 1) /\ m + 1 = k
        BY <1>3, <2>1 DEF QueuedRow
      <3> HIDE DEF m
      <3>2. Queue(t)'[m] = Queue(t)[k]
        BY <1>1, <3>1
      <3>3. QueuedRow(t, m, id)'
        BY <1>1, <2>1, <3>1, <3>2 DEF QueuedRow, HasRow
      <3> QED  BY <3>3 DEF m
    <2> QED  BY <2>1
  <1> QED  BY <1>1, <1>2, <1>4, <1>5 DEF QueuedRow, HasRow

LEMMA TombQueued ==
    ASSUME Types, NEW t \in Threads, NEW i, NEW tomb, Tombstoned(t, i, tomb)
    PROVE  /\ \A k, id : QueuedRow(t, k, id)' => QueuedRow(t, k - 1, id)
           /\ \A k \in 1..Len(Queue(t)') :
                (k = 1 /\ Queue(t)'[k] = tomb)
                \/ (k - 1 \in 1..Len(Queue(t)) /\ Queue(t)'[k] = Queue(t)[k - 1])
  <1>1. /\ Len(Queue(t)) \in Nat /\ Len(Queue(t)') = Len(Queue(t)) + 1 /\ Queue(t)'[1] = tomb
        /\ \A k \in 1..Len(Queue(t)) : Queue(t)'[k + 1] = Queue(t)[k]
        /\ tomb.op \in Dmls
    BY QueueFacts DEF Tombstoned
  <1>2. ASSUME NEW k \in 1..Len(Queue(t)'), k # 1
        PROVE  k - 1 \in 1..Len(Queue(t)) /\ Queue(t)'[k] = Queue(t)[k - 1]
    <2> DEFINE m == k - 1
    <2>1. m \in 1..Len(Queue(t)) /\ m + 1 = k
      BY <1>1, <1>2
    <2> HIDE DEF m
    <2>2. Queue(t)'[k] = Queue(t)[m]
      BY <1>1, <2>1
    <2> QED  BY <2>1, <2>2 DEF m
  <1>3. \A id : ~HasRow(tomb, id)
    BY <1>1 DEF HasRow, Dmls, RowOps, Batches
  <1>4. \A k, id : QueuedRow(t, k, id)' => QueuedRow(t, k - 1, id)
    <2> TAKE k, id
    <2>1. ASSUME QueuedRow(t, k, id)'  PROVE QueuedRow(t, k - 1, id)
      <3>1. k \in 1..Len(Queue(t)') /\ HasRow(Queue(t)'[k], id)
        BY <2>1 DEF QueuedRow, HasRow
      <3>2. k # 1
        BY <1>1, <1>3, <3>1
      <3> QED  BY <1>2, <3>1, <3>2 DEF QueuedRow
    <2> QED  BY <2>1
  <1> QED  BY <1>1, <1>2, <1>4

(* What a batch leaves: one row of it each.                                  *)
LEMMA SurvivorsFacts ==
    ASSUME Types, NEW t \in Threads, NEW i \in FirstMatch(threads[t]), Replaced(t, i)
    PROVE  /\ \A k \in 1..Len(Survivors(t, i)) :
                /\ Survivors(t, i)[k].op = "row"
                /\ \A id : HasRow(Survivors(t, i)[k], id) => id \in IdsOf(Rec(file, i).rows)
           /\ \A k, m \in 1..Len(Survivors(t, i)) : \A id :
                HasRow(Survivors(t, i)[k], id) /\ HasRow(Survivors(t, i)[m], id) => k = m
  <1> DEFINE rows == Rec(file, i).rows
             w == Survivors(t, i)
             c == threads[t]
  <1>1. /\ w \in Seq(LogRec) /\ rows \in Seq(Row) /\ Len(rows) \in Nat /\ Len(w) \in Nat
        /\ \A k, m \in 1..Len(rows) : rows[k].id = rows[m].id => k = m
        /\ DOMAIN rows = 1..Len(rows)
    BY FirstMatchFacts, RecordFields, LenProperties DEF Replaced
  <1>2. PICK h \in [1..Len(w) -> 1..Len(rows)] :
            /\ \A j \in 1..Len(w) : /\ Len(Remade(c, rows[h[j]])) = 1
                                    /\ w[j] = RowRec(Remade(c, rows[h[j]])[1])
            /\ \A k, m \in 1..Len(w) : k < m => h[k] < h[m]
    BY DEF Replaced, FromRows
  <1>3. ASSUME NEW j \in 1..Len(w), NEW id
        PROVE  w[j].op = "row" /\ (HasRow(w[j], id) => id = rows[h[j]].id)
    <2> DEFINE r == rows[h[j]]
               x == Remade(c, r)
    <2>1. r \in Row
      BY <1>1, <1>2, ElementOfSeq
    <2>2. x \in Seq(Row) /\ Len(x) = 1 /\ x[1].id = r.id
      BY <1>2, <2>1, RemadeIsShort, ThreadFields
    <2>3. x[1] \in Row
      <3>1. 1 \in 1..Len(x)
        BY <2>2
      <3> HIDE DEF x
      <3> QED  BY <2>2, <3>1, ElementOfSeq
    <2>4. w[j] = RowRec(x[1])
      BY <1>2
    <2> HIDE DEF x, r, w
    <2>5. RowRec(x[1]) \in LogRec /\ RowRec(x[1]).op = "row" /\ RowRec(x[1]).rows[1] = x[1]
      BY <2>3, RowRecTyped
    <2>6. IdsOf(RowRec(x[1]).rows) = {x[1].id}
      <3>1. \A z \in LogRec : z.op = "row" => IdsOf(z.rows) = {z.rows[1].id}
        BY RecordFields
      <3> QED  BY <2>5, <3>1
    <2> QED  BY <2>2, <2>4, <2>5, <2>6 DEF HasRow, r
  <1> HIDE DEF rows, w
  <1>4. \A j \in 1..Len(w) : h[j] \in 1..Len(rows) /\ h[j] \in Nat /\ rows[h[j]].id \in IdsOf(rows)
    BY <1>1, <1>2 DEF IdsOf
  <1>5. ASSUME NEW k \in 1..Len(w), NEW m \in 1..Len(w), NEW id, HasRow(w[k], id), HasRow(w[m], id)
        PROVE  k = m
    <2>1. h[k] = h[m]
      <3>1. id = rows[h[k]].id /\ id = rows[h[m]].id
        BY <1>3, <1>5
      <3> QED  BY <1>1, <1>4, <3>1
    <2>2. ~(k < m) /\ ~(m < k)
      BY <1>2, <1>4, <2>1
    <2> QED  BY <1>1, <2>2
  <1> QED  BY <1>3, <1>4, <1>5 DEF rows, w

LEMMA BatchQueued ==
    ASSUME Types, NEW t \in Threads, NEW i \in FirstMatch(threads[t]), Replaced(t, i)
    PROVE  /\ \A k \in 1..Len(Queue(t)') :
                \/ k \in 1..Len(Queue(t)) /\ Queue(t)'[k] = Queue(t)[k]
                \/ k = Len(Queue(t)) + 1 /\ Queue(t)'[k] = DeleteRec(i)
                \/ \E m \in 1..Len(Survivors(t, i)) : /\ k = Len(Queue(t)) + 1 + m
                                                      /\ Queue(t)'[k] = Survivors(t, i)[m]
           /\ \A k, id : QueuedRow(t, k, id)' =>
                \/ QueuedRow(t, k, id)
                \/ k > Len(Queue(t)) + 1 /\ id \in IdsOf(Rec(file, i).rows)
  <1> DEFINE L == Len(Queue(t))
             M == Len(Survivors(t, i))
  <1>1. /\ L \in Nat /\ M \in Nat /\ Len(Queue(t)') = L + 1 + M
        /\ \A k \in 1..L : Queue(t)'[k] = Queue(t)[k]
        /\ Queue(t)'[L + 1] = DeleteRec(i)
        /\ \A k \in 1..M : Queue(t)'[L + 1 + k] = Survivors(t, i)[k]
    BY QueueFacts, LenProperties DEF Replaced
  <1> HIDE DEF L, M
  <1>2. ASSUME NEW k \in 1..Len(Queue(t)')
        PROVE  \/ k \in 1..L /\ Queue(t)'[k] = Queue(t)[k]
               \/ k = L + 1 /\ Queue(t)'[k] = DeleteRec(i)
               \/ \E m \in 1..M : /\ k = L + 1 + m /\ Queue(t)'[k] = Survivors(t, i)[m]
    <2>1. CASE k \in 1..L
      BY <1>1, <2>1
    <2>2. CASE k = L + 1
      BY <1>1, <2>2
    <2>3. CASE k \notin 1..L /\ k # L + 1
      <3> DEFINE m == k - (L + 1)
      <3>1. m \in 1..M /\ k = L + 1 + m
        BY <1>1, <2>3
      <3> HIDE DEF m
      <3> QED  BY <1>1, <3>1
    <2> QED  BY <2>1, <2>2, <2>3
  <1>3. \A id : ~HasRow(DeleteRec(i), id)
    BY DEF HasRow, DeleteRec, RowOps, Batches
  <1>4. ASSUME NEW k, NEW id, QueuedRow(t, k, id)'
        PROVE  QueuedRow(t, k, id) \/ (k > L + 1 /\ id \in IdsOf(Rec(file, i).rows))
    <2>1. k \in 1..Len(Queue(t)') /\ HasRow(Queue(t)'[k], id)
      BY <1>4 DEF QueuedRow, HasRow
    <2>2. CASE k \in 1..L /\ Queue(t)'[k] = Queue(t)[k]
      BY <2>1, <2>2 DEF QueuedRow, L
    <2>3. CASE k = L + 1 /\ Queue(t)'[k] = DeleteRec(i)
      BY <1>3, <2>1, <2>3
    <2>4. ASSUME NEW m \in 1..M, k = L + 1 + m, Queue(t)'[k] = Survivors(t, i)[m]
          PROVE  k > L + 1 /\ id \in IdsOf(Rec(file, i).rows)
      <3>1. k > L + 1
        BY <1>1, <2>4
      <3> QED  BY <2>1, <2>4, <3>1, SurvivorsFacts DEF M
    <2> QED  BY <1>2, <2>1, <2>2, <2>3, <2>4
  <1> QED  BY <1>2, <1>4 DEF L, M

LEMMA InitRows == Init => Known /\ Fresh
  <1> SUFFICES ASSUME Init PROVE Known /\ Fresh
    OBVIOUS
  <1>1. \A j : ~Written(j)
    <2>1. Len(file) = 0
      BY EmptySeq DEF Init
    <2> QED  BY <2>1 DEF Written
  <1>2. \A t \in Threads : \A k, id : ~QueuedRow(t, k, id)
    <2> TAKE t \in Threads
    <2>1. threads[t] = Idle
      BY DEF Init
    <2>2. Len(Queue(t)) = 0
      BY <2>1, InitTypes, QueueFacts, IdleFacts, EmptySeq
    <2> QED  BY <2>2 DEF QueuedRow
  <1> QED  BY <1>1, <1>2 DEF Known, Fresh, WrittenRow

(* A step that neither writes a record nor queues a row.                     *)
LEMMA RowsStay ==
    ASSUME Types, Shaped, Known, Fresh, NEW t \in Threads, Others(t), nrows' = nrows,
           \A j, id : WrittenRow(j, id)' <=> WrittenRow(j, id),
           \A k, id : ~QueuedRow(t, k, id)'
    PROVE  Known' /\ Fresh'
  <1>1. nrows' \in Nat /\ nrows <= nrows'
    BY Facts DEF Types
  <1>2. Known'
    BY <1>1, KnownAfter
  <1>3. Fresh'
    BY FreshAfter
  <1> QED  BY <1>2, <1>3

LEMMA RowsStep ==
    ASSUME Types, Shaped, Known, Fresh, Next
    PROVE  Known' /\ Fresh'
  <1>0. nrows \in Nat /\ "ingest" \notin Dmls
    BY Facts DEF Types, Dmls
  <1>1. ASSUME NEW t \in Threads, NEW n \in 1..MaxPerIngest, Ingest(t, n)  PROVE Known' /\ Fresh'
    <2>1. /\ Others(t) /\ n \in Nat /\ nrows' = nrows + n /\ threads'[t].op = "ingest"
          /\ NewRows(t, n) /\ build \in {"debug", "release"}
      BY <1>1, IngestDoes DEF Types
    <2>2. \A j, id : WrittenRow(j, id)' <=> WrittenRow(j, id)
      BY <1>1, SameWritten DEF Ingest
    <2>3. \A k, id : QueuedRow(t, k, id)' =>
                /\ id \in (nrows + 1)..(nrows + n)
                /\ \A m : QueuedRow(t, m, id)' => m = k
      <3>1. CASE build = "release"
        <4>1. Len(Queue(t)') = 1 /\ IdsOf(Queue(t)'[1].rows) = (nrows + 1)..(nrows + n)
          BY <2>1, <3>1 DEF NewRows
        <4>2. \A k \in 1..1 : k = 1
          OBVIOUS
        <4>3. \A k, id : QueuedRow(t, k, id)' => k = 1 /\ id \in IdsOf(Queue(t)'[1].rows)
          BY <4>1, <4>2 DEF QueuedRow, HasRow
        <4> QED  BY <4>1, <4>3
      <3>2. CASE build = "debug"
        <4>1. /\ Len(Queue(t)') = n
              /\ \A k \in 1..n : IdsOf(Queue(t)'[k].rows) = {nrows + k}
          BY <2>1, <3>2 DEF NewRows
        <4>2. \A k, id : QueuedRow(t, k, id)' => k \in 1..n /\ id = nrows + k
          BY <4>1 DEF QueuedRow, HasRow
        <4>3. \A k \in 1..n : nrows + k \in (nrows + 1)..(nrows + n)
          BY <1>0, <2>1
        <4>4. \A k, m \in 1..n : nrows + m = nrows + k => m = k
          BY <1>0, <2>1
        <4> QED  BY <4>2, <4>3, <4>4
      <3> QED  BY <2>1, <3>1, <3>2
    <2>4. \A id : id \in (nrows + 1)..(nrows + n) => id \in 1..nrows' /\ id \notin 1..nrows
      BY <1>0, <2>1
    <2>5. ~Isdml(t)' /\ nrows' \in Nat /\ nrows <= nrows'
      BY <1>0, <2>1 DEF Isdml
    <2>6. Known'
      BY <2>1, <2>2, <2>3, <2>4, <2>5, KnownAfter
    <2>7. ASSUME NEW k, NEW id, QueuedRow(t, k, id)'
          PROVE  /\ \A j : ~WrittenRow(j, id)'
                 /\ \A m : QueuedRow(t, m, id)' => m = k
                 /\ \A u \in Threads \ {t} : \A m : QueuedRow(u, m, id) => threads[u].op # "ingest"
      BY <2>2, <2>3, <2>4, <2>7 DEF Known
    <2>8. Fresh'
      BY <2>1, <2>2, <2>7, FreshAfter
    <2> QED  BY <2>6, <2>8
  <1>2. ASSUME NEW t \in Threads, NEW op \in Dmls, NEW want \in SUBSET (1..nrows) \ {{}},
               DmlOpen(t, op, want)
        PROVE  Known' /\ Fresh'
    <2>1. EmptyAfter(t) /\ nrows' = nrows /\ file' = file
      BY <1>2, DmlOpenDoes DEF DmlOpen
    <2> QED  BY <2>1, SameWritten, EmptyQueued, RowsStay DEF EmptyAfter
  <1>3. ASSUME NEW t \in Threads, IngestDone(t) \/ DmlDone(t) \/ ReadStep(t)  PROVE Known' /\ Fresh'
    <2>1. EmptyAfter(t)
      BY <1>3, StopDoes, ReadTombstonesDoes, ReadRowsDoes DEF ReadStep
    <2>2. nrows' = nrows /\ file' = file
      BY <1>3 DEF IngestDone, DmlDone, ReadStep, ReadTombstones, ReadRows, ReadDone, control
    <2> QED  BY <2>1, <2>2, SameWritten, EmptyQueued, RowsStay DEF EmptyAfter
  <1>4. ASSUME NEW t \in Threads, WriteLength(t) \/ DmlFlush(t)  PROVE Known' /\ Fresh'
    <2>1. Others(t) /\ Queue(t)' = Queue(t) /\ threads'[t].op = threads[t].op
      <3>1. CASE WriteLength(t)
        BY <3>1, WriteLengthDoes, ThreadFields DEF Thread
      <3>2. CASE DmlFlush(t)
        BY <3>2, DmlFlushDoes
      <3> QED  BY <1>4, <3>1, <3>2
    <2>2. nrows' = nrows
      BY <1>4 DEF WriteLength, DmlFlush, control
    <2>3. \A j, id : WrittenRow(j, id)' <=> WrittenRow(j, id)
      <3>1. CASE WriteLength(t)
        <4>1. Grown(Length) /\ Length.part # "data"
          BY <3>1, WriteLengthDoes DEF Length
        <4> QED  BY <4>1, GrownWritten
      <3>2. CASE DmlFlush(t)
        BY <3>2, SameWritten DEF DmlFlush
      <3> QED  BY <1>4, <3>1, <3>2
    <2>4. \A k, id : QueuedRow(t, k, id)' <=> QueuedRow(t, k, id)
      BY <2>1 DEF QueuedRow, HasRow
    <2>5. Isdml(t)' = Isdml(t)
      BY <2>1 DEF Isdml
    <2>6. Known'
      BY <1>0, <2>1, <2>2, <2>3, <2>4, <2>5, KnownAfter DEF Known
    <2>7. Fresh'
      BY <2>1, <2>3, <2>4, FreshAfter DEF Fresh
    <2> QED  BY <2>6, <2>7
  <1>5. ASSUME NEW t \in Threads, WriteData(t)  PROVE Known' /\ Fresh'
    <2> DEFINE rec == Queue(t)[1]
    <2>1. Others(t) /\ threads'[t].op = threads[t].op /\ rec \in LogRec /\ Grown(Data(rec))
      <3>1. /\ Others(t) /\ rec \in LogRec /\ Grown(Data(rec))
            /\ threads'[t] = [threads[t] EXCEPT !.half = FALSE, !.todo = Tail(@)]
        BY <1>5, WriteDataDoes
      <3>2. threads'[t].op = threads[t].op
        BY <3>1, ThreadFields DEF Thread
      <3> QED  BY <3>1, <3>2
    <2>2. nrows' = nrows
      BY <1>5 DEF WriteData, control
    <2> HIDE DEF rec
    <2>3. Data(rec).part = "data" /\ Data(rec).rec = rec
      BY <2>1, RecordFields
    <2>4. /\ \A j, id : WrittenRow(j, id) => WrittenRow(j, id)'
          /\ \A j, id : WrittenRow(j, id)' => WrittenRow(j, id) \/ HasRow(rec, id)
      BY <2>1, <2>3, GrownWritten
    <2>5. /\ \A k, id : QueuedRow(t, k, id)' => k \in Nat /\ k >= 1 /\ QueuedRow(t, k + 1, id)
          /\ \A id : QueuedRow(t, 1, id) <=> HasRow(rec, id)
      BY <1>5, TailQueued DEF rec
    <2>6. Isdml(t)' = Isdml(t)
      BY <2>1 DEF Isdml
    <2>7. Known'
      BY <1>0, <2>1, <2>2, <2>4, <2>5, <2>6, KnownAfter DEF Known
    <2>8. ASSUME threads'[t].op = "ingest", NEW k, NEW id, QueuedRow(t, k, id)'
          PROVE  /\ \A j : ~WrittenRow(j, id)'
                 /\ \A m : QueuedRow(t, m, id)' => m = k
                 /\ \A u \in Threads \ {t} : \A m : QueuedRow(u, m, id) => threads[u].op # "ingest"
      <3>1. QueuedRow(t, k + 1, id) /\ threads[t].op = "ingest" /\ k \in Nat /\ k >= 1
        BY <2>1, <2>5, <2>8
      <3>2. /\ ~\E j : WrittenRow(j, id)
            /\ \A u \in Threads : \A m :
                QueuedRow(u, m, id) /\ threads[u].op = "ingest" => u = t /\ m = k + 1
        BY <3>1 DEF Fresh
      <3>3. ~QueuedRow(t, 1, id)
        BY <3>1, <3>2
      <3>4. \A j : ~WrittenRow(j, id)'
        BY <2>4, <2>5, <3>2, <3>3
      <3>5. ASSUME NEW m, QueuedRow(t, m, id)'  PROVE m = k
        <4>1. m \in Nat /\ m + 1 = k + 1
          BY <2>5, <3>1, <3>2, <3>5
        <4> QED  BY <3>1, <4>1
      <3> QED  BY <3>2, <3>4, <3>5
    <2>9. Fresh'
      BY <2>1, <2>4, <2>5, <2>8, FreshAfter
    <2> QED  BY <2>7, <2>9
  <1>6. ASSUME NEW t \in Threads, DmlRow(t)  PROVE Known' /\ Fresh'
    <2>1. PICK i \in FirstMatch(threads[t]), tomb \in LogRec : Tombstoned(t, i, tomb)
      BY <1>6, DmlRowDoes
    <2>2. nrows' = nrows /\ file' = file
      BY <1>6 DEF DmlRow, control
    <2>3. \A j, id : WrittenRow(j, id)' <=> WrittenRow(j, id)
      BY <2>2, SameWritten
    <2>4. /\ Others(t) /\ Isdml(t) /\ threads'[t].op # "ingest"
          /\ \A k, id : QueuedRow(t, k, id)' => QueuedRow(t, k - 1, id)
      BY <1>0, <2>1, TombQueued DEF Tombstoned, Isdml
    <2>5. Known'
      BY <1>0, <2>2, <2>3, <2>4, KnownAfter DEF Known
    <2>6. Fresh'
      BY <2>3, <2>4, FreshAfter
    <2> QED  BY <2>5, <2>6
  <1>7. ASSUME NEW t \in Threads, DmlBatch(t)  PROVE Known' /\ Fresh'
    <2>1. PICK i \in FirstMatch(threads[t]) : Replaced(t, i)
      BY <1>7, DmlBatchDoes
    <2>2. nrows' = nrows /\ file' = file
      BY <1>7 DEF DmlBatch, control
    <2>3. \A j, id : WrittenRow(j, id)' <=> WrittenRow(j, id)
      BY <2>2, SameWritten
    <2>4. /\ Others(t) /\ Isdml(t) /\ threads'[t].op # "ingest"
          /\ \A k, id : QueuedRow(t, k, id)' =>
                QueuedRow(t, k, id) \/ id \in IdsOf(Rec(file, i).rows)
      BY <1>0, <2>1, BatchQueued DEF Replaced, Isdml
    <2>5. \A id \in IdsOf(Rec(file, i).rows) : WrittenRow(i + 1, id)
      BY <2>1, FirstMatchFacts, RowsInFacts, RecordsFacts DEF WrittenRow, HasRow
    <2>6. Known'
      BY <1>0, <2>2, <2>3, <2>4, <2>5, KnownAfter DEF Known
    <2>7. Fresh'
      BY <2>3, <2>4, FreshAfter
    <2> QED  BY <2>6, <2>7
  <1>8. ASSUME NEW n \in synced..Len(file), Crash(n)  PROVE Known' /\ Fresh'
    <2>1. /\ n \in Nat /\ n <= Len(file) /\ Len(file') = n /\ \A j \in 1..n : file'[j] = file[j]
          /\ \A t \in Threads : Queue(t)' = <<>>
          /\ nrows' = nrows
      BY <1>8, CrashDoes
    <2>2. \A j : j \in 1..n => j \in 1..Len(file)
      BY <2>1, FileFacts
    <2>3. \A j, id : WrittenRow(j, id)' => WrittenRow(j, id)
      BY <2>1, <2>2 DEF WrittenRow, Written
    <2>4. \A t \in Threads : \A k, id : ~QueuedRow(t, k, id)'
      BY <2>1, EmptyQueued
    <2> QED  BY <2>1, <2>3, <2>4 DEF Known, Fresh
  <1> QED  BY <1>1, <1>2, <1>3, <1>4, <1>5, <1>6, <1>7, <1>8, NextCases

-----------------------------------------------------------------------------
(* The log from step to step                                                 *)

Crashes == \E n \in synced..Len(file) : Crash(n)

LEMMA FileSteps ==
    ASSUME Types, Shaped, Next, ~Crashes
    PROVE  \/ file' = file
           \/ Grown(Length)
           \/ \E t \in Threads : WriteData(t)
  <1>1. ASSUME NEW t \in Threads,
               \/ \E n \in 1..MaxPerIngest : Ingest(t, n)
               \/ \E op \in Dmls, want \in SUBSET (1..nrows) \ {{}} : DmlOpen(t, op, want)
               \/ IngestDone(t) \/ DmlRow(t) \/ DmlBatch(t) \/ DmlFlush(t) \/ DmlDone(t)
               \/ ReadStep(t)
        PROVE  file' = file
    BY <1>1 DEF Ingest, DmlOpen, IngestDone, DmlRow, DmlBatch, DmlFlush, DmlDone, ReadStep,
                ReadTombstones, ReadRows, ReadDone
  <1>2. ASSUME NEW t \in Threads, WriteLength(t)  PROVE Grown(Length)
    BY <1>2, WriteLengthDoes
  <1> QED  BY <1>1, <1>2, NextCases DEF Crashes

LEMMA RecordsGrow ==
    ASSUME Types, NEW x, Grown(x)
    PROVE  /\ Records(file) \subseteq Records(file')
           /\ \A i \in Records(file) : Rec(file', i) = Rec(file, i)
           /\ TombsIn(file) \subseteq TombsIn(file')
           /\ RowsIn(file) \subseteq RowsIn(file')
  <1>1. /\ Len(file) \in Nat /\ Len(file') = Len(file) + 1
        /\ \A j \in 1..Len(file) : file'[j] = file[j]
    BY FileFacts DEF Grown
  <1>2. ASSUME NEW i \in Records(file)  PROVE i \in Records(file') /\ Rec(file', i) = Rec(file, i)
    <2>1. i \in Nat /\ i + 1 \in 1..Len(file) /\ i \in 1..Len(file) /\ i % 2 = 1
      BY <1>2, RecordsFacts
    <2>2. i \in 1..Len(file') /\ i < Len(file') /\ \A j \in 1..(i + 1) : j \in 1..Len(file)
      BY <1>1, <2>1
    <2>3. \A j \in 1..(i + 1) : file'[j].part = PartAt(j)
      BY <1>1, <1>2, <2>2 DEF Records
    <2> QED  BY <1>1, <2>1, <2>2, <2>3 DEF Records, Rec
  <1> QED  BY <1>2 DEF TombsIn, RowsIn

LEMMA RowAtGrown ==
    ASSUME Types, NEW x, Grown(x)
    PROVE  /\ \A i \in Nat : RowAt(i) => RowAt(i)' /\ IdAt(i)' = IdAt(i)
           /\ \A i \in Nat : RowAt(i)' => RowAt(i) \/ (/\ i = Len(file) /\ x.part = "data"
                                                       /\ x.rec.op = "row"
                                                       /\ IdAt(i)' = x.rec.rows[1].id)
  <1>1. /\ Len(file) \in Nat /\ file'[Len(file) + 1] = x
        /\ \A j : Written(j)' <=> Written(j) \/ (j = Len(file) + 1 /\ x.part = "data")
        /\ \A j : Written(j) => file'[j] = file[j]
    BY FileFacts, GrownWritten DEF Grown
  <1>2. \A i \in Nat : RowAt(i) => RowAt(i)' /\ IdAt(i)' = IdAt(i)
    BY <1>1 DEF RowAt, IdAt
  <1>3. ASSUME NEW i \in Nat, RowAt(i)', ~RowAt(i)
        PROVE  i = Len(file) /\ x.part = "data" /\ x.rec.op = "row" /\ IdAt(i)' = x.rec.rows[1].id
    <2>1. Written(i + 1)' /\ file'[i + 1].rec.op = "row"
      BY <1>3 DEF RowAt
    <2>2. ~Written(i + 1)
      BY <1>1, <1>3, <2>1 DEF RowAt
    <2>3. i + 1 = Len(file) + 1 /\ x.part = "data"
      BY <1>1, <2>1, <2>2
    <2>4. i = Len(file)
      BY <1>1, <2>3
    <2> QED  BY <1>1, <2>1, <2>3, <2>4 DEF IdAt
  <1> QED  BY <1>2, <1>3

LEMMA SameLog ==
    ASSUME file' = file
    PROVE  /\ \A i \in Nat : (RowAt(i)' <=> RowAt(i)) /\ IdAt(i)' = IdAt(i)
           /\ Records(file') = Records(file) /\ TombsIn(file') = TombsIn(file)
           /\ RowsIn(file') = RowsIn(file)
           /\ \A i : Rec(file', i) = Rec(file, i)
           /\ \A j : Written(j)' <=> Written(j)
           /\ \A j, id : WrittenRow(j, id)' <=> WrittenRow(j, id)
  BY SameWritten DEF RowAt, IdAt, Written

(* Between crashes the log only grows, and so does what it counts as gone.   *)
LEMMA LogGrows ==
    ASSUME Types, Shaped, Next, ~Crashes
    PROVE  /\ \A i \in Nat : RowAt(i) => RowAt(i)' /\ IdAt(i)' = IdAt(i)
           /\ \A j, id : WrittenRow(j, id) => WrittenRow(j, id)'
           /\ Records(file) \subseteq Records(file') /\ TombsIn(file) \subseteq TombsIn(file')
           /\ \A i \in Records(file) : Rec(file', i) = Rec(file, i)
           /\ Len(file) \in Nat /\ Len(file') \in Nat /\ Len(file) <= Len(file')
           /\ gone \subseteq gone'
           /\ build' = build
  <1>1. ASSUME NEW x, Grown(x)
        PROVE  /\ \A i \in Nat : RowAt(i) => RowAt(i)' /\ IdAt(i)' = IdAt(i)
               /\ \A j, id : WrittenRow(j, id) => WrittenRow(j, id)'
               /\ Records(file) \subseteq Records(file') /\ TombsIn(file) \subseteq TombsIn(file')
               /\ \A i \in Records(file) : Rec(file', i) = Rec(file, i)
               /\ Len(file') = Len(file) + 1
    BY <1>1, RecordsGrow, RowAtGrown, GrownWritten DEF Grown
  <1>2. \/ file' = file
        \/ \E x : Grown(x)
    BY FileSteps, WriteDataDoes
  <1>3. Len(file) \in Nat
    BY FileFacts
  <1>4. gone \subseteq gone'
    <2>1. ASSUME NEW t \in Threads, DmlRow(t) \/ DmlBatch(t)  PROVE gone \subseteq gone'
      BY <2>1 DEF DmlRow, DmlBatch, Goes
    <2>2. ASSUME NEW t \in Threads,
               \/ \E n \in 1..MaxPerIngest : Ingest(t, n)
               \/ \E op \in Dmls, want \in SUBSET (1..nrows) \ {{}} : DmlOpen(t, op, want)
               \/ WriteLength(t) \/ WriteData(t)
               \/ IngestDone(t) \/ DmlFlush(t) \/ DmlDone(t) \/ ReadStep(t)
        PROVE  gone' = gone
      BY <2>2 DEF Ingest, DmlOpen, IngestDone, DmlFlush, DmlDone, ReadStep, WriteLength, WriteData,
                  ReadTombstones, ReadRows, ReadDone, history
    <2> QED  BY <2>1, <2>2, NextCases DEF Crashes
  <1>5. build' = build
    BY NextCases DEF Crashes, Ingest, DmlOpen, IngestDone, DmlRow, DmlBatch, DmlFlush, DmlDone,
                     WriteLength, WriteData, ReadStep, ReadTombstones, ReadRows, ReadDone, control
  <1> QED  BY <1>1, <1>2, <1>3, <1>4, <1>5, SameLog

-----------------------------------------------------------------------------
(* The debug build                                                           *)

(* What a cut leaves.                                                        *)
LEMMA CutFacts ==
    ASSUME Types, NEW n \in synced..Len(file), Crash(n)
    PROVE  /\ \A i \in Nat : RowAt(i)' => RowAt(i) /\ IdAt(i)' = IdAt(i)
           /\ \A i \in Nat : i + 1 <= n /\ RowAt(i) => RowAt(i)' /\ IdAt(i)' = IdAt(i)
           /\ \A j : Written(j)' => j <= n /\ j \in Nat /\ Written(j) /\ file'[j] = file[j]
           /\ \A i \in Records(file) : i + 1 <= n =>
                i \in Records(file') /\ Rec(file', i) = Rec(file, i)
           /\ \A i \in Records(file') : i \in Records(file) /\ Rec(file', i) = Rec(file, i)
              /\ i + 1 <= n
  <1>1. /\ n \in Nat /\ n <= Len(file) /\ Len(file') = n /\ \A j \in 1..n : file'[j] = file[j]
        /\ Len(file) \in Nat
    BY CrashDoes, FileFacts
  <1>2. \A j : Written(j)' => j \in 1..n /\ j <= n /\ j \in Nat /\ Written(j) /\ file'[j] = file[j]
    BY <1>1 DEF Written
  <1>3. \A j \in 1..n : Written(j) => Written(j)' /\ file'[j] = file[j]
    BY <1>1 DEF Written
  <1>4. \A i \in Nat : i + 1 <= n => i + 1 \in 1..n
    BY <1>1
  <1>5. ASSUME NEW i \in Records(file), i + 1 <= n
        PROVE  i \in Records(file') /\ Rec(file', i) = Rec(file, i)
    <2>1. i \in Nat /\ i \in 1..Len(file) /\ i % 2 = 1
      BY <1>5, RecordsFacts
    <2>2. i \in 1..Len(file') /\ i < Len(file') /\ i + 1 \in 1..n
          /\ \A j \in 1..(i + 1) : j \in 1..n
      BY <1>1, <1>5, <2>1
    <2>3. \A j \in 1..(i + 1) : file'[j].part = PartAt(j)
      BY <1>1, <1>5, <2>2 DEF Records
    <2> QED  BY <1>1, <2>1, <2>2, <2>3 DEF Records, Rec
  <1>6. ASSUME NEW i \in Records(file')
        PROVE  i \in Records(file) /\ Rec(file', i) = Rec(file, i) /\ i + 1 <= n
    <2>1. i \in 1..n /\ i < n /\ i % 2 = 1 /\ \A j \in 1..(i + 1) : file'[j].part = PartAt(j)
      BY <1>1, <1>6 DEF Records
    <2>2. i \in 1..Len(file) /\ i < Len(file) /\ i + 1 \in 1..n /\ i + 1 <= n
          /\ \A j \in 1..(i + 1) : j \in 1..n
      BY <1>1, <2>1
    <2>3. \A j \in 1..(i + 1) : file[j].part = PartAt(j)
      BY <1>1, <2>1, <2>2
    <2> QED  BY <1>1, <2>1, <2>2, <2>3 DEF Records, Rec
  <1> QED  BY <1>2, <1>3, <1>4, <1>5, <1>6 DEF RowAt, IdAt

LEMMA OneRecordStep ==
    ASSUME Types, Shaped, Known, Fresh, build = "debug", Debug, Next
    PROVE  OneRecord'
  <1>0. OneRecord
    BY DEF Debug
  <1>1. CASE Crashes
    BY <1>0, <1>1, CutFacts DEF Crashes, OneRecord
  <1>2. CASE file' = file
    BY <1>0, <1>2, SameLog DEF OneRecord
  <1>3. CASE Grown(Length)
    <2>1. Length.part # "data"
      BY DEF Length
    <2>2. \A i \in Nat : RowAt(i)' => RowAt(i) /\ IdAt(i)' = IdAt(i)
      BY <1>3, <2>1, RowAtGrown
    <2> QED  BY <1>0, <2>2 DEF OneRecord
  <1>4. ASSUME NEW t \in Threads, WriteData(t)  PROVE OneRecord'
    <2> DEFINE rec == Queue(t)[1]
    <2>1. /\ rec \in LogRec /\ Grown(Data(rec)) /\ threads[t].op \in Dmls \union {"ingest"}
          /\ Len(Queue(t)) \in Nat /\ Len(Queue(t)) > 0
      BY <1>4, WriteDataDoes
    <2> HIDE DEF rec
    <2>2. Data(rec).part = "data" /\ Data(rec).rec = rec /\ Len(file) \in Nat
      BY <2>1, RecordFields, FileFacts
    <2>3. /\ \A i \in Nat : RowAt(i) => IdAt(i)' = IdAt(i)
          /\ \A i \in Nat : RowAt(i)' =>
                RowAt(i) \/ (i = Len(file) /\ rec.op = "row" /\ IdAt(i)' = rec.rows[1].id)
      BY <2>1, <2>2, RowAtGrown
    <2>4. ASSUME rec.op = "row", NEW i \in Nat, RowAt(i), IdAt(i) = rec.rows[1].id  PROVE FALSE
      <3>1. HasRow(rec, rec.rows[1].id)
        BY <2>1, <2>4, RecordFields DEF HasRow, RowOps
      <3>2. QueuedRow(t, 1, rec.rows[1].id)
        BY <1>4, <3>1, TailQueued DEF rec
      <3>3. threads[t].op = "ingest"
        <4>1. 1 \in 1..Len(Queue(t)) /\ Shape(t)
          BY <2>1 DEF Shaped
        <4>2. rec.op \in IF Isdml(t) THEN Tombstones ELSE {"row"}
          BY <4>1 DEF Shape, rec
        <4> QED  BY <2>1, <2>4, <4>2 DEF Tombstones, Isdml
      <3>4. ~\E j : WrittenRow(j, rec.rows[1].id)
        BY <3>2, <3>3 DEF Fresh
      <3>5. WrittenRow(i + 1, rec.rows[1].id)
        <4>1. Written(i + 1) /\ file[i + 1].rec.op = "row"
              /\ file[i + 1].rec.rows[1].id = rec.rows[1].id
          BY <2>4 DEF RowAt, IdAt
        <4>2. file[i + 1].rec \in LogRec
          BY <4>1, FileFacts DEF Written
        <4> QED  BY <4>1, <4>2, RecordFields DEF WrittenRow, HasRow, RowOps
      <3> QED  BY <3>4, <3>5
    <2>5. ASSUME NEW i \in Nat, NEW j \in Nat, RowAt(i)', RowAt(j)', IdAt(i)' = IdAt(j)'
          PROVE i = j
      BY <1>0, <2>3, <2>4, <2>5 DEF OneRecord
    <2> QED  BY <2>5 DEF OneRecord
  <1> QED  BY <1>1, <1>2, <1>3, <1>4, FileSteps

LEMMA MarksGrow ==
    ASSUME Types, Shaped, Next, ~Crashes, NEW rec \in LogRec, NEW n \in Nat, NEW m \in Nat, n <= m,
           Marks(rec, n)
    PROVE  Marks(rec, m)'
  <1>1. rec.ref \in Nat /\ rec.ref + 1 < m
    BY RecordFields DEF Marks
  <1> QED  BY <1>1, LogGrows DEF Marks

LEMMA MarkedQueueStays ==
    ASSUME Types, Shaped, Next, ~Crashes, NEW t \in Threads, MarkedQueue(t), Queue(t)' = Queue(t)
    PROVE  MarkedQueue(t)'
  <1>1. /\ Len(file) + 1 \in Nat /\ Len(file') + 1 \in Nat /\ Len(file) + 1 <= Len(file') + 1
        /\ \A k \in 1..Len(Queue(t)) : Queue(t)[k] \in LogRec
    <2>1. Len(file) \in Nat /\ Len(file') \in Nat /\ Len(file) <= Len(file')
      BY LogGrows
    <2>2. \A k \in 1..Len(Queue(t)) : Queue(t)[k] \in LogRec
      BY QueueFacts
    <2> QED  BY <2>1, <2>2
  <1>2. ASSUME NEW k \in 1..Len(Queue(t)), Queue(t)[k].op \in Tombstones
        PROVE  Marks(Queue(t)[k], Len(file) + 1)'
    <2> DEFINE rec == Queue(t)[k]
               m == Len(file') + 1
    <2>1. Marks(rec, Len(file) + 1) /\ rec \in LogRec
      BY <1>1, <1>2 DEF MarkedQueue
    <2>2. \A x \in LogRec : Marks(x, Len(file) + 1) => \A y \in Nat : y = m => Marks(x, y)'
      BY <1>1, MarksGrow
    <2> QED  BY <1>1, <2>1, <2>2
  <1> QED  BY <1>2 DEF MarkedQueue

LEMMA MarksCut ==
    ASSUME Types, NEW n \in synced..Len(file), Crash(n), NEW rec \in LogRec, NEW j \in Nat, j <= n,
           Marks(rec, j)
    PROVE  Marks(rec, j)'
  <1>1. rec.ref \in Nat /\ rec.ref + 1 < j /\ n \in Nat /\ gone' = gone
    BY RecordFields, CrashDoes DEF Marks, history
  <1>2. rec.ref + 1 <= n
    BY <1>1
  <1>3. RowAt(rec.ref)' /\ IdAt(rec.ref)' = IdAt(rec.ref)
    BY <1>1, <1>2, CutFacts DEF Marks
  <1> QED  BY <1>1, <1>3 DEF Marks

LEMMA MarkedLogStep ==
    ASSUME Types, Shaped, build = "debug", Debug, Next
    PROVE  MarkedLog'
  <1>0. MarkedLog /\ \A t \in Threads : MarkedQueue(t)
    BY DEF Debug, Marked
  <1>1. CASE Crashes
    <2>1. PICK n \in synced..Len(file) : Crash(n)
      BY <1>1 DEF Crashes
    <2>2. \A j : Written(j)' => j <= n /\ j \in Nat /\ Written(j) /\ file'[j] = file[j]
      BY <2>1, CutFacts
    <2>3. ASSUME NEW j, NEW rec, Written(j)', rec = file'[j].rec, rec.op \in Tombstones
          PROVE  Marks(rec, j)'
      <3>1. j <= n /\ j \in Nat /\ Written(j) /\ rec = file[j].rec
        BY <2>2, <2>3
      <3>2. rec \in LogRec /\ Marks(rec, j)
        BY <1>0, <2>3, <3>1, FileFacts DEF MarkedLog, Written
      <3> QED  BY <2>1, <3>1, <3>2, MarksCut
    <2> QED  BY <1>0, <2>2, <2>3 DEF MarkedLog
  <1>2. ASSUME ~Crashes, NEW j, NEW rec, Written(j), rec = file[j].rec, rec.op \in Tombstones
        PROVE  Marks(rec, j)'
    <2>1. rec \in LogRec /\ Marks(rec, j) /\ j \in Nat
      BY <1>0, <1>2, FileFacts DEF MarkedLog, Written
    <2>2. j <= j
      BY <2>1
    <2> QED  BY <1>2, <2>1, <2>2, MarksGrow
  <1>3. CASE ~Crashes /\ file' = file
    BY <1>0, <1>2, <1>3, SameLog DEF MarkedLog
  <1>4. CASE ~Crashes /\ Grown(Length)
    <2>1. /\ \A j : Written(j)' <=> Written(j)
          /\ \A j : Written(j) => file'[j] = file[j]
      BY <1>4, GrownWritten DEF Length
    <2> QED  BY <1>0, <1>2, <1>4, <2>1 DEF MarkedLog
  <1>5. ASSUME ~Crashes, NEW t \in Threads, WriteData(t)  PROVE MarkedLog'
    <2>1. PICK rec : rec = Queue(t)[1]
      OBVIOUS
    <2>2. rec \in LogRec /\ Grown(Data(rec)) /\ Len(Queue(t)) \in Nat /\ Len(Queue(t)) > 0
      BY <1>5, <2>1, WriteDataDoes
    <2>3. Data(rec).part = "data" /\ Data(rec).rec = rec /\ Len(file) + 1 \in Nat
      BY <2>2, RecordFields, FileFacts
    <2>4. /\ \A j : Written(j)' => Written(j) \/ j = Len(file) + 1
          /\ \A j : Written(j) => file'[j] = file[j]
      BY <2>2, GrownWritten
    <2>5. file'[Len(file) + 1] = Data(rec)
      BY <2>2 DEF Grown
    <2>6. 1 \in 1..Len(Queue(t)) /\ Shape(t)
      BY <2>2 DEF Shaped
    <2>7. rec.op \in Tombstones \/ rec.op = "row"
      BY <2>1, <2>6 DEF Shape
    <2>8. rec.op \notin Batches
      BY <2>7 DEF Tombstones, Batches
    <2>9. ASSUME NEW j, j = Len(file) + 1, rec.op \in Tombstones  PROVE Marks(rec, j)'
      <3>1. Marks(rec, j) /\ j \in Nat
        BY <1>0, <2>1, <2>3, <2>6, <2>9 DEF MarkedQueue
      <3>2. j <= j
        BY <3>1
      <3> QED  BY <1>5, <2>2, <3>1, <3>2, MarksGrow
    <2>10. ASSUME NEW j, NEW r, Written(j)', r = file'[j].rec
           PROVE  r.op \notin Batches /\ (r.op \in Tombstones => Marks(r, j)')
      <3>1. CASE Written(j)
        <4>1. r = file[j].rec /\ r.op \notin Batches
          BY <1>0, <2>4, <2>10, <3>1 DEF MarkedLog
        <4> QED  BY <1>2, <1>5, <3>1, <4>1
      <3>2. CASE j = Len(file) + 1
        <4>1. r = rec
          BY <2>3, <2>5, <2>10, <3>2
        <4> QED  BY <2>8, <2>9, <3>2, <4>1
      <3> QED  BY <2>4, <2>10, <3>1, <3>2
    <2> QED  BY <2>10 DEF MarkedLog
  <1> QED  BY <1>1, <1>3, <1>4, <1>5, FileSteps

LEMMA OthersMarked ==
    ASSUME Types, Shaped, Next, ~Crashes, Marked, NEW t \in Threads, Others(t), MarkedQueue(t)'
    PROVE  \A u \in Threads : MarkedQueue(u)'
  <1>1. ASSUME NEW u \in Threads \ {t}  PROVE MarkedQueue(u)'
    <2>1. MarkedQueue(u) /\ Queue(u)' = Queue(u)
      BY <1>1 DEF Marked, Others
    <2> QED  BY <2>1, MarkedQueueStays
  <1> QED  BY <1>1

LEMMA NoBatches ==
    ASSUME Types, build = "debug", Debug
    PROVE  \A i \in RowsIn(file) : Rec(file, i).op = "row"
  BY RowsInFacts, RecordsFacts DEF Debug, Marked, MarkedLog, RowOps

LEMMA EmptyMarked ==
    ASSUME NEW t \in Threads, Queue(t)' = <<>>
    PROVE  MarkedQueue(t)'
  <1>1. Len(Queue(t)') = 0
    BY EmptySeq
  <1> QED  BY <1>1 DEF MarkedQueue

LEMMA MarkedQueueStep ==
    ASSUME Types, Shaped, build = "debug", Debug, Next
    PROVE  \A t \in Threads : MarkedQueue(t)'
  <1>0. Marked /\ \A t \in Threads : MarkedQueue(t)
    BY DEF Debug, Marked
  <1>1. CASE Crashes
    BY <1>1, CrashDoes, EmptyMarked DEF Crashes
  <1>2. ASSUME NEW t \in Threads, NEW n \in 1..MaxPerIngest, Ingest(t, n), ~Crashes
        PROVE  \A u \in Threads : MarkedQueue(u)'
    <2>1. Others(t) /\ NewRows(t, n)
      BY <1>2, IngestDoes
    <2>2. MarkedQueue(t)'
      BY <2>1 DEF MarkedQueue, NewRows, Tombstones
    <2> QED  BY <1>0, <1>2, <2>1, <2>2, OthersMarked
  <1>3. ASSUME NEW t \in Threads, ~Crashes,
               \/ \E op \in Dmls, want \in SUBSET (1..nrows) \ {{}} : DmlOpen(t, op, want)
               \/ IngestDone(t) \/ DmlDone(t) \/ ReadStep(t)
        PROVE  \A u \in Threads : MarkedQueue(u)'
    <2>1. EmptyAfter(t)
      BY <1>3, DmlOpenDoes, StopDoes, ReadTombstonesDoes, ReadRowsDoes DEF ReadStep
    <2> QED  BY <1>0, <1>3, <2>1, EmptyMarked, OthersMarked DEF EmptyAfter
  <1>4. ASSUME NEW t \in Threads, ~Crashes, WriteLength(t) \/ DmlFlush(t)
        PROVE  \A u \in Threads : MarkedQueue(u)'
    <2>1. Others(t) /\ Queue(t)' = Queue(t)
      BY <1>4, WriteLengthDoes, DmlFlushDoes
    <2> QED  BY <1>0, <1>4, <2>1, MarkedQueueStays, OthersMarked
  <1>5. ASSUME NEW t \in Threads, ~Crashes, WriteData(t)
        PROVE  \A u \in Threads : MarkedQueue(u)'
    <2>1. /\ Others(t) /\ Len(Queue(t)) \in Nat /\ Len(Queue(t)') = Len(Queue(t)) - 1
          /\ \A k \in 1..(Len(Queue(t)) - 1) : Queue(t)'[k] = Queue(t)[k + 1]
      BY <1>5, WriteDataDoes
    <2>2. /\ Len(file) + 1 \in Nat /\ Len(file') + 1 \in Nat /\ Len(file) + 1 <= Len(file') + 1
      <3>1. Len(file) \in Nat /\ Len(file') \in Nat /\ Len(file) <= Len(file')
        BY <1>5, LogGrows
      <3> QED  BY <3>1
    <2>3. ASSUME NEW k \in 1..(Len(Queue(t)) - 1), NEW rec, rec = Queue(t)'[k],
                 rec.op \in Tombstones, NEW m, m = Len(file') + 1
          PROVE  Marks(rec, m)'
      <3>1. k + 1 \in 1..Len(Queue(t)) /\ rec = Queue(t)[k + 1]
        BY <2>1, <2>3
      <3>2. rec \in LogRec /\ Marks(rec, Len(file) + 1)
        BY <1>0, <2>3, <3>1, QueueFacts DEF MarkedQueue
      <3>3. m \in Nat /\ Len(file) + 1 <= m
        BY <2>2, <2>3
      <3> QED  BY <1>5, <2>2, <3>2, <3>3, MarksGrow
    <2>4. MarkedQueue(t)'
      BY <2>1, <2>3 DEF MarkedQueue
    <2> QED  BY <1>0, <1>5, <2>1, <2>4, OthersMarked
  <1>6. ASSUME NEW t \in Threads, ~Crashes, DmlRow(t)
        PROVE  \A u \in Threads : MarkedQueue(u)'
    <2>1. PICK i \in FirstMatch(threads[t]), tomb \in LogRec : Tombstoned(t, i, tomb)
      BY <1>6, DmlRowDoes
    <2>2. file' = file /\ Others(t)
      BY <1>6, <2>1 DEF DmlRow, Tombstoned
    <2>3. i \in Nat /\ i + 1 \in 1..Len(file) /\ RowAt(i) /\ IdAt(i) = Rec(file, i).rows[1].id
          /\ i + 1 < Len(file) + 1
      <3>1. i \in Nat /\ i + 1 \in 1..Len(file) /\ Written(i + 1) /\ Rec(file, i) = file[i + 1].rec
        BY <2>1, FirstMatchFacts, RowsInFacts, RecordsFacts
      <3>2. i + 1 < Len(file) + 1
        BY <3>1, FileFacts
      <3> QED  BY <2>1, <3>1, <3>2 DEF RowAt, IdAt, Tombstoned
    <2>4. Marks(tomb, Len(file) + 1)'
      <3>1. RowAt(i)' /\ IdAt(i)' = IdAt(i)
        BY <2>2, <2>3, SameLog
      <3>2. tomb.ref = i /\ (tomb.op = "delete" => IdAt(i) \in gone')
            /\ (tomb.op = "update" => tomb.rows[1].id = IdAt(i))
        BY <2>1, <2>3 DEF Tombstoned
      <3> QED  BY <2>2, <2>3, <3>1, <3>2 DEF Marks
    <2>5. ASSUME NEW k \in 1..Len(Queue(t)), NEW rec, rec = Queue(t)[k], rec.op \in Tombstones,
                 NEW m, m = Len(file) + 1
          PROVE  Marks(rec, m)'
      <3>1. rec \in LogRec /\ Marks(rec, m)
        BY <1>0, <2>5, QueueFacts DEF MarkedQueue
      <3>2. m \in Nat /\ m <= m
        BY <2>5, FileFacts
      <3> QED  BY <1>6, <3>1, <3>2, MarksGrow
    <2>6. ASSUME NEW k \in 1..Len(Queue(t)'), NEW rec, rec = Queue(t)'[k], rec.op \in Tombstones,
                 NEW m, m = Len(file) + 1
          PROVE  Marks(rec, m)'
      <3>1. (k = 1 /\ rec = tomb) \/ (k - 1 \in 1..Len(Queue(t)) /\ rec = Queue(t)[k - 1])
        BY <2>1, <2>6, TombQueued
      <3>2. CASE k = 1 /\ rec = tomb
        BY <2>2, <2>4, <2>6, <3>2
      <3>3. CASE k - 1 \in 1..Len(Queue(t)) /\ rec = Queue(t)[k - 1]
        BY <2>5, <2>6, <3>3
      <3> QED  BY <3>1, <3>2, <3>3
    <2>7. MarkedQueue(t)'
      BY <2>2, <2>6 DEF MarkedQueue
    <2> QED  BY <1>0, <1>6, <2>2, <2>7, OthersMarked
  <1>7. ASSUME NEW t \in Threads, DmlBatch(t)  PROVE FALSE
    BY <1>7, DmlBatchDoes, NoBatches, FirstMatchFacts DEF Replaced
  <1> QED  BY <1>1, <1>2, <1>3, <1>4, <1>5, <1>6, <1>7, NextCases DEF Crashes

LEMMA MarkedStep ==
    ASSUME Types, Shaped, build = "debug", Debug, Next
    PROVE  Marked'
  BY MarkedLogStep, MarkedQueueStep DEF Marked

LEMMA IngestedStep ==
    ASSUME Types, Shaped, build = "debug", Debug, Next
    PROVE  Ingested'
  <1>0. \A t \in Threads : IngestedBy(t)
    BY DEF Debug, Ingested
  <1>1. CASE Crashes
    BY <1>1, CrashDoes, IdleFacts DEF Crashes, Ingested, IngestedBy
  <1>2. ASSUME ~Crashes, NEW t \in Threads, Others(t), IngestedBy(t)'  PROVE Ingested'
    <2>1. ASSUME NEW u \in Threads \ {t}  PROVE IngestedBy(u)'
      <3>1. IngestedBy(u) /\ threads'[u] = threads[u]
            /\ \A k, id : QueuedRow(u, k, id)' <=> QueuedRow(u, k, id)
        BY <1>0, <1>2, OthersQueued DEF Others
      <3>2. \A j, id : WrittenRow(j, id) => WrittenRow(j, id)'
        BY <1>2, LogGrows
      <3> QED  BY <3>1, <3>2 DEF IngestedBy
    <2> QED  BY <1>2, <2>1 DEF Ingested
  <1>3. ASSUME ~Crashes, NEW t \in Threads, Others(t), threads'[t].op # "ingest"  PROVE Ingested'
    BY <1>2, <1>3 DEF IngestedBy
  <1>4. ASSUME ~Crashes, NEW t \in Threads, NEW n \in 1..MaxPerIngest, Ingest(t, n)  PROVE Ingested'
    <2>1. /\ Others(t) /\ NewRows(t, n) /\ n \in Nat
          /\ threads'[t].want = (nrows + 1)..(nrows + n)
      BY <1>4, IngestDoes
    <2>2. ASSUME NEW id \in (nrows + 1)..(nrows + n)  PROVE \E k : QueuedRow(t, k, id)'
      <3>1. PICK k \in 1..n : id = nrows + k
        <4>1. id - nrows \in 1..n /\ id = nrows + (id - nrows)
          BY <2>1, Facts DEF Types
        <4> QED  BY <4>1
      <3>2. Len(Queue(t)') = n /\ Queue(t)'[k].op = "row" /\ IdsOf(Queue(t)'[k].rows) = {id}
        BY <2>1, <3>1 DEF NewRows
      <3>3. k \in 1..Len(Queue(t)') /\ "row" \in RowOps /\ id \in IdsOf(Queue(t)'[k].rows)
        BY <3>1, <3>2 DEF RowOps
      <3>4. QueuedRow(t, k, id)'
        BY <3>2, <3>3 DEF QueuedRow, HasRow
      <3> QED  BY <3>4
    <2>3. IngestedBy(t)'
      BY <2>1, <2>2 DEF IngestedBy
    <2> QED  BY <1>2, <1>4, <2>1, <2>3
  <1>5. ASSUME ~Crashes, NEW t \in Threads, WriteLength(t)  PROVE Ingested'
    <2>1. /\ Others(t) /\ Queue(t)' = Queue(t) /\ threads'[t].op = threads[t].op
          /\ threads'[t].want = threads[t].want
      BY <1>5, WriteLengthDoes, ThreadFields DEF Thread
    <2>2. \A j, id : WrittenRow(j, id) => WrittenRow(j, id)'
      BY <1>5, LogGrows
    <2>3. \A k, id : QueuedRow(t, k, id) => QueuedRow(t, k, id)'
      BY <2>1 DEF QueuedRow, HasRow
    <2>4. IngestedBy(t)'
      BY <1>0, <2>1, <2>2, <2>3 DEF IngestedBy
    <2> QED  BY <1>2, <1>5, <2>1, <2>4
  <1>6. ASSUME ~Crashes, NEW t \in Threads, WriteData(t)  PROVE Ingested'
    <2>1. PICK rec : rec = Queue(t)[1]
      OBVIOUS
    <2>2. /\ Others(t) /\ threads'[t].op = threads[t].op /\ threads'[t].want = threads[t].want
          /\ rec \in LogRec /\ Grown(Data(rec))
      <3>1. /\ Others(t) /\ rec \in LogRec /\ Grown(Data(rec))
            /\ threads'[t] = [threads[t] EXCEPT !.half = FALSE, !.todo = Tail(@)]
        BY <1>6, <2>1, WriteDataDoes
      <3>2. threads'[t].op = threads[t].op /\ threads'[t].want = threads[t].want
        BY <3>1, ThreadFields DEF Thread
      <3> QED  BY <3>1, <3>2
    <2>3. \A j, id : WrittenRow(j, id) => WrittenRow(j, id)'
      BY <1>6, LogGrows
    <2>4. /\ \A k, id : QueuedRow(t, k, id) /\ k # 1 => QueuedRow(t, k - 1, id)'
          /\ \A id : QueuedRow(t, 1, id) => HasRow(rec, id)
      BY <1>6, <2>1, TailQueued
    <2>5. \A id : HasRow(rec, id) => \E j : WrittenRow(j, id)'
      <3>1. Data(rec).part = "data" /\ Data(rec).rec = rec
        BY <2>2, RecordFields
      <3>2. file'[Len(file) + 1] = Data(rec)
        BY <2>2 DEF Grown
      <3>3. ASSUME NEW j, j = Len(file) + 1  PROVE Written(j)' /\ file'[j].rec = rec
        BY <2>2, <3>1, <3>2, <3>3, GrownWritten
      <3>4. ASSUME NEW j, j = Len(file) + 1, NEW id, HasRow(rec, id)  PROVE WrittenRow(j, id)'
        BY <3>3, <3>4 DEF WrittenRow, HasRow
      <3> QED  BY <3>4
    <2>6. IngestedBy(t)'
      BY <1>0, <2>2, <2>3, <2>4, <2>5 DEF IngestedBy
    <2> QED  BY <1>2, <1>6, <2>2, <2>6
  <1>7. ASSUME ~Crashes, NEW t \in Threads, NEW op \in Dmls, NEW want \in SUBSET (1..nrows) \ {{}},
               DmlOpen(t, op, want)
        PROVE  Ingested'
    BY <1>3, <1>7, DmlOpenDoes DEF EmptyAfter, Dmls
  <1>8. ASSUME ~Crashes, NEW t \in Threads, IngestDone(t) \/ DmlDone(t) \/ ReadStep(t)
        PROVE Ingested'
    <2>1. Others(t) /\ threads'[t].op # "ingest"
      BY <1>8, StopDoes, ReadTombstonesDoes, ReadRowsDoes, IdleFacts DEF ReadStep, EmptyAfter
    <2> QED  BY <1>3, <1>8, <2>1
  <1>9. ASSUME ~Crashes, NEW t \in Threads, DmlRow(t) \/ DmlBatch(t) \/ DmlFlush(t)  PROVE Ingested'
    <2>1. Others(t) /\ threads'[t].op \in Dmls
      BY <1>9, DmlRowDoes, DmlBatchDoes, DmlFlushDoes DEF Tombstoned, Replaced
    <2>2. threads'[t].op # "ingest"
      BY <2>1 DEF Dmls
    <2> QED  BY <1>3, <1>9, <2>1, <2>2
  <1>10. CASE ~Crashes
    BY <1>10, <1>4, <1>5, <1>6, <1>7, <1>8, <1>9, NextCases DEF Crashes
  <1> QED  BY <1>1, <1>10

LEMMA DurableStep ==
    ASSUME Types, Shaped, build = "debug", Debug, Next
    PROVE  Durable'
  <1>0. Durable
    BY DEF Debug
  <1>1. CASE Crashes
    <2>1. PICK n \in synced..Len(file) : Crash(n)
      BY <1>1 DEF Crashes
    <2>2. acked' = acked /\ synced' = n /\ synced \in Nat /\ n \in Nat /\ synced <= n
      BY <2>1, CrashDoes, FileFacts DEF history, Types
    <2>3. \A i \in Records(file) : i \in Nat /\ (i + 1 <= n =>
                i \in Records(file') /\ Rec(file', i) = Rec(file, i))
      BY <2>1, CutFacts, RecordsFacts
    <2>4. ASSUME NEW id \in acked
          PROVE  \E i \in Records(file') :
                    i + 1 <= n /\ Rec(file', i).op = "row" /\ Rec(file', i).rows[1].id = id
      <3>1. PICK i \in Records(file) :
                i + 1 <= synced /\ Rec(file, i).op = "row" /\ Rec(file, i).rows[1].id = id
        BY <1>0 DEF Durable
      <3>2. i + 1 <= n
        BY <2>2, <2>3, <3>1
      <3> QED  BY <2>3, <3>1, <3>2
    <2> QED  BY <2>2, <2>4 DEF Durable
  <1>2. ASSUME ~Crashes, NEW id \in acked
        PROVE  \E i \in Records(file') :
                    i + 1 <= synced /\ Rec(file', i).op = "row" /\ Rec(file', i).rows[1].id = id
    BY <1>0, <1>2, LogGrows DEF Durable
  <1>3. ASSUME ~Crashes, acked' = acked, synced' = synced  PROVE Durable'
    BY <1>2, <1>3 DEF Durable
  <1>4. ASSUME ~Crashes, NEW t \in Threads, IngestDone(t)  PROVE Durable'
    <2>1. /\ threads[t].op = "ingest" /\ threads[t].todo = <<>> /\ file' = file
          /\ synced' = Len(file)
             /\ acked' = IF Sound(file) THEN acked \union threads[t].want ELSE acked
      BY <1>4 DEF IngestDone, WalSync
    <2>2. Len(file) \in Nat /\ synced \in Nat /\ synced <= Len(file)
      BY FileFacts DEF Types
    <2>3. ASSUME NEW id \in acked
          PROVE  \E i \in Records(file) :
                    i + 1 <= Len(file) /\ Rec(file, i).op = "row" /\ Rec(file, i).rows[1].id = id
      <3>1. PICK i \in Records(file) :
                i + 1 <= synced /\ Rec(file, i).op = "row" /\ Rec(file, i).rows[1].id = id
        BY <1>0 DEF Durable
      <3>2. i + 1 <= Len(file)
        BY RecordsFacts, FileFacts
      <3> QED  BY <3>1, <3>2
    <2>4. ASSUME Sound(file), NEW id \in threads[t].want
          PROVE  \E i \in Records(file) :
                    i + 1 <= Len(file) /\ Rec(file, i).op = "row" /\ Rec(file, i).rows[1].id = id
      <3>1. \A k : ~QueuedRow(t, k, id)
        <4>1. threads[t].pending = <<>>
          BY DEF Shaped, Shape
        <4>2. Len(Queue(t)) = 0
          BY <2>1, <4>1, QueueFacts, EmptySeq
        <4> QED  BY <4>2 DEF QueuedRow
      <3>2. PICK j : WrittenRow(j, id)
        BY <2>1, <2>4, <3>1 DEF Debug, Ingested, IngestedBy
      <3>3. j \in 1..Len(file) /\ file[j].part = "data" /\ file[j].rec \in LogRec
            /\ HasRow(file[j].rec, id) /\ file[j].rec.op \notin Batches
        BY <3>2, FileFacts DEF WrittenRow, Written, Debug, Marked, MarkedLog
      <3>4. file[j].rec.op = "row" /\ file[j].rec.rows[1].id = id
        <4>1. PICK r : r = file[j].rec
          OBVIOUS
        <4>2. r \in LogRec /\ r.op = "row" /\ id \in IdsOf(r.rows)
          BY <3>3, <4>1 DEF HasRow, RowOps
        <4>3. IdsOf(r.rows) = {r.rows[1].id}
          BY <4>2, RecordFields
        <4> QED  BY <4>1, <4>2, <4>3
      <3>5. j % 2 # 1
        BY <2>4, <3>3 DEF Sound, PartAt
      <3> DEFINE i == j - 1
      <3>6. i \in 1..Len(file) /\ i % 2 = 1 /\ i < Len(file) /\ i + 1 = j
        BY <2>2, <3>3, <3>5
      <3> HIDE DEF i
      <3>7. \A m \in 1..(i + 1) : m \in 1..Len(file)
        BY <2>2, <3>3, <3>6
      <3>8. i \in Records(file) /\ Rec(file, i) = file[j].rec /\ i + 1 <= Len(file)
        BY <2>2, <2>4, <3>3, <3>6, <3>7 DEF Records, Sound, Rec
      <3> QED  BY <3>4, <3>8
    <2> QED  BY <2>1, <2>3, <2>4 DEF Durable
  <1>5. ASSUME ~Crashes, NEW t \in Threads, ~IngestDone(t),
               \/ \E n \in 1..MaxPerIngest : Ingest(t, n)
               \/ \E op \in Dmls, want \in SUBSET (1..nrows) \ {{}} : DmlOpen(t, op, want)
               \/ WriteLength(t) \/ WriteData(t)
               \/ DmlRow(t) \/ DmlBatch(t) \/ DmlFlush(t) \/ DmlDone(t) \/ ReadStep(t)
        PROVE  acked' = acked /\ synced' = synced
    BY <1>5 DEF Ingest, DmlOpen, DmlRow, DmlBatch, DmlFlush, DmlDone, ReadStep, WriteLength,
       WriteData,
                ReadTombstones, ReadRows, ReadDone, history
  <1>6. CASE ~Crashes
    BY <1>3, <1>4, <1>5, <1>6, NextCases DEF Crashes
  <1> QED  BY <1>1, <1>6

(* A query of the debug build yields a row from its one record.              *)
LEMMA YieldsOnce ==
    ASSUME Types, build = "debug", Debug, NEW D, D \subseteq TombsIn(file),
           NEW y \in Yield(file, D), NEW z \in Yield(file, D), y.row.id = z.row.id
    PROVE  y = z
  <1>1. D \in SUBSET Nat
    BY TombsInFacts
  <1>2. ASSUME NEW x \in Yield(file, D)
        PROVE  \E i \in RowsIn(file) : x \in YieldRows(file, D, i)
    BY <1>2, NoBatches DEF Yield, YieldOf
  <1>3. ASSUME NEW i \in RowsIn(file), NEW x \in YieldRows(file, D, i)
        PROVE  i \in Nat /\ RowAt(i) /\ x.row.id = IdAt(i)
    <2>1. i \in Nat /\ RowAt(i) /\ IdAt(i) = Rec(file, i).rows[1].id
      BY NoBatches, RowsInFacts, RecordsFacts DEF RowAt, IdAt
    <2>2. CASE x = At(i, 1, Rec(file, i).rows[1])
      BY <2>1, <2>2 DEF At
    <2>3. ASSUME NEW d \in Obeyed(file, D, i), Rec(file, d).op = "update", x = At(i, 1, Rec(file,
          d).rows[1])
          PROVE  x.row.id = IdAt(i)
      <3>1. d \in TombsIn(file) /\ Rec(file, d).ref = i
        BY DEF Obeyed, OfRecord
      <3>2. Written(d + 1) /\ Rec(file, d) = file[d + 1].rec /\ Rec(file, d).op \in Tombstones
        BY <3>1, TombsInFacts, RecordsFacts
      <3>3. Marks(Rec(file, d), d + 1)
        BY <3>2 DEF Debug, Marked, MarkedLog
      <3> QED  BY <2>3, <3>1, <3>3 DEF Marks, At
    <2> QED  BY <1>3, <2>1, <2>2, <2>3 DEF YieldRows
  <1>4. PICK i \in RowsIn(file), j \in RowsIn(file) :
            y \in YieldRows(file, D, i) /\ z \in YieldRows(file, D, j)
    BY <1>2
  <1>5. i = j
    BY <1>3, <1>4 DEF Debug, OneRecord
  <1>6. ASSUME OfRecord(file, D, i) # {}  PROVE y = z
    <2>1. PICK d \in Obeyed(file, D, i) : y = At(i, 1, Rec(file, d).rows[1])
      BY <1>4, <1>6 DEF YieldRows
    <2>2. PICK e \in Obeyed(file, D, i) : z = At(i, 1, Rec(file, e).rows[1])
      BY <1>4, <1>5, <1>6 DEF YieldRows
    <2> QED  BY <1>1, <2>1, <2>2, ObeyedIsOne
  <1> QED  BY <1>4, <1>5, <1>6 DEF YieldRows

LEMMA CountedStep ==
    ASSUME Types, Shaped, build = "debug", Debug, Next
    PROVE  Counted'
  <1>0. \A t \in Threads : CountedBy(t)
    BY DEF Debug, Counted
  <1>1. ASSUME NEW t \in Threads, threads'[t].op \notin Dmls \union {"read"},
               \A id \in Ids : threads'[t].hits[id] <= 1
        PROVE  CountedBy(t)'
    BY <1>1 DEF CountedBy, Isdml
  <1>2. CASE Crashes
    <2>1. ASSUME NEW t \in Threads  PROVE CountedBy(t)'
      <3>1. threads'[t] = Idle
        BY <1>2, CrashDoes DEF Crashes
      <3>2. threads'[t].op \notin Dmls \union {"read"} /\ \A id \in Ids : threads'[t].hits[id] <= 1
        BY <3>1, IdleFacts DEF Dmls
      <3> QED  BY <1>1, <3>2
    <2> QED  BY <2>1 DEF Counted
  <1>3. ASSUME ~Crashes, NEW u \in Threads, threads'[u].op = threads[u].op,
               threads'[u].hits = threads[u].hits, threads'[u].pos = threads[u].pos,
               threads'[u].dead = threads[u].dead
        PROVE  CountedBy(u)'
    <2>1. CountedBy(u) /\ TombsIn(file) \subseteq TombsIn(file')
      BY <1>0, <1>3, LogGrows
    <2>2. \A i \in Nat : RowAt(i) => RowAt(i)' /\ IdAt(i)' = IdAt(i)
      BY <1>3, LogGrows
    <2> QED  BY <1>3, <2>1, <2>2 DEF CountedBy, Isdml
  <1>4. ASSUME ~Crashes, NEW t \in Threads, Others(t), CountedBy(t)'  PROVE Counted'
    <2>1. \A u \in Threads \ {t} : CountedBy(u)'
      BY <1>3, <1>4 DEF Others
    <2> QED  BY <1>4, <2>1 DEF Counted
  <1>5. ASSUME ~Crashes, NEW t \in Threads, NEW n \in 1..MaxPerIngest, Ingest(t, n)  PROVE Counted'
    <2>1. Others(t) /\ threads'[t].op = "ingest" /\ threads'[t].hits = Idle.hits
      BY <1>5, IngestDoes
    <2>2. threads'[t].op \notin Dmls \union {"read"} /\ \A id \in Ids : threads'[t].hits[id] <= 1
      BY <2>1, IdleFacts DEF Dmls
    <2> QED  BY <1>1, <1>4, <1>5, <2>1, <2>2
  <1>6. ASSUME ~Crashes, NEW t \in Threads, NEW op \in Dmls, NEW want \in SUBSET (1..nrows) \ {{}},
               DmlOpen(t, op, want)
        PROVE  Counted'
    <2>1. Others(t) /\ threads'[t].op = op /\ threads'[t].hits = Idle.hits
      BY <1>6, DmlOpenDoes DEF EmptyAfter
    <2>2. op # "read" /\ \A id \in Ids : threads'[t].hits[id] = 0
      BY <2>1, IdleFacts DEF Dmls
    <2>3. CountedBy(t)'
      BY <2>1, <2>2 DEF CountedBy
    <2> QED  BY <1>4, <1>6, <2>1, <2>3
  <1>7. ASSUME ~Crashes, NEW t \in Threads, WriteLength(t) \/ WriteData(t)  PROVE Counted'
    <2>1. /\ Others(t) /\ threads'[t].op = threads[t].op /\ threads'[t].hits = threads[t].hits
          /\ threads'[t].pos = threads[t].pos /\ threads'[t].dead = threads[t].dead
      <3>1. CASE WriteLength(t)
        BY <3>1, WriteLengthDoes, ThreadFields DEF Thread
      <3>2. CASE WriteData(t)
        <4>1. Others(t) /\ threads'[t] = [threads[t] EXCEPT !.half = FALSE, !.todo = Tail(@)]
          BY <3>2, WriteDataDoes
        <4> QED  BY <4>1, ThreadFields DEF Thread
      <3> QED  BY <1>7, <3>1, <3>2
    <2> QED  BY <1>3, <1>4, <1>7, <2>1
  <1>8. ASSUME ~Crashes, NEW t \in Threads, IngestDone(t) \/ DmlDone(t) \/ ReadDone(t)
        PROVE Counted'
    <2>1. Others(t) /\ threads'[t] = Idle
      BY <1>8, StopDoes DEF EmptyAfter
    <2>2. threads'[t].op \notin Dmls \union {"read"} /\ \A id \in Ids : threads'[t].hits[id] <= 1
      BY <2>1, IdleFacts DEF Dmls
    <2> QED  BY <1>1, <1>4, <1>8, <2>1, <2>2
  <1>9. ASSUME ~Crashes, NEW t \in Threads, ReadTombstones(t)  PROVE Counted'
    <2>1. /\ Others(t) /\ threads'[t].op = "read" /\ threads'[t].hits = Idle.hits
          /\ threads'[t].dead = TombsIn(file) /\ file' = file
      BY <1>9, ReadTombstonesDoes DEF EmptyAfter, ReadTombstones
    <2>2. /\ threads'[t].op \notin Dmls /\ \A id \in Ids : threads'[t].hits[id] <= 1
      BY <2>1, IdleFacts DEF Dmls
    <2>3. CountedBy(t)'
      BY <2>1, <2>2 DEF CountedBy, Isdml
    <2> QED  BY <1>4, <1>9, <2>1, <2>3
  <1>10. ASSUME ~Crashes, NEW t \in Threads, ReadRows(t)  PROVE Counted'
    <2>1. /\ Others(t) /\ threads[t].op = "read" /\ threads'[t].op = "result"
          /\ \A id \in Ids : threads'[t].hits[id] = Times(Yield(file, threads[t].dead), id)
      BY <1>10, ReadRowsDoes DEF EmptyAfter
    <2>2. threads[t].dead \subseteq TombsIn(file) /\ threads[t].dead \in SUBSET Nat
      BY <1>0, <2>1, ThreadFields DEF CountedBy
    <2>3. \A id : Times(Yield(file, threads[t].dead), id) <= 1
      <3> TAKE id
      <3>1. \A y, z \in Yield(file, threads[t].dead) : y.row.id = id /\ z.row.id = id => y = z
        BY <2>2, YieldsOnce
      <3> QED  BY <2>2, <3>1, YieldInAll, TimesFacts
    <2>4. threads'[t].op \notin Dmls \union {"read"} /\ \A id \in Ids : threads'[t].hits[id] <= 1
      BY <2>1, <2>3 DEF Dmls
    <2> QED  BY <1>1, <1>4, <1>10, <2>1, <2>4
  <1>11. ASSUME ~Crashes, NEW t \in Threads, DmlRow(t)  PROVE Counted'
    <2>1. PICK i \in FirstMatch(threads[t]), tomb \in LogRec : Tombstoned(t, i, tomb)
      BY <1>11, DmlRowDoes
    <2>2. PICK id0 : id0 = Rec(file, i).rows[1].id
      OBVIOUS
    <2>3. /\ Others(t) /\ file' = file /\ threads[t].op \in Dmls /\ threads'[t].op = threads[t].op
          /\ threads'[t].pos = i + 2 /\ threads'[t].hits = Hit(threads[t], {id0})
          /\ id0 \in threads[t].want
      BY <1>11, <2>1, <2>2 DEF Tombstoned, DmlRow
    <2>4. i \in Nat /\ RowAt(i) /\ IdAt(i) = id0 /\ i >= threads[t].pos
      BY <2>1, <2>2, FirstMatchFacts, RowsInFacts, RecordsFacts DEF RowAt, IdAt, Tombstoned
    <2>5. /\ threads[t].pos \in Nat
          /\ \A id \in Ids : /\ threads[t].hits[id] \in Nat
                             /\ threads'[t].hits[id] = threads[t].hits[id] +
                                IF id = id0 THEN 1 ELSE 0
      <3>1. \A id \in Ids : id \in {id0} \intersect threads[t].want <=> id = id0
        BY <2>3
      <3>2. /\ threads[t].pos \in Nat /\ \A id \in Ids : threads[t].hits[id] \in Nat
        BY ThreadFields
      <3>3. \A id \in Ids : Hit(threads[t], {id0})[id] =
                threads[t].hits[id] + IF id \in {id0} \intersect threads[t].want THEN 1 ELSE 0
        BY HitFacts
      <3> QED  BY <2>3, <3>1, <3>2, <3>3
    <2>6. ASSUME NEW id \in Ids
          PROVE  /\ threads[t].hits[id] <= 1
                 /\ threads[t].hits[id] = 1 =>
                    \E j \in Nat : j < threads[t].pos /\ RowAt(j) /\ IdAt(j) = id
      BY <1>0, <2>3 DEF CountedBy, Isdml
    <2>7. ASSUME NEW id \in Ids, id = id0  PROVE threads[t].hits[id] = 0
      <3>1. threads[t].hits[id] # 1
        BY <2>4, <2>5, <2>6, <2>7 DEF Debug, OneRecord
      <3> QED  BY <2>5, <2>6, <3>1
    <2>8. ASSUME NEW id \in Ids
          PROVE  /\ threads'[t].hits[id] <= 1
                 /\ threads'[t].hits[id] = 1 => \E j \in Nat : j < i + 2 /\ RowAt(j) /\ IdAt(j) = id
      <3>1. CASE id = id0
        BY <2>4, <2>5, <2>7, <3>1
      <3>2. CASE id # id0
        <4>1. threads'[t].hits[id] = threads[t].hits[id]
          BY <2>5, <3>2
        <4>2. \A j \in Nat : j < threads[t].pos => j < i + 2
          BY <2>4, <2>5
        <4> QED  BY <2>6, <4>1, <4>2
      <3> QED  BY <3>1, <3>2
    <2>9. \A j \in Nat : (RowAt(j)' <=> RowAt(j)) /\ IdAt(j)' = IdAt(j)
      BY <2>3, SameLog
    <2>10. threads'[t].op # "read"
      BY <2>3 DEF Dmls
    <2>11. CountedBy(t)'
      BY <2>3, <2>8, <2>9, <2>10 DEF CountedBy
    <2> QED  BY <1>4, <1>11, <2>3, <2>11
  <1>12. ASSUME NEW t \in Threads, DmlBatch(t)  PROVE FALSE
    BY <1>12, DmlBatchDoes, NoBatches, FirstMatchFacts DEF Replaced
  <1>13. ASSUME NEW t \in Threads, DmlFlush(t)  PROVE FALSE
    BY <1>13 DEF DmlFlush, Shaped, Shape
  <1>14. CASE ~Crashes
    BY <1>5, <1>6, <1>7, <1>8, <1>9, <1>10, <1>11, <1>12, <1>13, <1>14, NextCases DEF Crashes,
       ReadStep
  <1> QED  BY <1>2, <1>14

LEMMA InitDebug == Init => Debug
  <1> SUFFICES ASSUME Init PROVE Debug
    OBVIOUS
  <1>0. Types /\ Len(file) = 0
    BY InitTypes, EmptySeq DEF Init
  <1>1. \A j : ~Written(j)
    BY <1>0 DEF Written
  <1>2. OneRecord
    BY <1>1 DEF OneRecord, RowAt
  <1>3. \A t \in Threads : threads[t] = Idle
    BY DEF Init
  <1>4. \A t \in Threads : Len(Queue(t)) = 0
    BY <1>0, <1>3, QueueFacts, IdleFacts, EmptySeq
  <1>5. Marked
    BY <1>1, <1>4 DEF Marked, MarkedLog, MarkedQueue
  <1>6. Ingested /\ Counted
    BY <1>3, IdleFacts DEF Ingested, IngestedBy, Counted, CountedBy, Isdml, Dmls
  <1>7. Durable
    BY DEF Durable, Init
  <1> QED  BY <1>2, <1>5, <1>6, <1>7 DEF Debug

LEMMA DebugStep ==
    ASSUME Types, Shaped, Known, Fresh, Debug, Next
    PROVE  Debug'
  <1>1. build' = build
    BY LogGrows, CrashDoes DEF Crashes
  <1>2. CASE build = "debug"
    <2>1. OneRecord' /\ Marked' /\ Ingested' /\ Durable' /\ Counted'
      BY <1>2, OneRecordStep, MarkedStep, IngestedStep, DurableStep, CountedStep
    <2> QED  BY <2>1 DEF Debug
  <1> QED  BY <1>1, <1>2 DEF Debug

-----------------------------------------------------------------------------
(* What the rows read as                                                     *)
LEMMA RewritingsFacts ==
    ASSUME NEW x \in Texts
    PROVE  /\ x \in Rewritings(x)
           /\ \A y \in Rewritings(x) : y \in Texts /\ Reread[y] \in Rewritings(x)
  <1>1. \A y \in Texts : Reread[y] \in Texts
    BY TableLogAssumption DEF TableLogAssumption
  <1>2. x \in Rewritings(x)
    BY DEF Rewritings
  <1>3. ASSUME NEW y \in Rewritings(x)  PROVE y \in Texts /\ Reread[y] \in Rewritings(x)
    <2>1. y \in Texts
      BY DEF Rewritings
    <2>2. ASSUME NEW S \in SUBSET Texts, x \in S, \A z \in S : Reread[z] \in S
          PROVE  Reread[y] \in S
      <3>1. y \in S
        BY <2>2 DEF Rewritings
      <3> QED  BY <2>2, <3>1
    <2> QED  BY <1>1, <2>1, <2>2 DEF Rewritings
  <1> QED  BY <1>2, <1>3

LEMMA TextOfFacts ==
    ASSUME NEW id \in Ids
    PROVE  TextOf[id] \in Texts
  BY TableLogAssumption DEF TableLogAssumption, Ids

LEMMA GivenIsWorded ==
    ASSUME NEW rec \in LogRec, AsGiven(rec), NEW b
    PROVE  IsWorded(rec, b)
  <1>1. ASSUME NEW k \in 1..Len(rec.rows)
        PROVE  rec.rows[k].text \in Rewritings(TextOf[rec.rows[k].id])
    <2>1. rec.rows[k] \in Row
      BY RecordFields, ElementOfSeq
    <2>2. rec.rows[k].id \in Ids /\ rec.rows[k].text = TextOf[rec.rows[k].id]
      BY <2>1 DEF AsGiven, Row
    <2> QED  BY <2>2, TextOfFacts, RewritingsFacts
  <1> QED  BY <1>1 DEF IsWorded, AsPrinted

LEMMA RemadeIsWorded ==
    ASSUME NEW c \in Thread, NEW r \in Row, r.text \in Rewritings(TextOf[r.id]),
           NEW s, s = Printed(r) \/ s = [Printed(r) EXCEPT !.v = c.n]
    PROVE  s.id = r.id /\ s.text \in Rewritings(TextOf[r.id])
  <1>1. Printed(r) \in Row /\ Printed(r).id = r.id /\ Printed(r).text = Reread[r.text]
    BY PrintedFacts
  <1>2. r.id \in Ids
    BY DEF Row
  <1>3. Reread[r.text] \in Rewritings(TextOf[r.id])
    BY <1>2, TextOfFacts, RewritingsFacts
  <1>4. s.id = Printed(r).id /\ s.text = Printed(r).text
    BY <1>1 DEF Row
  <1> QED  BY <1>1, <1>3, <1>4

LEMMA EntryIsWorded ==
    ASSUME Types, Worded, NEW i \in RowsIn(file)
    PROVE  IsWorded(Rec(file, i), build) /\ Rec(file, i) \in LogRec
  <1>1. i \in Records(file)
    BY RowsInFacts
  <1>2. Written(i + 1) /\ Rec(file, i) = file[i + 1].rec /\ Rec(file, i) \in LogRec
    BY <1>1, RecordsFacts
  <1> QED  BY <1>2 DEF Worded

LEMMA RowIsWorded ==
    ASSUME NEW r \in Row, r.text \in Rewritings(TextOf[r.id]), NEW rec, NEW b,
           rec.rows = <<r>>, rec.op \notin Batches, rec.op = "row" => b # "debug"
    PROVE  IsWorded(rec, b)
  <1>1. Len(rec.rows) = 1 /\ rec.rows[1] = r
    BY SeqOne
  <1>2. \A k \in 1..Len(rec.rows) : k = 1
    BY <1>1
  <1>3. AsPrinted(rec)
    BY <1>1, <1>2 DEF AsPrinted
  <1> QED  BY <1>3 DEF IsWorded

LEMMA WordedLog ==
    ASSUME Types, Shaped, Worded, Next, NEW j, Written(j)'
    PROVE  IsWorded(file'[j].rec, build)
  <1>1. CASE Crashes
    <2>1. PICK n \in synced..Len(file) : Crash(n)
      BY <1>1 DEF Crashes
    <2>2. Written(j) /\ file'[j] = file[j]
      BY <2>1, CutFacts
    <2> QED  BY <2>2 DEF Worded
  <1>2. CASE file' = file
    BY <1>2, SameWritten DEF Worded
  <1>3. CASE Grown(Length)
    <2>1. Written(j) /\ file'[j] = file[j]
      BY <1>3, GrownWritten DEF Length
    <2> QED  BY <2>1 DEF Worded
  <1>4. ASSUME NEW t \in Threads, WriteData(t)  PROVE IsWorded(file'[j].rec, build)
    <2>1. PICK rec : rec = Queue(t)[1]
      OBVIOUS
    <2>0. Len(Queue(t)) \in Nat /\ Len(Queue(t)) > 0
      BY <1>4, WriteDataDoes
    <2>2. rec \in LogRec /\ Grown(Data(rec)) /\ 1 \in 1..Len(Queue(t))
      <3>1. rec \in LogRec /\ Grown(Data(rec))
        BY <1>4, <2>1, WriteDataDoes, Zenon
      <3> QED  BY <2>0, <3>1
    <2>3. Data(rec).part = "data" /\ Data(rec).rec = rec
      BY <2>2, RecordFields
    <2>4. CASE Written(j)
      <3>1. file'[j] = file[j]
        BY <2>2, <2>4, GrownWritten
      <3> QED  BY <2>4, <3>1 DEF Worded
    <2>5. CASE j = Len(file) + 1
      <3>1. file'[j].rec = rec
        BY <2>2, <2>3, <2>5 DEF Grown
      <3> QED  BY <2>1, <2>2, <3>1 DEF Worded
    <2> QED  BY <2>2, <2>4, <2>5, GrownWritten
  <1> QED  BY <1>1, <1>2, <1>3, <1>4, FileSteps

LEMMA WordedQueue ==
    ASSUME Types, Shaped, Debug, Worded, Next, NEW u \in Threads, NEW k \in 1..Len(Queue(u)')
    PROVE  IsWorded(Queue(u)'[k], build)
  <1> DEFINE Goal == IsWorded(Queue(u)'[k], build)
  <1>0. \A t \in Threads : \A m \in 1..Len(Queue(t)) : IsWorded(Queue(t)[m], build)
    BY DEF Worded
  <1>1. CASE Queue(u)' = <<>>
    BY <1>1, EmptySeq
  <1>2. CASE Queue(u)' = Queue(u)
    BY <1>0, <1>2
  <1>3. CASE Crashes
    BY <1>1, <1>3, CrashDoes DEF Crashes
  <1>4. ASSUME NEW t \in Threads, NEW n \in 1..MaxPerIngest, Ingest(t, n)  PROVE Goal
    <2>1. Others(t) /\ Typed /\ NewRows(t, n)
      BY <1>4, IngestDoes
    <2>2. CASE u = t
      <3>1. threads'[t].todo \in Seq(LogRec) /\ threads'[t].pending \in Seq(LogRec)
        BY <2>1 DEF Typed, Thread
      <3>2. Queue(t)' \in Seq(LogRec)
        BY <3>1, ConcatProperties DEF Queue
      <3>3. Queue(t)'[k] \in LogRec /\ AsGiven(Queue(t)'[k])
        BY <2>1, <2>2, <3>2, ElementOfSeq DEF NewRows
      <3> QED  BY <2>2, <3>3, GivenIsWorded
    <2> QED  BY <1>2, <2>1, <2>2 DEF Others
  <1>5. ASSUME NEW t \in Threads,
               \/ \E op \in Dmls, want \in SUBSET (1..nrows) \ {{}} : DmlOpen(t, op, want)
               \/ IngestDone(t) \/ DmlDone(t) \/ ReadStep(t)
        PROVE  Goal
    <2>1. EmptyAfter(t)
      BY <1>5, DmlOpenDoes, StopDoes, ReadTombstonesDoes, ReadRowsDoes DEF ReadStep
    <2> QED  BY <1>1, <1>2, <2>1 DEF EmptyAfter, Others
  <1>6. ASSUME NEW t \in Threads, WriteLength(t) \/ DmlFlush(t)  PROVE Goal
    <2>1. Others(t) /\ Queue(t)' = Queue(t)
      BY <1>6, WriteLengthDoes, DmlFlushDoes
    <2> QED  BY <1>2, <2>1 DEF Others
  <1>7. ASSUME NEW t \in Threads, WriteData(t)  PROVE Goal
    <2>1. /\ Others(t) /\ Len(Queue(t)) \in Nat /\ Len(Queue(t)') = Len(Queue(t)) - 1
          /\ \A m \in 1..(Len(Queue(t)) - 1) : Queue(t)'[m] = Queue(t)[m + 1]
      BY <1>7, WriteDataDoes
    <2>2. CASE u = t
      <3>1. k + 1 \in 1..Len(Queue(t)) /\ Queue(t)'[k] = Queue(t)[k + 1]
        BY <2>1, <2>2
      <3> QED  BY <1>0, <2>2, <3>1
    <2> QED  BY <1>2, <2>1, <2>2 DEF Others
  <1>8. ASSUME NEW t \in Threads, DmlRow(t)  PROVE Goal
    <2>1. PICK i \in FirstMatch(threads[t]), tomb \in LogRec : Tombstoned(t, i, tomb)
      BY <1>8, DmlRowDoes
    <2>2. CASE u # t
      BY <1>2, <2>1, <2>2 DEF Tombstoned, Others
    <2>3. CASE u = t
      <3>1. (k = 1 /\ Queue(t)'[k] = tomb)
            \/ (k - 1 \in 1..Len(Queue(t)) /\ Queue(t)'[k] = Queue(t)[k - 1])
        BY <2>1, <2>3, TombQueued
      <3>2. CASE k - 1 \in 1..Len(Queue(t)) /\ Queue(t)'[k] = Queue(t)[k - 1]
        BY <1>0, <2>3, <3>2
      <3>3. IsWorded(tomb, build)
        <4>1. PICK r : r = Rec(file, i).rows[1]
          OBVIOUS
        <4>2. /\ Rec(file, i).op = "row" /\ tomb.op = threads[t].op /\ tomb.op \in Dmls
              /\ tomb.rows = IF tomb.op = "delete" THEN <<>>
                             ELSE <<[Printed(r) EXCEPT !.v = threads[t].n]>>
          BY <2>1, <4>1 DEF Tombstoned
        <4>3. tomb.op \notin Batches /\ tomb.op # "row"
          BY <4>2 DEF Dmls, Batches
        <4>4. i \in RowsIn(file) /\ IsWorded(Rec(file, i), build) /\ Rec(file, i) \in LogRec
          BY FirstMatchFacts, EntryIsWorded
        <4>5. Len(Rec(file, i).rows) = 1 /\ r \in Row
          BY <4>1, <4>2, <4>4, RecordFields
        <4>6. r.text \in Rewritings(TextOf[r.id])
          BY <4>1, <4>4, <4>5 DEF IsWorded, AsPrinted
        <4>7. CASE tomb.op = "delete"
          <5>1. Len(tomb.rows) = 0
            BY <4>2, <4>7, EmptySeq
          <5> QED  BY <4>3, <5>1 DEF IsWorded, AsPrinted
        <4>8. CASE tomb.op # "delete"
          <5>1. PICK x : x = [Printed(r) EXCEPT !.v = threads[t].n]
            OBVIOUS
          <5>2. x.id = r.id /\ x.text \in Rewritings(TextOf[r.id])
            BY <4>5, <4>6, <5>1, ThreadFields, RemadeIsWorded
          <5>3. tomb.rows = <<x>> /\ x \in Row
            <6>1. tomb.rows = <<x>>
              BY <4>2, <4>8, <5>1
            <6>2. tomb.op = "update"
              BY <4>2, <4>8 DEF Dmls
            <6>3. tomb.rows[1] \in Row
              BY <6>2, RecordFields
            <6> QED  BY <6>1, <6>3
          <5> QED  BY <4>3, <5>2, <5>3, RowIsWorded
        <4> QED  BY <4>7, <4>8
      <3> QED  BY <2>3, <3>1, <3>2, <3>3
    <2> QED  BY <2>2, <2>3
  <1>9. ASSUME NEW t \in Threads, DmlBatch(t)  PROVE Goal
    <2>1. PICK i \in FirstMatch(threads[t]) : Replaced(t, i)
      BY <1>9, DmlBatchDoes
    <2>2. CASE u # t
      BY <1>2, <2>1, <2>2 DEF Replaced, Others
    <2>3. CASE u = t
      <3>1. \/ k \in 1..Len(Queue(t)) /\ Queue(t)'[k] = Queue(t)[k]
            \/ Queue(t)'[k] = DeleteRec(i)
            \/ \E m \in 1..Len(Survivors(t, i)) : Queue(t)'[k] = Survivors(t, i)[m]
        <4>1. \A j \in 1..Len(Queue(t)') :
                \/ j \in 1..Len(Queue(t)) /\ Queue(t)'[j] = Queue(t)[j]
                \/ Queue(t)'[j] = DeleteRec(i)
                \/ \E m \in 1..Len(Survivors(t, i)) : Queue(t)'[j] = Survivors(t, i)[m]
          BY <2>1, BatchQueued
        <4> QED  BY <2>3, <4>1
      <3>2. CASE k \in 1..Len(Queue(t)) /\ Queue(t)'[k] = Queue(t)[k]
        BY <1>0, <2>3, <3>2
      <3>3. IsWorded(DeleteRec(i), build)
        <4>1. Len(DeleteRec(i).rows) = 0 /\ DeleteRec(i).op = "delete"
          BY EmptySeq DEF DeleteRec
        <4> QED  BY <4>1 DEF IsWorded, AsPrinted, Batches
      <3>4. ASSUME NEW m \in 1..Len(Survivors(t, i))  PROVE IsWorded(Survivors(t, i)[m], build)
        <4>1. Rec(file, i).op = "batch" /\ i \in RowsIn(file)
          BY <2>1, FirstMatchFacts DEF Replaced
        <4>2. build # "debug"
          BY <4>1, NoBatches
        <4>3. PICK g \in 1..Len(Rec(file, i).rows) :
                    Survivors(t, i)[m] = RowRec(Remade(threads[t], Rec(file, i).rows[g])[1])
                    /\ Len(Remade(threads[t], Rec(file, i).rows[g])) = 1
          BY <2>1 DEF Replaced, FromRows
        <4>4. PICK r : r = Rec(file, i).rows[g]
          OBVIOUS
        <4>5. IsWorded(Rec(file, i), build) /\ Rec(file, i) \in LogRec
          BY <4>1, EntryIsWorded
        <4>6. r \in Row /\ r.text \in Rewritings(TextOf[r.id])
          BY <4>4, <4>5, RecordFields, ElementOfSeq DEF IsWorded, AsPrinted
        <4>7. PICK x : x = Remade(threads[t], r)[1]
          OBVIOUS
        <4>8. x = Printed(r) \/ x = [Printed(r) EXCEPT !.v = threads[t].n]
          <5>1. \A z : Len(<<z>>) = 1 /\ <<z>>[1] = z
            BY SeqOne
          <5>2. Len(<<>>) = 0
            BY EmptySeq
          <5> QED  BY <4>3, <4>4, <4>7, <5>1, <5>2 DEF Remade
        <4>9. x \in Row
          BY <4>3, <4>4, <4>6, <4>7, RemadeIsShort, ThreadFields, ElementOfSeq
        <4>10. x.id = r.id /\ x.text \in Rewritings(TextOf[r.id])
          BY <4>6, <4>8, ThreadFields, RemadeIsWorded
        <4>11. Survivors(t, i)[m] = RowRec(x)
          BY <4>3, <4>4, <4>7
        <4>12. RowRec(x).rows = <<x>> /\ RowRec(x).op = "row"
          BY DEF RowRec
        <4>13. "row" \notin Batches
          BY DEF Batches
        <4> QED  BY <4>2, <4>9, <4>10, <4>11, <4>12, <4>13, RowIsWorded
      <3> QED  BY <2>3, <3>1, <3>2, <3>3, <3>4
    <2> QED  BY <2>2, <2>3
  <1> HIDE DEF Goal
  <1>10. Goal
    BY <1>3, <1>4, <1>5, <1>6, <1>7, <1>8, <1>9, NextCases DEF Crashes, Goal
  <1> QED  BY <1>10 DEF Goal

LEMMA WordedStep ==
    ASSUME Types, Shaped, Debug, Worded, Next
    PROVE  Worded'
  <1>1. build' = build
    BY LogGrows, CrashDoes DEF Crashes
  <1>2. \A j : Written(j)' => IsWorded(file'[j].rec, build')
    BY <1>1, WordedLog
  <1>3. \A t \in Threads : \A k \in 1..Len(Queue(t)') : IsWorded(Queue(t)'[k], build')
    BY <1>1, WordedQueue
  <1> QED  BY <1>2, <1>3 DEF Worded, IsWorded, AsPrinted, AsGiven

LEMMA InitWorded == Init => Worded
  <1> SUFFICES ASSUME Init PROVE Worded
    OBVIOUS
  <1>0. Types /\ Len(file) = 0
    BY InitTypes, EmptySeq DEF Init
  <1>1. \A j : ~Written(j)
    BY <1>0 DEF Written
  <1>2. \A t \in Threads : threads[t] = Idle
    BY DEF Init
  <1>3. \A t \in Threads : Len(Queue(t)) = 0
    BY <1>0, <1>2, QueueFacts, IdleFacts, EmptySeq
  <1> QED  BY <1>1, <1>3 DEF Worded

(* What load_tbl yields of a row that no DELETE has counted, unless what it  *)
(* was ingested with looks like a batch.                                     *)
LEMMA SurvivesFacts ==
    ASSUME Types, Debug, Worded, build = "debug"
    PROVE  acked \ gone \subseteq IdsIn(Contents(file)) \union {id \in Ids : TextOf[id] \in Mistaken}
  <1> SUFFICES ASSUME NEW id \in acked \ gone, id \in Ids, TextOf[id] \notin Mistaken
               PROVE  \E y \in Contents(file) : y.row.id = id
    BY DEF IdsIn, Types
  <1>1. PICK i \in Records(file) : Rec(file, i).op = "row" /\ Rec(file, i).rows[1].id = id
    BY DEF Debug, Durable
  <1>2. i \in RowsIn(file) /\ YieldRows(file, TombsIn(file), i) \subseteq Contents(file)
    <2>1. i \in RowsIn(file)
      BY <1>1 DEF RowsIn, TombsIn, Tombstones
    <2>2. IsWorded(Rec(file, i), build) /\ Rec(file, i) \in LogRec
      BY <2>1, EntryIsWorded
    <2>3. Len(Rec(file, i).rows) = 1
      BY <1>1, <2>2, RecordFields
    <2>4. Rec(file, i).rows[1].text = TextOf[id]
      BY <1>1, <2>2, <2>3 DEF IsWorded, AsGiven
    <2>5. Loaded(Rec(file, i))
      BY <1>1, <2>4 DEF Loaded, Garbled
    <2> QED  BY <1>1, <2>1, <2>5 DEF Contents, Yield, YieldOf
  <1> DEFINE T == OfRecord(file, TombsIn(file), i)
  <1>3. CASE T = {}
    <2>1. At(i, 1, Rec(file, i).rows[1]) \in Contents(file)
      BY <1>2, <1>3 DEF YieldRows
    <2> QED  BY <1>1, <2>1 DEF At
  <1>4. CASE T # {}
    <2>1. T \in SUBSET Nat
      BY TombsInFacts DEF OfRecord
    <2>2. PICK d \in T : \A e \in T : d <= e
      <3> HIDE DEF T
      <3> QED  BY <1>4, <2>1, NatMin
    <2>3. d \in TombsIn(file) /\ Rec(file, d).ref = i /\ d \in Obeyed(file, TombsIn(file), i)
      BY <2>2 DEF Obeyed, OfRecord
    <2>4. Marks(Rec(file, d), d + 1) /\ Rec(file, d).op \in Tombstones
      BY <2>3, TombsInFacts, RecordsFacts DEF Debug, Marked, MarkedLog
    <2>5. IdAt(i) = id
      BY <1>1, RecordsFacts DEF IdAt
    <2>6. Rec(file, d).op = "update" /\ Rec(file, d).rows[1].id = id
      BY <2>3, <2>4, <2>5 DEF Marks, Tombstones
    <2>7. At(i, 1, Rec(file, d).rows[1]) \in Contents(file)
      BY <1>2, <1>4, <2>3, <2>6 DEF YieldRows
    <2> QED  BY <2>6, <2>7 DEF At
  <1> QED  BY <1>3, <1>4


-----------------------------------------------------------------------------
(* The theorems                                                              *)

LEMMA LogInvHolds == Spec => []LogInv
  <1>1. Init => LogInv
    BY InitTypes, InitShaped, InitRows, InitDebug, InitWorded DEF LogInv
  <1>2. ASSUME LogInv, Next  PROVE LogInv'
    <2>1. build = "debug" => \A i \in RowsIn(file) : Rec(file, i).op \notin Batches
      BY <1>2, NoBatches DEF LogInv, Batches
    <2> QED  BY <1>2, <2>1, TypesStep, ShapedStep, RowsStep, DebugStep, WordedStep DEF LogInv
  <1>3. ASSUME LogInv, UNCHANGED vars  PROVE LogInv'
    <2>1. /\ file' = file /\ threads' = threads /\ build' = build /\ synced' = synced
          /\ tables_mu' = tables_mu /\ nrows' = nrows /\ statements' = statements
          /\ crashes' = crashes /\ acked' = acked /\ gone' = gone /\ answers' = answers
          /\ raced' = raced
      BY <1>3 DEF vars
    <2>2. Types' /\ Shaped'
      BY <1>3, <2>1 DEF LogInv, Types, Shaped, Held, Shape, Isdml, Queue
    <2>3. Known' /\ Fresh'
      <3>1. Known'
        BY <1>3, <2>1 DEF LogInv, Known, WrittenRow, Written, QueuedRow, Queue, Isdml
      <3>2. Fresh'
        <4>1. \A t, k, id : QueuedRow(t, k, id)' <=> QueuedRow(t, k, id)
          BY <2>1 DEF QueuedRow, Queue
        <4>2. \A j, id : WrittenRow(j, id)' <=> WrittenRow(j, id)
          BY <2>1, SameWritten
        <4> QED  BY <1>3, <2>1, <4>1, <4>2 DEF LogInv, Fresh
      <3> QED  BY <3>1, <3>2
    <2>4. ASSUME build = "debug"  PROVE Debug'
      <3>1. OneRecord /\ Marked /\ Ingested /\ Durable /\ Counted
        BY <1>3, <2>4 DEF LogInv, Debug
      <3>2. OneRecord' /\ Durable'
        BY <2>1, <3>1 DEF OneRecord, RowAt, IdAt, Written, Durable
      <3>3. Marked'
        <4>1. MarkedLog'
          BY <2>1, <3>1 DEF Marked, MarkedLog, Marks, RowAt, IdAt, Written
        <4>2. \A t \in Threads : MarkedQueue(t)'
          <5>1. ASSUME NEW rec, NEW n, Marks(rec, n)  PROVE Marks(rec, n)'
            BY <2>1, <5>1 DEF Marks, RowAt, IdAt, Written
          <5>2. ASSUME NEW t \in Threads, NEW k \in 1..Len(Queue(t)), NEW rec, rec = Queue(t)[k],
                       rec.op \in Tombstones, NEW n, n = Len(file) + 1
                PROVE  Marks(rec, n)'
            BY <3>1, <5>1, <5>2 DEF Marked, MarkedQueue
          <5>3. \A t \in Threads : Queue(t)' = Queue(t)
            BY <2>1 DEF Queue
          <5> QED  BY <2>1, <5>2, <5>3 DEF MarkedQueue
        <4> QED  BY <4>1, <4>2 DEF Marked
      <3>4. Ingested'
        BY <2>1, <3>1 DEF Ingested, IngestedBy, Written, WrittenRow, QueuedRow, Queue
      <3>5. Counted'
        BY <2>1, <3>1 DEF Counted, CountedBy, RowAt, IdAt, Written, Isdml
      <3> QED  BY <2>1, <3>2, <3>3, <3>4, <3>5 DEF Debug
    <2>5. Debug'
      BY <2>1, <2>4 DEF Debug
    <2>6. Worded'
      <3>1. \A t \in Threads : Queue(t)' = Queue(t)
        BY <2>1 DEF Queue
      <3>2. \A j : Written(j)' <=> Written(j)
        BY <2>1 DEF Written
      <3>3. (\A j : Written(j) => IsWorded(file[j].rec, build))'
        BY <1>3, <2>1, <3>2 DEF LogInv, Worded
      <3>4. (\A t \in Threads : \A k \in 1..Len(Queue(t)) : IsWorded(Queue(t)[k], build))'
        BY <1>3, <2>1, <3>1 DEF LogInv, Worded
      <3> QED  BY <3>3, <3>4 DEF Worded
    <2> QED  BY <2>2, <2>3, <2>5, <2>6 DEF LogInv
  <1> QED  BY <1>1, <1>2, <1>3, PTL DEF Spec

(* What the statements keep and append has its type, and tables_mu is held   *)
(* by a DELETE or UPDATE that is writing (api.c:3184-3487).                  *)
THEOREM LogTypes == Spec => []TypeOK
  <1>1. ASSUME LogInv  PROVE TypeOK
    <2>1. Part \subseteq {Length} \union [part : {"data"}, rec : LogRecord]
      BY DEF Part, LogRec
    <2>2. \A s : s \in Seq(LogRec) => s \in Seq(LogRecord)
      BY DEF LogRec
    <2>3. Thread \subseteq Statement
      BY <2>2 DEF Thread, Statement
    <2>4. file \in Seq({Length} \union [part : {"data"}, rec : LogRecord])
      BY <1>1, <2>1 DEF LogInv, Types
    <2>5. threads \in [Threads -> Statement]
      BY <1>1, <2>3 DEF LogInv, Types
    <2> QED  BY <1>1, <2>4, <2>5 DEF LogInv, Types, Shaped, Held, Isdml, TypeOK
  <1> QED  BY <1>1, LogInvHolds, PTL

(* With the debug build an ingestion that was answered is read until a       *)
(* DELETE counts its row, across crashes and records torn behind it          *)
(* (storage.c:376, api.c:1594-1730).                                         *)
THEOREM RowsSurvive == Spec => []SyncedRowsSurvive
  <1>1. LogInv => SyncedRowsSurvive
    BY SurvivesFacts DEF LogInv, SyncedRowsSurvive
  <1> QED  BY <1>1, LogInvHolds, PTL

-----------------------------------------------------------------------------
(* The release build, while no two DMLs have overlapped                      *)

Holds(i, id) == i \in RowsIn(file) /\ id \in IdsOf(Rec(file, i).rows)

(* A row is written again only behind the tombstone of the record that held  *)
(* it: so in every beginning of the log one record of a row has no tombstone.*)
Superseded ==
    \A i, j, id : Holds(i, id) /\ Holds(j, id) /\ i < j =>
        \E d \in TombsIn(file) : d < j /\ Rec(file, d).ref = i

OneDml == \A t, u \in Threads : Isdml(t) /\ Isdml(u) => t = u

(* What the scan acts on: records that had no tombstone when it began, the   *)
(* one whose length was then the end of the log among them.                  *)
InScan(t, i, id) == Holds(i, id) /\ i <= threads[t].end /\ i \notin threads[t].dead
Passed(t, i) == i \in Nat /\ i <= threads[t].end /\ i < threads[t].pos

Began(t) ==
    threads[t].end <= Len(file) /\ (threads[t].half => threads[t].end < Len(file))
OneEach(t) == \A i, j, id : InScan(t, i, id) /\ InScan(t, j, id) => i = j
TombstonesSeen(t) ==
    /\ \A d \in TombsIn(file) :
        Rec(file, d).ref \in threads[t].dead \/ Passed(t, Rec(file, d).ref)
    /\ \A k \in 1..Len(Queue(t)) : Queue(t)[k].op \in Tombstones => Passed(t, Queue(t)[k].ref)
HitOnce(t) ==
    \A id \in Ids : /\ threads[t].hits[id] <= 1
                    /\ threads[t].hits[id] = 1 => \E i : Passed(t, i) /\ InScan(t, i, id)

(* The rows it will write again: each once, of a record it has passed, and   *)
(* behind the tombstone of every record that holds the row.                  *)
RowsOnce(t) == \A k, m, id : QueuedRow(t, k, id) /\ QueuedRow(t, m, id) => k = m
FromScan(t) == \A k, id : QueuedRow(t, k, id) => \E i : Passed(t, i) /\ InScan(t, i, id)
Masks(rec, i) == rec.op \in Tombstones /\ rec.ref = i
Behind(t) ==
    \A k, i, id : QueuedRow(t, k, id) /\ Holds(i, id) =>
        \/ \E j : Written(j) /\ Masks(file[j].rec, i)
        \/ \E m \in 1..Len(Queue(t)) : m < k /\ Masks(Queue(t)[m], i)

Scan(t) == /\ Began(t) /\ OneEach(t) /\ TombstonesSeen(t) /\ HitOnce(t)
           /\ RowsOnce(t) /\ FromScan(t) /\ Behind(t)

Release ==
    build = "release" /\ ~raced =>
        Superseded /\ OneDml /\ \A t \in Threads : Isdml(t) => Scan(t)

-----------------------------------------------------------------------------
(* What a reader finds from step to step                                     *)

LEMMA HoldsFacts ==
    ASSUME Types, NEW i, NEW id, Holds(i, id)
    PROVE  /\ i \in RowsIn(file) /\ i \in Records(file) /\ i \in Nat /\ i < Len(file)
           /\ WrittenRow(i + 1, id)
  <1>1. i \in RowsIn(file) /\ i \in Records(file) /\ Rec(file, i).op \in RowOps
        /\ id \in IdsOf(Rec(file, i).rows)
    BY RowsInFacts DEF Holds
  <1>2. i \in Nat /\ i + 1 \in 1..Len(file) /\ Written(i + 1) /\ Rec(file, i) = file[i + 1].rec
    BY <1>1, RecordsFacts
  <1>3. i < Len(file)
    BY <1>2, FileFacts
  <1> QED  BY <1>1, <1>2, <1>3 DEF WrittenRow, HasRow

(* A record a reader finds at the end of the log has a sound log before it.  *)
LEMMA NewRecord ==
    ASSUME Types, NEW x \in Part, Grown(x), NEW i \in Records(file'), i \notin Records(file)
    PROVE  /\ i = Len(file) /\ x.part = "data" /\ Rec(file', i) = x.rec
           /\ \A j : Written(j) => j - 1 \in Records(file)
  <1> DEFINE L == Len(file)
  <1>1. /\ L \in Nat /\ Len(file') = L + 1 /\ \A j \in 1..L : file'[j] = file[j]
        /\ file'[L + 1] = x
    BY FileFacts DEF Grown
  <1>2. i \in 1..(L + 1) /\ i < L + 1 /\ i % 2 = 1
        /\ \A j \in 1..(i + 1) : file'[j].part = PartAt(j)
    BY <1>1 DEF Records
  <1> HIDE DEF L
  <1>3. i = L
    <2>1. ASSUME i # L  PROVE i \in 1..L /\ i < L /\ \A j \in 1..(i + 1) : j \in 1..L
      BY <1>1, <1>2, <2>1
    <2>2. ASSUME i # L  PROVE \A j \in 1..(i + 1) : file[j].part = PartAt(j)
      BY <1>1, <1>2, <2>1, <2>2
    <2> QED  BY <1>2, <2>1, <2>2 DEF Records, L
  <1>4. file'[i + 1] = x /\ i + 1 \in 1..(i + 1) /\ (i + 1) % 2 # 1
    BY <1>1, <1>2, <1>3
  <1>5. x.part = "data" /\ Rec(file', i) = x.rec
    BY <1>2, <1>4 DEF PartAt, Rec
  <1>6. ASSUME NEW j, Written(j)  PROVE j - 1 \in Records(file)
    <2>1. j \in 1..L /\ file[j].part = "data"
      BY <1>6 DEF Written, L
    <2>2. \A k \in 1..L : k \in 1..(i + 1) /\ file[k].part = PartAt(k)
      BY <1>1, <1>2, <1>3
    <2>3. j % 2 # 1
      BY <2>1, <2>2 DEF PartAt
    <2>4. PICK m : m = j - 1
      OBVIOUS
    <2>5. m \in 1..L /\ m % 2 = 1 /\ m < L /\ m + 1 = j
      BY <1>1, <2>1, <2>3, <2>4
    <2>6. \A k \in 1..(m + 1) : k \in 1..L
      BY <1>1, <2>1, <2>5
    <2>7. m \in Records(file)
      BY <2>2, <2>5, <2>6 DEF Records, L
    <2> QED  BY <2>4, <2>7
  <1> QED  BY <1>3, <1>5, <1>6 DEF L

LEMMA HoldsGrow ==
    ASSUME Types, NEW x \in Part, Grown(x)
    PROVE  /\ \A i, id : Holds(i, id) => Holds(i, id)'
           /\ \A i, id : Holds(i, id)' /\ ~Holds(i, id) =>
                /\ i = Len(file) /\ x.part = "data" /\ HasRow(x.rec, id)
                /\ \A j : Written(j) => j - 1 \in Records(file)
           /\ \A d \in TombsIn(file) : d \in TombsIn(file') /\ Rec(file', d) = Rec(file, d)
           /\ \A d \in TombsIn(file') \ TombsIn(file) :
                /\ d = Len(file) /\ x.part = "data" /\ Rec(file', d) = x.rec
                /\ x.rec.op \in Tombstones
  <1>1. /\ Records(file) \subseteq Records(file')
        /\ \A i \in Records(file) : Rec(file', i) = Rec(file, i)
        /\ TombsIn(file) \subseteq TombsIn(file') /\ RowsIn(file) \subseteq RowsIn(file')
    BY RecordsGrow
  <1>2. \A i \in Records(file') \ Records(file) :
            /\ i = Len(file) /\ x.part = "data" /\ Rec(file', i) = x.rec
            /\ \A j : Written(j) => j - 1 \in Records(file)
    BY NewRecord
  <1>3. x.part = "data" => x.rec \in LogRec /\ x.rec.op \in Ops
    <2>1. x.part = "data" => x.rec \in LogRec
      BY DEF Part, Length
    <2> QED  BY <2>1, RecordFields
  <1>4. ASSUME NEW i, NEW id, Holds(i, id)  PROVE Holds(i, id)'
    <2>1. i \in Records(file) /\ i \in RowsIn(file) /\ id \in IdsOf(Rec(file, i).rows)
      BY <1>4 DEF Holds, RowsIn
    <2> QED  BY <1>1, <2>1 DEF Holds
  <1>5. ASSUME NEW i, NEW id, Holds(i, id)', ~Holds(i, id)
        PROVE  /\ i = Len(file) /\ x.part = "data" /\ HasRow(x.rec, id)
               /\ \A j : Written(j) => j - 1 \in Records(file)
    <2>1. i \in RowsIn(file') /\ i \in Records(file') /\ id \in IdsOf(Rec(file', i).rows)
      BY <1>5 DEF Holds, RowsIn
    <2>2. i \notin Records(file)
      <3>1. ASSUME i \in Records(file)  PROVE i \in RowsIn(file)
        BY <1>1, <2>1, <3>1 DEF RowsIn, TombsIn
      <3> QED  BY <1>1, <1>5, <2>1, <3>1 DEF Holds
    <2>3. Rec(file', i).op \notin Tombstones
      BY <2>1 DEF RowsIn, TombsIn
    <2> QED  BY <1>2, <1>3, <2>1, <2>2, <2>3 DEF HasRow, Ops
  <1>6. ASSUME NEW d \in TombsIn(file)
        PROVE  d \in TombsIn(file') /\ Rec(file', d) = Rec(file, d)
    BY <1>1, <1>6 DEF TombsIn
  <1>7. ASSUME NEW d \in TombsIn(file') \ TombsIn(file)
        PROVE  /\ d = Len(file) /\ x.part = "data" /\ Rec(file', d) = x.rec
               /\ x.rec.op \in Tombstones
    BY <1>1, <1>2, <1>7 DEF TombsIn
  <1> QED  BY <1>4, <1>5, <1>6, <1>7

LEMMA SameHolds ==
    ASSUME file' = file
    PROVE  /\ \A i, id : Holds(i, id)' <=> Holds(i, id)
           /\ TombsIn(file') = TombsIn(file) /\ \A d : Rec(file', d) = Rec(file, d)
  BY SameLog DEF Holds

(* A length adds no record.                                                  *)
LEMMA LengthHolds ==
    ASSUME Types, Grown(Length)
    PROVE  /\ \A i, id : Holds(i, id)' <=> Holds(i, id)
           /\ TombsIn(file') = TombsIn(file)
           /\ \A d \in TombsIn(file) : Rec(file', d) = Rec(file, d)
           /\ \A j : Written(j) => Written(j)' /\ file'[j] = file[j]
  <1>1. Length \in Part /\ Length.part # "data"
    BY DEF Part, Length
  <1> QED  BY <1>1, HoldsGrow, GrownWritten

LEMMA CutHolds ==
    ASSUME Types, NEW n \in synced..Len(file), Crash(n)
    PROVE  /\ \A i, id : Holds(i, id)' => Holds(i, id) /\ i \in Nat /\ i + 1 <= n
           /\ \A d \in TombsIn(file) :
                d + 1 <= n => d \in TombsIn(file') /\ Rec(file', d) = Rec(file, d)
  <1>1. /\ \A i \in Records(file) :
                i + 1 <= n => i \in Records(file') /\ Rec(file', i) = Rec(file, i)
        /\ \A i \in Records(file') : i \in Records(file) /\ Rec(file', i) = Rec(file, i)
           /\ i + 1 <= n
    BY CutFacts
  <1>2. \A i \in Records(file) : i \in Nat
    BY RecordsFacts
  <1> QED  BY <1>1, <1>2 DEF Holds, RowsIn, TombsIn

(* A record that masks another, where the log is sound, is a tombstone a     *)
(* reader finds.                                                             *)
LEMMA MaskIsFound ==
    ASSUME Types, NEW j, NEW i, Written(j), Masks(file[j].rec, i), j - 1 \in Records(file)
    PROVE  \E d \in TombsIn(file) : d < Len(file) /\ Rec(file, d).ref = i
  <1>1. PICK d : d = j - 1
    OBVIOUS
  <1>2. d \in Records(file) /\ d \in Nat /\ d \in 1..Len(file) /\ d + 1 \in 1..Len(file)
        /\ Rec(file, d) = file[d + 1].rec /\ Len(file) \in Nat
    BY <1>1, RecordsFacts, FileFacts
  <1>3. j \in Nat /\ d + 1 = j /\ d < Len(file)
    BY <1>1, <1>2, FileFacts DEF Written
  <1> QED  BY <1>2, <1>3 DEF Masks, TombsIn

LEMMA SupersededStep ==
    ASSUME LogInv, Superseded, \A t \in Threads : Isdml(t) => Scan(t), Next
    PROVE  Superseded'
  <1>0. Types /\ Shaped /\ Known /\ Fresh
    BY DEF LogInv
  <1>1. CASE Crashes
    <2>1. PICK n \in synced..Len(file) : Crash(n)
      BY <1>1 DEF Crashes
    <2>2. ASSUME NEW i, NEW j, NEW id, Holds(i, id)', Holds(j, id)', i < j
          PROVE  \E d \in TombsIn(file') : d < j /\ Rec(file', d).ref = i
      <3>1. Holds(i, id) /\ Holds(j, id) /\ j \in Nat /\ j + 1 <= n /\ n \in Nat
        BY <1>0, <2>1, <2>2, CutHolds, CrashDoes
      <3>2. PICK d \in TombsIn(file) : d < j /\ Rec(file, d).ref = i
        BY <2>2, <3>1 DEF Superseded
      <3>3. d \in Nat
        BY <1>0, TombsInFacts
      <3>4. d + 1 <= n
        BY <3>1, <3>2, <3>3
      <3> QED  BY <1>0, <2>1, <3>2, <3>4, CutHolds
    <2> QED  BY <2>2 DEF Superseded
  <1>2. CASE file' = file
    BY <1>2, SameHolds DEF Superseded
  <1>3. CASE Grown(Length)
    BY <1>0, <1>3, LengthHolds DEF Superseded
  <1>4. ASSUME NEW t \in Threads, WriteData(t)  PROVE Superseded'
    <2>1. PICK rec : rec = Queue(t)[1]
      OBVIOUS
    <2>2. /\ rec \in LogRec /\ Grown(Data(rec)) /\ threads[t].op \in Dmls \union {"ingest"}
          /\ Len(file) \in Nat
      BY <1>0, <1>4, <2>1, WriteDataDoes, FileFacts
    <2>3. Data(rec) \in Part /\ Data(rec).part = "data" /\ Data(rec).rec = rec
      BY <2>2, RecordFields
    <2>4. /\ \A i, id : Holds(i, id)' /\ ~Holds(i, id) =>
                /\ i = Len(file) /\ HasRow(rec, id)
                /\ \A j : Written(j) => j - 1 \in Records(file)
          /\ \A d \in TombsIn(file) : d \in TombsIn(file') /\ Rec(file', d) = Rec(file, d)
      BY <1>0, <2>2, <2>3, HoldsGrow
    <2>5. ASSUME NEW i, NEW id, HasRow(rec, id), Holds(i, id),
                 \A j : Written(j) => j - 1 \in Records(file)
          PROVE  \E d \in TombsIn(file) : d < Len(file) /\ Rec(file, d).ref = i
      <3>1. QueuedRow(t, 1, id) /\ WrittenRow(i + 1, id)
        BY <1>0, <1>4, <2>1, <2>5, TailQueued, HoldsFacts
      <3>2. threads[t].op # "ingest"
        BY <1>0, <3>1 DEF Fresh
      <3>3. Behind(t)
        BY <2>2, <3>2 DEF Isdml, Scan
      <3>4. Len(Queue(t)) \in Nat /\ ~\E m \in 1..Len(Queue(t)) : m < 1
        <4>1. Len(Queue(t)) \in Nat
          BY <1>0, <1>4, WriteDataDoes
        <4> QED  BY <4>1
      <3>5. PICK j : Written(j) /\ Masks(file[j].rec, i)
        BY <2>5, <3>1, <3>3, <3>4 DEF Behind
      <3> QED  BY <1>0, <2>5, <3>5, MaskIsFound
    <2>6. ASSUME NEW i, NEW j, NEW id, Holds(i, id)', Holds(j, id)', i < j
          PROVE  \E d \in TombsIn(file') : d < j /\ Rec(file', d).ref = i
      <3>1. CASE Holds(i, id) /\ Holds(j, id)
        BY <2>4, <2>6, <3>1 DEF Superseded
      <3>2. CASE Holds(i, id) /\ ~Holds(j, id)
        BY <2>4, <2>5, <2>6, <3>2
      <3>3. CASE ~Holds(i, id) /\ Holds(j, id)
        <4>1. i = Len(file) /\ j < Len(file) /\ j \in Nat
          BY <1>0, <2>4, <2>6, <3>3, HoldsFacts
        <4> QED  BY <2>2, <2>6, <4>1
      <3>4. CASE ~Holds(i, id) /\ ~Holds(j, id)
        BY <2>2, <2>4, <2>6, <3>4
      <3> QED  BY <3>1, <3>2, <3>3, <3>4
    <2> QED  BY <2>6 DEF Superseded
  <1> QED  BY <1>0, <1>1, <1>2, <1>3, <1>4, FileSteps

LEMMA OneDmlStep ==
    ASSUME LogInv, build = "release", ~raced', OneDml, Next
    PROVE  OneDml'
  <1>0. Types /\ Shaped
    BY DEF LogInv
  <1>1. ASSUME NEW t \in Threads, Others(t), Isdml(t)' => Isdml(t)  PROVE OneDml'
    <2>1. \A u \in Threads : Isdml(u)' => Isdml(u)
      BY <1>1 DEF Others, Isdml
    <2> QED  BY <2>1 DEF OneDml
  <1>2. ASSUME NEW t \in Threads, NEW op \in Dmls, NEW want \in SUBSET (1..nrows) \ {{}},
               DmlOpen(t, op, want)
        PROVE  OneDml'
    <2>1. Others(t) /\ ~Overlaps(t, want)
      BY <1>0, <1>2, DmlOpenDoes DEF EmptyAfter, DmlOpen
    <2>2. \A u \in Threads \ {t} : ~Isdml(u)'
      BY <2>1 DEF Others, Overlaps, Isdml
    <2> QED  BY <2>2 DEF OneDml
  <1>3. ASSUME NEW t \in Threads, NEW n \in 1..MaxPerIngest, Ingest(t, n)  PROVE OneDml'
    <2>1. Others(t) /\ ~Isdml(t)'
      BY <1>0, <1>3, IngestDoes DEF Isdml, Dmls
    <2> QED  BY <1>1, <2>1
  <1>4. ASSUME NEW t \in Threads, IngestDone(t) \/ DmlDone(t) \/ ReadStep(t)  PROVE OneDml'
    <2>1. Others(t) /\ ~Isdml(t)'
      BY <1>0, <1>4, StopDoes, ReadTombstonesDoes, ReadRowsDoes, IdleFacts
         DEF ReadStep, EmptyAfter, Isdml, Dmls
    <2> QED  BY <1>1, <2>1
  <1>5. ASSUME NEW t \in Threads,
               WriteLength(t) \/ WriteData(t) \/ DmlRow(t) \/ DmlBatch(t) \/ DmlFlush(t)
        PROVE  OneDml'
    <2>1. Others(t) /\ threads'[t].op = threads[t].op
      <3>1. CASE WriteLength(t) \/ WriteData(t)
        <4>1. /\ Others(t)
              /\ \/ threads'[t] = [threads[t] EXCEPT !.half = TRUE]
                 \/ threads'[t] = [threads[t] EXCEPT !.half = FALSE, !.todo = Tail(@)]
          BY <1>0, <3>1, WriteLengthDoes, WriteDataDoes
        <4> QED  BY <1>0, <4>1, ThreadFields DEF Thread
      <3>2. CASE DmlRow(t) \/ DmlBatch(t) \/ DmlFlush(t)
        BY <1>0, <3>2, DmlRowDoes, DmlBatchDoes, DmlFlushDoes DEF Tombstoned, Replaced
      <3> QED  BY <1>5, <3>1, <3>2
    <2> QED  BY <1>1, <2>1 DEF Isdml
  <1>6. ASSUME NEW n \in synced..Len(file), Crash(n)  PROVE OneDml'
    <2>1. \A t \in Threads : ~Isdml(t)'
      BY <1>0, <1>6, CrashDoes, IdleFacts DEF Isdml, Dmls
    <2> QED  BY <2>1 DEF OneDml
  <1> QED  BY <1>2, <1>3, <1>4, <1>5, <1>6, NextCases

-----------------------------------------------------------------------------
(* The scan of a DML from step to step                                       *)

SameScan(u) == /\ threads'[u].end = threads[u].end /\ threads'[u].dead = threads[u].dead
               /\ threads'[u].pos = threads[u].pos /\ threads'[u].hits = threads[u].hits

LEMMA SameScanFacts ==
    ASSUME NEW u \in Threads, SameScan(u)
    PROVE  /\ \A i : Passed(u, i)' <=> Passed(u, i)
           /\ \A i, id : InScan(u, i, id)' <=>
                Holds(i, id)' /\ i <= threads[u].end /\ i \notin threads[u].dead
  BY DEF SameScan, Passed, InScan

(* A step that adds no record.                                               *)
LEMMA ScanStays ==
    ASSUME Types, NEW u \in Threads, Scan(u), SameScan(u), Queue(u)' = Queue(u),
           file' = file \/ Grown(Length),
           threads'[u].half => threads[u].half \/ Grown(Length)
    PROVE  Scan(u)'
  <1>1. /\ \A i, id : Holds(i, id)' <=> Holds(i, id)
        /\ TombsIn(file') = TombsIn(file)
        /\ \A d \in TombsIn(file) : Rec(file', d) = Rec(file, d)
        /\ \A j : Written(j) => Written(j)' /\ file'[j] = file[j]
    BY LengthHolds, SameHolds, SameWritten
  <1>2. /\ \A i : Passed(u, i)' <=> Passed(u, i)
        /\ \A i, id : InScan(u, i, id)' <=> InScan(u, i, id)
    BY <1>1, SameScanFacts DEF InScan
  <1>3. \A k, id : QueuedRow(u, k, id)' <=> QueuedRow(u, k, id)
    BY DEF QueuedRow, HasRow
  <1>4. Began(u)'
    <2>1. /\ threads[u].end \in Nat /\ Len(file) \in Nat /\ threads'[u].end = threads[u].end
          /\ threads[u].end <= Len(file) /\ (threads[u].half => threads[u].end < Len(file))
      BY ThreadFields, FileFacts DEF Scan, Began, SameScan
    <2>2. CASE file' = file /\ (threads'[u].half => threads[u].half)
      BY <2>1, <2>2 DEF Began
    <2>3. CASE Grown(Length)
      <3>1. Len(file') = Len(file) + 1
        BY <2>3 DEF Grown
      <3>2. threads[u].end <= Len(file') /\ threads[u].end < Len(file')
        BY <2>1, <3>1
      <3> QED  BY <2>1, <3>2 DEF Began
    <2> QED  BY <2>2, <2>3
  <1>5. OneEach(u)'
    BY <1>2 DEF Scan, OneEach
  <1>6. TombstonesSeen(u)'
    <2>1. TombstonesSeen(u) /\ threads'[u].dead = threads[u].dead
      BY DEF Scan, SameScan
    <2> QED  BY <1>1, <1>2, <2>1 DEF TombstonesSeen
  <1>7. HitOnce(u)'
    <2>1. HitOnce(u) /\ threads'[u].hits = threads[u].hits
      BY DEF Scan, SameScan
    <2> QED  BY <1>2, <2>1 DEF HitOnce
  <1>8. RowsOnce(u)' /\ FromScan(u)'
    BY <1>2, <1>3 DEF Scan, RowsOnce, FromScan
  <1>9. Behind(u)'
    BY <1>1, <1>3 DEF Scan, Behind, Masks
  <1> QED  BY <1>4, <1>5, <1>6, <1>7, <1>8, <1>9 DEF Scan

(* The rows of an ingestion are in no record, and no DML has them.           *)
LEMMA ScanOverIngest ==
    ASSUME LogInv, NEW t \in Threads, WriteData(t), threads[t].op = "ingest",
           NEW u \in Threads \ {t}, Isdml(u), Scan(u)
    PROVE  Scan(u)'
  <1>0. Types /\ Shaped /\ Known /\ Fresh
    BY DEF LogInv
  <1>1. PICK rec : rec = Queue(t)[1]
    OBVIOUS
  <1>2. /\ rec \in LogRec /\ Grown(Data(rec)) /\ Others(t) /\ Len(file) \in Nat
        /\ Len(file') = Len(file) + 1 /\ rec.op \in RowOps
    <2>1. /\ rec \in LogRec /\ Grown(Data(rec)) /\ Others(t) /\ Len(file) \in Nat
          /\ Len(Queue(t)) \in Nat /\ Len(Queue(t)) > 0
      BY <1>0, <1>1, WriteDataDoes, FileFacts
    <2>2. 1 \in 1..Len(Queue(t)) /\ Shape(t)
      BY <1>0, <2>1 DEF Shaped
    <2>3. rec.op \in RowOps
      BY <1>1, <2>2 DEF Shape
    <2> QED  BY <2>1, <2>3 DEF Grown
  <1>3. Data(rec) \in Part /\ Data(rec).part = "data" /\ Data(rec).rec = rec
        /\ rec.op \notin Tombstones
    BY <1>2, RecordFields DEF RowOps, Batches, Tombstones
  <1>4. /\ \A i, id : Holds(i, id) => Holds(i, id)'
        /\ \A i, id : Holds(i, id)' /\ ~Holds(i, id) => i = Len(file) /\ HasRow(rec, id)
        /\ \A d \in TombsIn(file') : d \in TombsIn(file) /\ Rec(file', d) = Rec(file, d)
        /\ \A j : Written(j) => Written(j)' /\ file'[j] = file[j]
    BY <1>0, <1>2, <1>3, HoldsGrow, GrownWritten
  <1>5. \A id : HasRow(rec, id) => /\ \A i : ~Holds(i, id)
                                  /\ \A k : ~QueuedRow(u, k, id)
    <2> TAKE id
    <2>1. ASSUME HasRow(rec, id)  PROVE QueuedRow(t, 1, id)
      BY <1>0, <1>1, <2>1, TailQueued
    <2>2. ASSUME HasRow(rec, id)  PROVE \A j : ~WrittenRow(j, id)
      BY <1>0, <2>1, <2>2 DEF Fresh
    <2> QED  BY <1>0, <2>2, HoldsFacts DEF Known
  <1>6. threads'[u] = threads[u] /\ Queue(u)' = Queue(u) /\ SameScan(u)
    BY <1>2 DEF Others, SameScan
  <1>7. /\ \A i : Passed(u, i)' <=> Passed(u, i)
        /\ \A i, id : InScan(u, i, id) => InScan(u, i, id)'
        /\ \A i, id : InScan(u, i, id)' =>
                InScan(u, i, id) \/ (i = Len(file) /\ HasRow(rec, id))
    BY <1>4, <1>6, SameScanFacts DEF InScan
  <1>8. \A k, id : QueuedRow(u, k, id)' <=> QueuedRow(u, k, id)
    BY <1>6 DEF QueuedRow, HasRow
  <1>9. Began(u)'
    <2>1. /\ threads[u].end \in Nat /\ threads[u].end <= Len(file)
      BY <1>0, ThreadFields DEF Scan, Began
    <2>2. threads[u].end < Len(file') /\ threads[u].end <= Len(file')
      BY <1>2, <2>1
    <2> QED  BY <1>6, <2>2 DEF Began
  <1>10. OneEach(u)'
    <2>1. \A i, id : InScan(u, i, id) => ~HasRow(rec, id)
      BY <1>5 DEF InScan
    <2> QED  BY <1>7, <2>1 DEF Scan, OneEach
  <1>11. TombstonesSeen(u)'
    <2>1. TombstonesSeen(u)
      BY DEF Scan
    <2> QED  BY <1>4, <1>6, <1>7, <2>1 DEF TombstonesSeen
  <1>12. HitOnce(u)'
    <2>1. HitOnce(u)
      BY DEF Scan
    <2> QED  BY <1>6, <1>7, <2>1 DEF HitOnce
  <1>13. RowsOnce(u)' /\ FromScan(u)'
    BY <1>7, <1>8 DEF Scan, RowsOnce, FromScan
  <1>14. Behind(u)'
    <2>1. \A k, i, id : QueuedRow(u, k, id)' /\ Holds(i, id)' =>
                QueuedRow(u, k, id) /\ Holds(i, id)
      BY <1>4, <1>5, <1>8
    <2>2. \A j, i : Written(j) /\ Masks(file[j].rec, i) => Written(j)' /\ Masks(file'[j].rec, i)
      BY <1>4
    <2> QED  BY <1>6, <2>1, <2>2 DEF Scan, Behind, Masks
  <1> QED  BY <1>9, <1>10, <1>11, <1>12, <1>13, <1>14 DEF Scan

LEMMA ScanOpens ==
    ASSUME LogInv, Superseded, NEW t \in Threads, NEW op \in Dmls,
           NEW want \in SUBSET (1..nrows) \ {{}}, DmlOpen(t, op, want)
    PROVE  Scan(t)'
  <1>0. Types
    BY DEF LogInv
  <1>1. /\ Queue(t)' = <<>> /\ threads'[t].half = FALSE
        /\ threads'[t].end = Len(file) /\ threads'[t].pos = 1 /\ threads'[t].hits = Idle.hits
        /\ threads'[t].dead = {Rec(file, d).ref : d \in TombsIn(file)}
        /\ file' = file
    BY <1>0, DmlOpenDoes DEF EmptyAfter, DmlOpen
  <1>2. /\ Len(Queue(t)') = 0 /\ \A k, id : ~QueuedRow(t, k, id)'
    BY <1>1, EmptyQueued, EmptySeq
  <1>3. /\ \A i, id : Holds(i, id)' <=> Holds(i, id)
        /\ TombsIn(file') = TombsIn(file) /\ \A d : Rec(file', d) = Rec(file, d)
    BY <1>1, SameHolds
  <1>4. Began(t)'
    BY <1>0, <1>1, FileFacts DEF Began
  <1>5. OneEach(t)'
    <2>1. ASSUME NEW i, NEW j, NEW id, InScan(t, i, id)', InScan(t, j, id)'  PROVE i = j
      <3>1. /\ Holds(i, id) /\ Holds(j, id) /\ i \in Nat /\ j \in Nat
            /\ ~\E d \in TombsIn(file) : Rec(file, d).ref = i
            /\ ~\E d \in TombsIn(file) : Rec(file, d).ref = j
        BY <1>0, <1>1, <1>3, <2>1, HoldsFacts DEF InScan
      <3>2. ~(i < j) /\ ~(j < i)
        BY <3>1 DEF Superseded
      <3> QED  BY <3>1, <3>2
    <2> QED  BY <2>1 DEF OneEach
  <1>6. TombstonesSeen(t)'
    BY <1>1, <1>2, <1>3 DEF TombstonesSeen
  <1>7. HitOnce(t)'
    BY <1>1, IdleFacts DEF HitOnce
  <1>8. RowsOnce(t)' /\ FromScan(t)' /\ Behind(t)'
    BY <1>2 DEF RowsOnce, FromScan, Behind
  <1> QED  BY <1>4, <1>5, <1>6, <1>7, <1>8 DEF Scan

(* What a DML appends lies behind its scan.                                  *)
LEMMA ScanWrites ==
    ASSUME LogInv, NEW t \in Threads, WriteData(t), Isdml(t), Scan(t)
    PROVE  Scan(t)'
  <1>0. Types /\ Shaped
    BY DEF LogInv
  <1>1. PICK rec : rec = Queue(t)[1]
    OBVIOUS
  <1>2. /\ rec \in LogRec /\ Grown(Data(rec)) /\ Len(file) \in Nat
        /\ Len(Queue(t)) \in Nat /\ Len(Queue(t)) > 0 /\ Len(Queue(t)') = Len(Queue(t)) - 1
        /\ \A k \in 1..(Len(Queue(t)) - 1) : Queue(t)'[k] = Queue(t)[k + 1]
        /\ threads'[t] = [threads[t] EXCEPT !.half = FALSE, !.todo = Tail(@)]
        /\ Len(file') = Len(file) + 1
    BY <1>0, <1>1, WriteDataDoes, FileFacts DEF Grown
  <1>3. Data(rec) \in Part /\ Data(rec).part = "data" /\ Data(rec).rec = rec
    BY <1>2, RecordFields
  <1>4. /\ \A i, id : Holds(i, id) => Holds(i, id)'
        /\ \A i, id : Holds(i, id)' /\ ~Holds(i, id) => i = Len(file) /\ HasRow(rec, id)
        /\ \A d \in TombsIn(file) : Rec(file', d) = Rec(file, d)
        /\ \A d \in TombsIn(file') \ TombsIn(file) : Rec(file', d) = rec /\ rec.op \in Tombstones
        /\ \A j : Written(j) => Written(j)' /\ file'[j] = file[j]
        /\ \A j : j = Len(file) + 1 => Written(j)' /\ file'[j] = Data(rec)
    <2>1. \A j : j = Len(file) + 1 => Written(j)' /\ file'[j] = Data(rec)
      BY <1>0, <1>2, <1>3, GrownWritten DEF Grown
    <2> QED  BY <1>0, <1>2, <1>3, <2>1, HoldsGrow, GrownWritten
  <1>5. SameScan(t) /\ threads'[t].half = FALSE
    BY <1>0, <1>2, ThreadFields DEF SameScan, Thread
  <1>6. threads[t].end \in Nat /\ threads[t].end < Len(file)
    BY <1>0, ThreadFields DEF WriteData, Scan, Began
  <1>7. /\ \A i : Passed(t, i)' <=> Passed(t, i)
        /\ \A i, id : InScan(t, i, id)' <=> InScan(t, i, id)
    BY <1>2, <1>4, <1>5, <1>6, SameScanFacts DEF InScan
  <1>8. /\ \A k, id : QueuedRow(t, k, id)' => k \in Nat /\ k >= 1 /\ QueuedRow(t, k + 1, id)
        /\ \A id : HasRow(rec, id) => QueuedRow(t, 1, id)
    BY <1>0, <1>1, TailQueued
  <1>9. Began(t)'
    <2>1. threads[t].end <= Len(file')
      BY <1>2, <1>6
    <2> QED  BY <1>5, <2>1 DEF Began, SameScan
  <1>10. OneEach(t)'
    BY <1>7 DEF Scan, OneEach
  <1>11. TombstonesSeen(t)'
    <2>1. TombstonesSeen(t) /\ threads'[t].dead = threads[t].dead
      BY <1>5 DEF Scan, SameScan
    <2>2. rec.op \in Tombstones => Passed(t, rec.ref)
      <3>1. 1 \in 1..Len(Queue(t))
        BY <1>2
      <3> QED  BY <1>1, <2>1, <3>1 DEF TombstonesSeen
    <2>3. ASSUME NEW d \in TombsIn(file')
          PROVE  Rec(file', d).ref \in threads[t].dead \/ Passed(t, Rec(file', d).ref)
      <3>1. CASE d \in TombsIn(file)
        BY <1>4, <2>1, <3>1 DEF TombstonesSeen
      <3>2. CASE d \notin TombsIn(file)
        BY <1>4, <2>2, <3>2
      <3> QED  BY <3>1, <3>2
    <2>4. ASSUME NEW k \in 1..Len(Queue(t)'), Queue(t)'[k].op \in Tombstones
          PROVE  Passed(t, Queue(t)'[k].ref)
      <3>1. k \in 1..(Len(Queue(t)) - 1) /\ k + 1 \in 1..Len(Queue(t))
        BY <1>2
      <3>2. Queue(t)'[k] = Queue(t)[k + 1]
        BY <1>2, <3>1
      <3> QED  BY <2>1, <2>4, <3>1, <3>2 DEF TombstonesSeen
    <2> QED  BY <1>7, <2>1, <2>3, <2>4 DEF TombstonesSeen
  <1>12. HitOnce(t)'
    <2>1. HitOnce(t) /\ threads'[t].hits = threads[t].hits
      BY <1>5 DEF Scan, SameScan
    <2> QED  BY <1>7, <2>1 DEF HitOnce
  <1>13. RowsOnce(t)'
    <2>1. ASSUME NEW k, NEW m, NEW id, QueuedRow(t, k, id)', QueuedRow(t, m, id)'  PROVE k = m
      <3>1. k \in Nat /\ m \in Nat /\ QueuedRow(t, k + 1, id) /\ QueuedRow(t, m + 1, id)
        BY <1>8, <2>1
      <3>2. k + 1 = m + 1
        BY <3>1 DEF Scan, RowsOnce
      <3> QED  BY <3>1, <3>2
    <2> QED  BY <2>1 DEF RowsOnce
  <1>14. FromScan(t)'
    BY <1>7, <1>8 DEF Scan, FromScan
  <1>15. Behind(t)'
    <2>1. ASSUME NEW k, NEW i, NEW id, QueuedRow(t, k, id)', Holds(i, id)'
          PROVE  \/ \E j : Written(j)' /\ Masks(file'[j].rec, i)
                 \/ \E m \in 1..Len(Queue(t)') : m < k /\ Masks(Queue(t)'[m], i)
      <3>1. k \in Nat /\ k >= 1 /\ QueuedRow(t, k + 1, id)
        BY <1>8, <2>1
      <3>2. Holds(i, id)
        <4>1. ASSUME HasRow(rec, id)  PROVE FALSE
          <5>1. k + 1 = 1
            BY <1>8, <3>1, <4>1 DEF Scan, RowsOnce
          <5> QED  BY <3>1, <5>1
        <4> QED  BY <1>4, <2>1, <4>1
      <3>3. CASE \E j : Written(j) /\ Masks(file[j].rec, i)
        BY <1>4, <3>3
      <3>4. ASSUME NEW m \in 1..Len(Queue(t)), m < k + 1, Masks(Queue(t)[m], i)
            PROVE  \/ \E j : Written(j)' /\ Masks(file'[j].rec, i)
                   \/ \E n \in 1..Len(Queue(t)') : n < k /\ Masks(Queue(t)'[n], i)
        <4>1. CASE m = 1
          BY <1>1, <1>3, <1>4, <3>4, <4>1
        <4>2. CASE m # 1
          <5>1. PICK n : n = m - 1
            OBVIOUS
          <5>2. n \in 1..(Len(Queue(t)) - 1) /\ n + 1 = m /\ n < k /\ n \in 1..Len(Queue(t)')
            BY <1>2, <3>1, <3>4, <4>2, <5>1
          <5>3. Queue(t)'[n] = Queue(t)[m]
            BY <1>2, <5>2
          <5> QED  BY <3>4, <5>2, <5>3
        <4> QED  BY <4>1, <4>2
      <3> QED  BY <3>1, <3>2, <3>3, <3>4 DEF Scan, Behind
    <2> QED  BY <2>1 DEF Behind, Masks
  <1> QED  BY <1>9, <1>10, <1>11, <1>12, <1>13, <1>14, <1>15 DEF Scan

(* The scan moves on over a log that stays: what it keeps of it.             *)
MovesOn(t) == /\ file' = file /\ threads'[t].end = threads[t].end
              /\ threads'[t].dead = threads[t].dead /\ threads'[t].half = threads[t].half
              /\ \A i : Passed(t, i) => Passed(t, i)'

LEMMA MovesOnFacts ==
    ASSUME NEW t \in Threads, MovesOn(t), Scan(t)
    PROVE  /\ \A i, id : Holds(i, id)' <=> Holds(i, id)
           /\ \A i, id : InScan(t, i, id)' <=> InScan(t, i, id)
           /\ \A d \in TombsIn(file') : d \in TombsIn(file) /\ Rec(file', d) = Rec(file, d)
           /\ \A j : Written(j)' <=> Written(j)
           /\ Began(t)' /\ OneEach(t)'
           /\ (\A k \in 1..Len(Queue(t)') : Queue(t)'[k].op \in Tombstones =>
                    \A i : i = Queue(t)'[k].ref => Passed(t, i)') => TombstonesSeen(t)'
  <1>1. /\ \A i, id : Holds(i, id)' <=> Holds(i, id)
        /\ \A d \in TombsIn(file') : d \in TombsIn(file) /\ Rec(file', d) = Rec(file, d)
        /\ \A j : Written(j)' <=> Written(j)
    BY SameHolds, SameWritten DEF MovesOn
  <1>2. \A i, id : InScan(t, i, id)' <=> InScan(t, i, id)
    BY <1>1 DEF MovesOn, InScan
  <1>3. Began(t)' /\ OneEach(t)'
    BY <1>2 DEF MovesOn, Scan, Began, OneEach
  <1>4. \A d \in TombsIn(file') :
            \A i : i = Rec(file', d).ref => i \in threads'[t].dead \/ Passed(t, i)'
    <2>1. TombstonesSeen(t)
      BY DEF Scan
    <2> QED  BY <1>1, <2>1 DEF MovesOn, TombstonesSeen
  <1> QED  BY <1>1, <1>2, <1>3, <1>4 DEF TombstonesSeen

(* The rows of the record acted on have not been counted or queued before,   *)
(* and every other record that holds one has its tombstone.                  *)
LEMMA MatchIsNew ==
    ASSUME LogInv, Superseded, NEW t \in Threads, Scan(t), NEW i \in FirstMatch(threads[t])
    PROVE  /\ i \in Nat /\ Passed(t, i) = FALSE /\ i <= threads[t].end
           /\ \A id : id \in IdsOf(Rec(file, i).rows) =>
                /\ InScan(t, i, id)
                /\ \A j : Passed(t, j) => ~InScan(t, j, id)
                /\ \A k : ~QueuedRow(t, k, id)
                /\ \A j : Holds(j, id) /\ j # i =>
                        \E n : Written(n) /\ Masks(file[n].rec, j)
  <1>0. Types
    BY DEF LogInv
  <1>1. /\ i \in RowsIn(file) /\ i \in Nat /\ i >= threads[t].pos /\ i <= threads[t].end
        /\ i \notin threads[t].dead /\ threads[t].pos \in Nat
    BY <1>0, FirstMatchFacts, ThreadFields
  <1>2. Passed(t, i) = FALSE
    BY <1>1 DEF Passed
  <1>3. ASSUME NEW id \in IdsOf(Rec(file, i).rows)
        PROVE  /\ InScan(t, i, id)
               /\ \A j : Passed(t, j) => ~InScan(t, j, id)
    <2>1. InScan(t, i, id)
      BY <1>1 DEF InScan, Holds
    <2> QED  BY <1>2, <2>1 DEF Scan, OneEach
  <1>4. ASSUME NEW id \in IdsOf(Rec(file, i).rows), NEW j, Holds(j, id), j # i
        PROVE  \E n : Written(n) /\ Masks(file[n].rec, j)
    <2>1. j \in Nat /\ Holds(i, id)
      BY <1>0, <1>1, <1>4, HoldsFacts DEF Holds
    <2>2. \A d \in TombsIn(file) : Rec(file, d).ref # i
      BY <1>1, <1>2 DEF Scan, TombstonesSeen
    <2>3. ~(i < j)
      BY <1>4, <2>1, <2>2 DEF Superseded
    <2>4. j < i
      BY <1>1, <1>4, <2>1, <2>3
    <2>5. PICK d \in TombsIn(file) : Rec(file, d).ref = j
      BY <1>4, <2>1, <2>4 DEF Superseded
    <2>6. Written(d + 1) /\ Rec(file, d) = file[d + 1].rec /\ Rec(file, d).op \in Tombstones
      BY <1>0, <2>5, TombsInFacts, RecordsFacts
    <2> QED  BY <2>5, <2>6 DEF Masks
  <1> QED  BY <1>1, <1>2, <1>3, <1>4 DEF Scan, FromScan

LEMMA HitOnceGoesOn ==
    ASSUME LogInv, Superseded, NEW t \in Threads, Scan(t), NEW i \in FirstMatch(threads[t]),
           MovesOn(t), Passed(t, i)', NEW ids, ids \subseteq IdsOf(Rec(file, i).rows),
           threads'[t].hits = Hit(threads[t], ids)
    PROVE  HitOnce(t)'
  <1>0. Types /\ HitOnce(t)
    BY DEF LogInv, Scan
  <1>1. \A id \in Ids :
            /\ threads[t].hits[id] \in Nat
            /\ threads'[t].hits[id] =
                threads[t].hits[id] + IF id \in ids \intersect threads[t].want THEN 1 ELSE 0
    <2>1. \A id \in Ids : threads[t].hits[id] \in Nat
      BY <1>0, ThreadFields
    <2>2. \A id \in Ids : Hit(threads[t], ids)[id] =
                threads[t].hits[id] + IF id \in ids \intersect threads[t].want THEN 1 ELSE 0
      BY <1>0, HitFacts
    <2> QED  BY <2>1, <2>2
  <1>2. ASSUME NEW id \in Ids, id \in ids
        PROVE  threads[t].hits[id] = 0 /\ InScan(t, i, id)
    <2>1. InScan(t, i, id) /\ \A j : Passed(t, j) => ~InScan(t, j, id)
      BY <1>2, MatchIsNew
    <2>2. threads[t].hits[id] <= 1 /\ threads[t].hits[id] # 1
      BY <1>0, <2>1 DEF HitOnce
    <2> QED  BY <1>1, <2>1, <2>2
  <1>3. ASSUME NEW id \in Ids
        PROVE  /\ threads'[t].hits[id] <= 1
               /\ threads'[t].hits[id] = 1 => \E j : Passed(t, j)' /\ InScan(t, j, id)'
    <2>1. CASE id \in ids \intersect threads[t].want
      <3>1. threads'[t].hits[id] = 1 /\ InScan(t, i, id)
        BY <1>1, <1>2, <2>1
      <3> QED  BY <3>1, MovesOnFacts
    <2>2. CASE id \notin ids \intersect threads[t].want
      <3>1. threads'[t].hits[id] = threads[t].hits[id]
        BY <1>1, <2>2
      <3> QED  BY <1>0, <3>1, MovesOnFacts DEF HitOnce, MovesOn
    <2> QED  BY <2>1, <2>2
  <1> QED  BY <1>3 DEF HitOnce

LEMMA ScanFlushes ==
    ASSUME LogInv, NEW t \in Threads, DmlFlush(t), Scan(t)
    PROVE  Scan(t)'
  <1>0. Types
    BY DEF LogInv
  <1>1. /\ Queue(t)' = Queue(t) /\ file' = file
        /\ threads'[t].half = threads[t].half /\ threads'[t].dead = threads[t].dead
        /\ threads'[t].end = threads[t].end /\ threads'[t].pos = threads[t].end + 1
        /\ threads'[t].hits = threads[t].hits
    BY <1>0, DmlFlushDoes DEF DmlFlush
  <1>2. MovesOn(t)
    <2>1. \A i \in Nat : \A e \in Nat : i <= e => i < e + 1
      OBVIOUS
    <2>2. ASSUME NEW i, Passed(t, i)  PROVE Passed(t, i)'
      <3>1. threads[t].end \in Nat /\ i \in Nat /\ i <= threads[t].end
        BY <1>0, <2>2, ThreadFields DEF Passed
      <3>2. i < threads[t].end + 1
        BY <2>1, <3>1
      <3> QED  BY <1>1, <3>1, <3>2 DEF Passed
    <2> QED  BY <1>1, <2>2 DEF MovesOn
  <1>3. \A k, id : QueuedRow(t, k, id)' <=> QueuedRow(t, k, id)
    BY <1>1 DEF QueuedRow, HasRow
  <1>4. TombstonesSeen(t)'
    BY <1>1, <1>2, MovesOnFacts DEF Scan, TombstonesSeen, MovesOn
  <1>5. HitOnce(t)'
    BY <1>1, <1>2, MovesOnFacts DEF Scan, HitOnce, MovesOn
  <1>6. RowsOnce(t)' /\ FromScan(t)'
    BY <1>2, <1>3, MovesOnFacts DEF Scan, RowsOnce, FromScan, MovesOn
  <1>7. Behind(t)'
    BY <1>1, <1>2, <1>3, MovesOnFacts DEF Scan, Behind, Masks
  <1> QED  BY <1>2, <1>4, <1>5, <1>6, <1>7, MovesOnFacts DEF Scan

LEMMA MatchMovesOn ==
    ASSUME Types, NEW t \in Threads, NEW i \in FirstMatch(threads[t]), file' = file,
           threads'[t].end = threads[t].end, threads'[t].dead = threads[t].dead,
           threads'[t].half = threads[t].half, threads'[t].pos = i + 2
    PROVE  MovesOn(t) /\ Passed(t, i)'
  <1>1. i \in Nat /\ threads[t].pos \in Nat /\ threads[t].pos <= i /\ i <= threads[t].end
    BY FirstMatchFacts, ThreadFields
  <1>2. ASSUME NEW j \in Nat, j < threads[t].pos  PROVE j < i + 2
    BY <1>1, <1>2
  <1>3. i < i + 2
    BY <1>1
  <1> QED  BY <1>1, <1>2, <1>3 DEF MovesOn, Passed

LEMMA ScanRow ==
    ASSUME LogInv, Superseded, NEW t \in Threads, DmlRow(t), Scan(t)
    PROVE  Scan(t)'
  <1>0. Types
    BY DEF LogInv
  <1>1. PICK i \in FirstMatch(threads[t]), tomb \in LogRec : Tombstoned(t, i, tomb)
    BY <1>0, DmlRowDoes
  <1>2. /\ file' = file /\ threads'[t].end = threads[t].end /\ threads'[t].pos = i + 2
        /\ threads'[t].dead = threads[t].dead /\ threads'[t].half = threads[t].half
        /\ threads'[t].hits = Hit(threads[t], {Rec(file, i).rows[1].id})
        /\ Len(Queue(t)') = Len(Queue(t)) + 1 /\ Len(Queue(t)) \in Nat
        /\ \A k \in 1..Len(Queue(t)) : Queue(t)'[k + 1] = Queue(t)[k]
        /\ tomb.ref = i /\ Rec(file, i).op = "row"
    BY <1>0, <1>1, QueueFacts DEF Tombstoned, DmlRow
  <1>3. MovesOn(t) /\ Passed(t, i)'
    BY <1>0, <1>1, <1>2, MatchMovesOn
  <1>4. /\ \A k, id : QueuedRow(t, k, id)' => QueuedRow(t, k - 1, id)
        /\ \A k \in 1..Len(Queue(t)') :
                (k = 1 /\ Queue(t)'[k] = tomb)
                \/ (k - 1 \in 1..Len(Queue(t)) /\ Queue(t)'[k] = Queue(t)[k - 1])
    BY <1>0, <1>1, TombQueued
  <1>5. \A k, id : QueuedRow(t, k, id)' => k \in Nat
    BY DEF QueuedRow
  <1>6. HitOnce(t)'
    <2>1. {Rec(file, i).rows[1].id} \subseteq IdsOf(Rec(file, i).rows)
      BY <1>0, <1>1, <1>2, FirstMatchFacts, RecordFields
    <2> QED  BY <1>1, <1>2, <1>3, <2>1, HitOnceGoesOn
  <1>7. TombstonesSeen(t)'
    <2>1. ASSUME NEW k \in 1..Len(Queue(t)'), Queue(t)'[k].op \in Tombstones,
                 NEW j, j = Queue(t)'[k].ref
          PROVE  Passed(t, j)'
      <3>1. CASE Queue(t)'[k] = tomb
        BY <1>2, <1>3, <2>1, <3>1
      <3>2. CASE k - 1 \in 1..Len(Queue(t)) /\ Queue(t)'[k] = Queue(t)[k - 1]
        <4>1. Passed(t, j)
          BY <2>1, <3>2 DEF Scan, TombstonesSeen
        <4> QED  BY <1>3, <4>1 DEF MovesOn
      <3> QED  BY <1>4, <3>1, <3>2
    <2> QED  BY <1>3, <2>1, MovesOnFacts
  <1>8. RowsOnce(t)'
    <2>1. ASSUME NEW k, NEW m, NEW id, QueuedRow(t, k, id)', QueuedRow(t, m, id)'  PROVE k = m
      <3>1. k \in Nat /\ m \in Nat /\ k - 1 = m - 1
        BY <1>4, <1>5, <2>1 DEF Scan, RowsOnce
      <3> QED  BY <3>1
    <2> QED  BY <2>1 DEF RowsOnce
  <1>9. FromScan(t)'
    <2>1. \A k, id : QueuedRow(t, k, id)' => \E j : Passed(t, j) /\ InScan(t, j, id)
      BY <1>4 DEF Scan, FromScan
    <2> QED  BY <1>3, <2>1, MovesOnFacts DEF FromScan, MovesOn
  <1>10. Behind(t)'
    <2>1. ASSUME NEW k, NEW j, NEW id, QueuedRow(t, k, id)', Holds(j, id)'
          PROVE  \/ \E n : Written(n)' /\ Masks(file'[n].rec, j)
                 \/ \E m \in 1..Len(Queue(t)') : m < k /\ Masks(Queue(t)'[m], j)
      <3>1. k \in Nat /\ QueuedRow(t, k - 1, id) /\ Holds(j, id)
        BY <1>3, <1>4, <1>5, <2>1, MovesOnFacts
      <3>2. CASE \E n : Written(n) /\ Masks(file[n].rec, j)
        BY <1>2, <1>3, <3>2, MovesOnFacts
      <3>3. ASSUME NEW m \in 1..Len(Queue(t)), m < k - 1, Masks(Queue(t)[m], j)
            PROVE  \E n \in 1..Len(Queue(t)') : n < k /\ Masks(Queue(t)'[n], j)
        <4>1. PICK n : n = m + 1
          OBVIOUS
        <4>2. n \in 1..Len(Queue(t)') /\ n < k
          BY <1>2, <3>1, <3>3, <4>1
        <4> QED  BY <1>2, <3>3, <4>1, <4>2
      <3> QED  BY <3>1, <3>2, <3>3 DEF Scan, Behind
    <2> QED  BY <2>1 DEF Behind, Masks
  <1> QED  BY <1>3, <1>6, <1>7, <1>8, <1>9, <1>10, MovesOnFacts DEF Scan

LEMMA ScanBatch ==
    ASSUME LogInv, Superseded, NEW t \in Threads, DmlBatch(t), Scan(t)
    PROVE  Scan(t)'
  <1>0. Types
    BY DEF LogInv
  <1>1. PICK i \in FirstMatch(threads[t]) : Replaced(t, i)
    BY <1>0, DmlBatchDoes
  <1> DEFINE L == Len(Queue(t))
             M == Len(Survivors(t, i))
             ids == IdsOf(Rec(file, i).rows)
  <1>2. /\ file' = file /\ threads'[t].end = threads[t].end /\ threads'[t].pos = i + 2
        /\ threads'[t].dead = threads[t].dead /\ threads'[t].half = threads[t].half
        /\ threads'[t].hits = Hit(threads[t], ids)
        /\ L \in Nat /\ M \in Nat /\ Len(Queue(t)') = L + 1 + M
        /\ \A k \in 1..L : Queue(t)'[k] = Queue(t)[k]
        /\ Queue(t)'[L + 1] = DeleteRec(i)
    BY <1>0, <1>1, QueueFacts, LenProperties DEF Replaced, DmlBatch
  <1>3. MovesOn(t) /\ Passed(t, i)'
    BY <1>0, <1>1, <1>2, MatchMovesOn
  <1>4. /\ DeleteRec(i).ref = i /\ Masks(DeleteRec(i), i) /\ \A id : ~HasRow(DeleteRec(i), id)
        /\ Tombstones \intersect RowOps = {}
    BY DEF DeleteRec, Masks, HasRow, Tombstones, RowOps, Batches
  <1>5. /\ \A k \in 1..Len(Queue(t)') :
                \/ k \in 1..L /\ Queue(t)'[k] = Queue(t)[k]
                \/ k = L + 1 /\ Queue(t)'[k] = DeleteRec(i)
                \/ \E m \in 1..M : k = L + 1 + m /\ Queue(t)'[k] = Survivors(t, i)[m]
        /\ \A k, id : QueuedRow(t, k, id)' => QueuedRow(t, k, id) \/ (k > L + 1 /\ id \in ids)
    BY <1>0, <1>1, BatchQueued
  <1>6. /\ \A m \in 1..M : /\ Survivors(t, i)[m].op = "row"
                           /\ \A id : HasRow(Survivors(t, i)[m], id) => id \in ids
        /\ \A k, m \in 1..M : \A id :
                HasRow(Survivors(t, i)[k], id) /\ HasRow(Survivors(t, i)[m], id) => k = m
    BY <1>0, <1>1, SurvivorsFacts
  <1>7. \A id : id \in ids =>
            /\ InScan(t, i, id) /\ \A k : ~QueuedRow(t, k, id)
            /\ \A j : Holds(j, id) /\ j # i => \E n : Written(n) /\ Masks(file[n].rec, j)
    BY <1>1, MatchIsNew
  <1> HIDE DEF L, M, ids
  <1>8. HitOnce(t)'
    <2>1. ids \subseteq IdsOf(Rec(file, i).rows)
      BY DEF ids
    <2> QED  BY <1>1, <1>2, <1>3, <2>1, HitOnceGoesOn
  <1>9. TombstonesSeen(t)'
    <2>1. ASSUME NEW k \in 1..Len(Queue(t)'), Queue(t)'[k].op \in Tombstones,
                 NEW j, j = Queue(t)'[k].ref
          PROVE  Passed(t, j)'
      <3>1. CASE k \in 1..L /\ Queue(t)'[k] = Queue(t)[k]
        <4>1. Passed(t, j)
          BY <2>1, <3>1 DEF Scan, TombstonesSeen, L
        <4> QED  BY <1>3, <4>1 DEF MovesOn
      <3>2. CASE Queue(t)'[k] = DeleteRec(i)
        BY <1>3, <1>4, <2>1, <3>2
      <3>3. ASSUME NEW m \in 1..M, Queue(t)'[k] = Survivors(t, i)[m]  PROVE FALSE
        BY <1>6, <2>1, <3>3 DEF Tombstones
      <3> QED  BY <1>5, <3>1, <3>2, <3>3
    <2> QED  BY <1>3, <2>1, MovesOnFacts
  <1>10. ASSUME NEW k, NEW id, QueuedRow(t, k, id)', id \in ids
         PROVE  \E m \in 1..M : k = L + 1 + m /\ HasRow(Survivors(t, i)[m], id)
    <2>1. k \in 1..Len(Queue(t)') /\ HasRow(Queue(t)'[k], id)
      BY <1>10 DEF QueuedRow, HasRow
    <2>2. ~(k \in 1..L /\ Queue(t)'[k] = Queue(t)[k])
      BY <1>7, <1>10, <2>1 DEF QueuedRow, L
    <2>3. Queue(t)'[k] # DeleteRec(i)
      BY <1>4, <2>1
    <2> QED  BY <1>5, <2>1, <2>2, <2>3
  <1>11. RowsOnce(t)'
    <2>1. ASSUME NEW k, NEW m, NEW id, QueuedRow(t, k, id)', QueuedRow(t, m, id)'  PROVE k = m
      <3>1. CASE id \in ids
        <4>1. PICK a \in 1..M : k = L + 1 + a /\ HasRow(Survivors(t, i)[a], id)
          BY <1>10, <2>1, <3>1
        <4>2. PICK b \in 1..M : m = L + 1 + b /\ HasRow(Survivors(t, i)[b], id)
          BY <1>10, <2>1, <3>1
        <4> QED  BY <1>6, <4>1, <4>2
      <3>2. CASE id \notin ids
        BY <1>5, <2>1, <3>2 DEF Scan, RowsOnce
      <3> QED  BY <3>1, <3>2
    <2> QED  BY <2>1 DEF RowsOnce
  <1>12. FromScan(t)'
    <2>1. ASSUME NEW k, NEW id, QueuedRow(t, k, id)'
          PROVE  \E j : Passed(t, j)' /\ InScan(t, j, id)
      <3>1. CASE id \in ids
        BY <1>3, <1>7, <3>1
      <3>2. CASE id \notin ids
        <4>1. PICK j : Passed(t, j) /\ InScan(t, j, id)
          BY <1>5, <2>1, <3>2 DEF Scan, FromScan
        <4> QED  BY <1>3, <4>1 DEF MovesOn
      <3> QED  BY <3>1, <3>2
    <2> QED  BY <1>3, <2>1, MovesOnFacts DEF FromScan
  <1>13. Behind(t)'
    <2>1. ASSUME NEW k, NEW j, NEW id, QueuedRow(t, k, id)', Holds(j, id)'
          PROVE  \/ \E n : Written(n)' /\ Masks(file'[n].rec, j)
                 \/ \E m \in 1..Len(Queue(t)') : m < k /\ Masks(Queue(t)'[m], j)
      <3>1. Holds(j, id)
        BY <1>3, <2>1, MovesOnFacts
      <3>2. ASSUME NEW n, Written(n), Masks(file[n].rec, j)
            PROVE  \E p : Written(p)' /\ Masks(file'[p].rec, j)
        BY <1>2, <1>3, <3>2, MovesOnFacts
      <3>3. CASE id \in ids
        <4>1. CASE j # i
          BY <1>7, <3>1, <3>2, <3>3, <4>1
        <4>2. CASE j = i
          <5>1. PICK m \in 1..M : k = L + 1 + m
            BY <1>10, <2>1, <3>3
          <5>2. PICK n : n = L + 1
            OBVIOUS
          <5>3. n \in 1..Len(Queue(t)') /\ n < k
            BY <1>2, <5>1, <5>2
          <5> QED  BY <1>2, <1>4, <4>2, <5>2, <5>3
        <4> QED  BY <4>1, <4>2
      <3>4. CASE id \notin ids
        <4>1. QueuedRow(t, k, id)
          BY <1>5, <2>1, <3>4
        <4>2. \/ \E n : Written(n) /\ Masks(file[n].rec, j)
              \/ \E m \in 1..L : m < k /\ Masks(Queue(t)[m], j)
          BY <3>1, <4>1 DEF Scan, Behind, L
        <4>3. \A m \in 1..L : m \in 1..Len(Queue(t)') /\ Queue(t)'[m] = Queue(t)[m]
          BY <1>2
        <4> QED  BY <3>2, <4>2, <4>3
      <3> QED  BY <3>3, <3>4
    <2> QED  BY <2>1 DEF Behind, Masks
  <1> QED  BY <1>3, <1>8, <1>9, <1>11, <1>12, <1>13, MovesOnFacts DEF Scan

(* A step of t leaves the scans of the others as they were.                  *)
LEMMA OthersScan ==
    ASSUME LogInv, NEW t \in Threads, Others(t), NEW u \in Threads \ {t}, Isdml(u), Scan(u),
           \/ file' = file
           \/ Grown(Length)
           \/ WriteData(t) /\ threads[t].op = "ingest"
    PROVE  Scan(u)'
  <1>1. SameScan(u) /\ Queue(u)' = Queue(u) /\ threads'[u].half = threads[u].half
    BY DEF Others, SameScan
  <1>2. CASE file' = file \/ Grown(Length)
    BY <1>1, <1>2, ScanStays DEF LogInv
  <1>3. CASE WriteData(t) /\ threads[t].op = "ingest"
    BY <1>3, ScanOverIngest
  <1> QED  BY <1>2, <1>3

LEMMA ScanStep ==
    ASSUME LogInv, Superseded, OneDml, \A u \in Threads : Isdml(u) => Scan(u), Next
    PROVE  \A u \in Threads : Isdml(u)' => Scan(u)'
  <1>0. Types /\ Shaped
    BY DEF LogInv
  <1>1. ASSUME NEW t \in Threads, Others(t),
               \/ file' = file
               \/ Grown(Length)
               \/ WriteData(t) /\ threads[t].op = "ingest",
               Isdml(t)' => Scan(t)'
        PROVE  \A u \in Threads : Isdml(u)' => Scan(u)'
    <2>1. ASSUME NEW u \in Threads \ {t}, Isdml(u)'  PROVE Scan(u)'
      <3>1. Isdml(u) /\ Scan(u)
        BY <1>1, <2>1 DEF Others, Isdml
      <3> QED  BY <1>1, <3>1, OthersScan
    <2> QED  BY <1>1, <2>1
  <1>2. ASSUME NEW t \in Threads, NEW n \in 1..MaxPerIngest, Ingest(t, n)
        PROVE  \A u \in Threads : Isdml(u)' => Scan(u)'
    <2>1. Others(t) /\ ~Isdml(t)' /\ file' = file
      BY <1>0, <1>2, IngestDoes DEF Isdml, Dmls, Ingest
    <2> QED  BY <1>1, <2>1
  <1>3. ASSUME NEW t \in Threads, NEW op \in Dmls, NEW want \in SUBSET (1..nrows) \ {{}},
               DmlOpen(t, op, want)
        PROVE  \A u \in Threads : Isdml(u)' => Scan(u)'
    <2>1. Others(t) /\ file' = file
      BY <1>0, <1>3, DmlOpenDoes DEF EmptyAfter, DmlOpen
    <2>2. Scan(t)'
      BY <1>3, ScanOpens
    <2> QED  BY <1>1, <2>1, <2>2
  <1>4. ASSUME NEW t \in Threads, WriteLength(t)
        PROVE  \A u \in Threads : Isdml(u)' => Scan(u)'
    <2>1. /\ Others(t) /\ Grown(Length) /\ Queue(t)' = Queue(t)
          /\ threads'[t] = [threads[t] EXCEPT !.half = TRUE]
      BY <1>0, <1>4, WriteLengthDoes
    <2>2. SameScan(t) /\ threads'[t].op = threads[t].op
      BY <1>0, <2>1, ThreadFields DEF Thread, SameScan
    <2>3. Isdml(t)' => Scan(t)'
      BY <1>0, <2>1, <2>2, ScanStays DEF Isdml
    <2> QED  BY <1>1, <2>1, <2>3
  <1>5. ASSUME NEW t \in Threads, WriteData(t)
        PROVE  \A u \in Threads : Isdml(u)' => Scan(u)'
    <2>1. /\ Others(t) /\ threads[t].op \in Dmls \union {"ingest"}
          /\ threads'[t] = [threads[t] EXCEPT !.half = FALSE, !.todo = Tail(@)]
      BY <1>0, <1>5, WriteDataDoes
    <2>2. threads'[t].op = threads[t].op
      BY <1>0, <2>1, ThreadFields DEF Thread
    <2>3. CASE threads[t].op = "ingest"
      <3>1. ~Isdml(t)'
        BY <2>2, <2>3 DEF Isdml, Dmls
      <3> QED  BY <1>1, <1>5, <2>1, <2>3, <3>1
    <2>4. CASE Isdml(t)
      <3>1. Scan(t)'
        BY <1>5, <2>4, ScanWrites
      <3>2. ASSUME NEW u \in Threads \ {t}  PROVE ~Isdml(u)'
        BY <2>1, <2>4 DEF Others, OneDml, Isdml
      <3> QED  BY <3>1, <3>2
    <2> QED  BY <2>1, <2>3, <2>4 DEF Isdml
  <1>6. ASSUME NEW t \in Threads, IngestDone(t) \/ DmlDone(t) \/ ReadStep(t)
        PROVE  \A u \in Threads : Isdml(u)' => Scan(u)'
    <2>1. Others(t) /\ ~Isdml(t)'
      BY <1>0, <1>6, StopDoes, ReadTombstonesDoes, ReadRowsDoes, IdleFacts
         DEF ReadStep, EmptyAfter, Isdml, Dmls
    <2>2. file' = file
      BY <1>6 DEF IngestDone, DmlDone, ReadStep, ReadTombstones, ReadRows, ReadDone
    <2> QED  BY <1>1, <2>1, <2>2
  <1>7. ASSUME NEW t \in Threads, DmlRow(t) \/ DmlBatch(t) \/ DmlFlush(t)
        PROVE  \A u \in Threads : Isdml(u)' => Scan(u)'
    <2>1. Others(t) /\ Isdml(t) /\ file' = file
      BY <1>0, <1>7, DmlRowDoes, DmlBatchDoes, DmlFlushDoes
         DEF Tombstoned, Replaced, Isdml, DmlRow, DmlBatch, DmlFlush
    <2>2. Scan(t)'
      BY <1>7, <2>1, ScanRow, ScanBatch, ScanFlushes
    <2> QED  BY <1>1, <2>1, <2>2
  <1>8. ASSUME NEW n \in synced..Len(file), Crash(n)
        PROVE  \A u \in Threads : Isdml(u)' => Scan(u)'
    BY <1>0, <1>8, CrashDoes, IdleFacts DEF Isdml, Dmls
  <1> QED  BY <1>2, <1>3, <1>4, <1>5, <1>6, <1>7, <1>8, NextCases

LEMMA RacedStays ==
    ASSUME LogInv, Next
    PROVE  build' = build /\ (raced => raced')
  <1>1. CASE Crashes
    BY <1>1 DEF Crashes, Crash, history
  <1>2. CASE ~Crashes
    <2>1. build' = build
      BY <1>2, LogGrows DEF LogInv
    <2>2. raced => raced'
      BY <1>2, NextCases DEF Crashes, Ingest, DmlOpen, IngestDone, DmlRow, DmlBatch, DmlFlush,
                             DmlDone, WriteLength, WriteData, ReadStep, ReadTombstones, ReadRows,
                             ReadDone, history
    <2> QED  BY <2>1, <2>2
  <1> QED  BY <1>1, <1>2

LEMMA ReleaseHolds == Spec => []Release
  <1>1. Init => Release
    <2> SUFFICES ASSUME Init PROVE Release
      OBVIOUS
    <2>1. Types /\ \A t \in Threads : ~Isdml(t)
      BY InitTypes, IdleFacts DEF Init, Isdml, Dmls
    <2>2. \A i, id : ~Holds(i, id)
      <3>1. Len(file) = 0
        BY EmptySeq DEF Init
      <3>2. ASSUME NEW i, NEW id, Holds(i, id)  PROVE FALSE
        BY <2>1, <3>1, <3>2, HoldsFacts
      <3> QED  BY <3>2
    <2> QED  BY <2>1, <2>2 DEF Release, Superseded, OneDml
  <1>2. ASSUME LogInv, Release, Next  PROVE Release'
    <2>1. ASSUME build = "release", ~raced'
          PROVE  Superseded' /\ OneDml' /\ \A t \in Threads : Isdml(t)' => Scan(t)'
      <3>1. Superseded /\ OneDml /\ \A t \in Threads : Isdml(t) => Scan(t)
        BY <1>2, <2>1, RacedStays DEF Release
      <3> QED  BY <1>2, <2>1, <3>1, SupersededStep, OneDmlStep, ScanStep
    <2> QED  BY <1>2, <2>1, RacedStays DEF Release
  <1>3. ASSUME LogInv, Release, UNCHANGED vars  PROVE Release'
    <2>1. file' = file /\ threads' = threads /\ build' = build /\ raced' = raced
      BY <1>3 DEF vars
    <2>2. \A i, id : Holds(i, id)' <=> Holds(i, id)
      BY <2>1, SameHolds
    <2>3. Superseded => Superseded'
      BY <2>1, <2>2 DEF Superseded
    <2>4. OneDml => OneDml'
      BY <2>1 DEF OneDml, Isdml
    <2>5. ASSUME NEW t \in Threads, Isdml(t) => Scan(t), Isdml(t)'  PROVE Scan(t)'
      <3>1. Isdml(t) /\ Scan(t) /\ SameScan(t) /\ Queue(t)' = Queue(t)
            /\ threads'[t].half = threads[t].half
        BY <2>1, <2>5 DEF Isdml, SameScan, Queue
      <3> QED  BY <1>3, <2>1, <3>1, ScanStays DEF LogInv
    <2> QED  BY <1>3, <2>1, <2>3, <2>4, <2>5 DEF Release
  <1> QED  BY <1>1, <1>2, <1>3, LogInvHolds, PTL DEF Spec

(* No statement counts or rewrites a row twice, though it appends to the log *)
(* it is scanning; in the release build, while no two DMLs overlap           *)
(* (api.c:3203-3209, 1594-1730).                                             *)
THEOREM CountsOnce == Spec => []OncePerStatement
  <1>1. ASSUME LogInv, Release, NEW t \in Threads, NEW id \in Ids,
               build = "debug" \/ (threads[t].op \in Dmls /\ ~raced)
        PROVE  threads[t].hits[id] <= 1
    <2>1. CASE build = "debug"
      BY <1>1, <2>1 DEF LogInv, Debug, Counted, CountedBy
    <2>2. CASE build # "debug"
      <3>1. build = "release" /\ Isdml(t) /\ ~raced
        BY <1>1, <2>2 DEF LogInv, Types, Isdml
      <3> QED  BY <1>1, <3>1 DEF Release, Scan, HitOnce
    <2> QED  BY <2>1, <2>2
  <1>2. LogInv /\ Release => OncePerStatement
    BY <1>1 DEF OncePerStatement
  <1> QED  BY <1>2, LogInvHolds, ReleaseHolds, PTL

-----------------------------------------------------------------------------
(* The entries of the table: the records a reader of the log finds, and what *)
(* the statements have still to append.                                      *)
Entries == {<<NoThread, i>> : i \in Records(file)} \union
           UNION {{<<t, k>> : k \in 1..Len(Queue(t))} : t \in Threads}
InLog(p) == p[1] = NoThread
Entry(p) == IF InLog(p) THEN Rec(file, p[2]) ELSE Queue(p[1])[p[2]]
Tombs == {p \in Entries : Entry(p).op \in Tombstones}

(* Where the entries after a step come from: S are those that are not new,   *)
(* and the one that was appended is the head of a queue.                     *)
Carries(h, S) ==
    /\ S \subseteq Entries' /\ h \in [S -> Entries]
    /\ \A p, q \in S : h[p] = h[q] => p = q
    /\ \A p \in S :
        /\ Entry(p)' = Entry(h[p])
        /\ ~InLog(p) => h[p][1] = p[1]
        /\ InLog(p) => h[p] = p \/ (p[2] = Len(file) /\ ~InLog(h[p]))
        /\ \A i \in RowsIn(file) :
            InLog(p) /\ i < p[2] => i \in RowsIn(file') /\ Rec(file', i) = Rec(file, i)
        /\ ~InLog(p) => \A i \in RowsIn(file) : i \in RowsIn(file') /\ Rec(file', i) = Rec(file, i)
Onto(h, S) == \A q \in Entries : \E p \in S : h[p] = q

LEMMA EntryForm ==
    /\ \A p \in Entries :
        \/ /\ InLog(p) /\ p[2] \in Records(file) /\ p = <<NoThread, p[2]>>
           /\ Entry(p) = Rec(file, p[2])
        \/ /\ ~InLog(p) /\ p[1] \in Threads /\ p[2] \in 1..Len(Queue(p[1]))
           /\ p = <<p[1], p[2]>> /\ Entry(p) = Queue(p[1])[p[2]]
    /\ \A i \in Records(file) :
        <<NoThread, i>> \in Entries /\ InLog(<<NoThread, i>>) /\ Entry(<<NoThread, i>>) = Rec(file, i)
    /\ \A t \in Threads : \A k \in 1..Len(Queue(t)) :
        /\ <<t, k>> \in Entries /\ ~InLog(<<t, k>>) /\ Entry(<<t, k>>) = Queue(t)[k]
  <1>1. NoThread \notin Threads
    BY TableLogAssumption DEF TableLogAssumption
  <1> QED  BY <1>1 DEF Entries, InLog, Entry

LEMMA EntryFormNext ==
    /\ \A p \in Entries' :
        \/ /\ InLog(p) /\ p[2] \in Records(file') /\ p = <<NoThread, p[2]>>
           /\ Entry(p)' = Rec(file', p[2])
        \/ /\ ~InLog(p) /\ p[1] \in Threads /\ p[2] \in 1..Len(Queue(p[1])')
           /\ p = <<p[1], p[2]>> /\ Entry(p)' = Queue(p[1])'[p[2]]
    /\ \A i \in Records(file') :
        /\ <<NoThread, i>> \in Entries' /\ InLog(<<NoThread, i>>)
        /\ Entry(<<NoThread, i>>)' = Rec(file', i)
    /\ \A t \in Threads : \A k \in 1..Len(Queue(t)') :
        /\ <<t, k>> \in Entries' /\ ~InLog(<<t, k>>) /\ Entry(<<t, k>>)' = Queue(t)'[k]
  <1>1. NoThread \notin Threads
    BY TableLogAssumption DEF TableLogAssumption
  <1> QED  BY <1>1 DEF Entries, InLog, Entry

LEMMA EntryTyped ==
    ASSUME Types, NEW p \in Entries
    PROVE  Entry(p) \in LogRec
  <1>1. CASE InLog(p)
    BY <1>1, EntryForm, RecordsFacts
  <1>2. CASE ~InLog(p)
    <2>1. PICK t \in Threads : \E k \in 1..Len(Queue(t)) : Entry(p) = Queue(t)[k]
      BY <1>2, EntryForm
    <2> QED  BY <2>1, QueueFacts
  <1> QED  BY <1>1, <1>2

(* A step that leaves the records and the queues.                            *)
LEMMA SameRows ==
    ASSUME Types, file' = file \/ \E x : Grown(x)
    PROVE  \A i \in RowsIn(file) : i \in RowsIn(file') /\ Rec(file', i) = Rec(file, i)
  <1>1. \A i \in RowsIn(file) : i \in Records(file)
    BY DEF RowsIn
  <1> QED  BY <1>1, SameLog, RecordsGrow

LEMMA StillCarries ==
    ASSUME Types, file' = file \/ Grown(Length), \A u \in Threads : Queue(u)' = Queue(u)
    PROVE  /\ Carries([p \in Entries |-> p], Entries') /\ Onto([p \in Entries |-> p], Entries')
           /\ Entries' = Entries
  <1>1. Records(file') = Records(file) /\ \A i \in Records(file) : Rec(file', i) = Rec(file, i)
    <2>1. CASE file' = file
      BY <2>1, SameLog
    <2>2. CASE Grown(Length)
      <3>1. Length \in Part /\ Length.part # "data"
        BY DEF Part, Length
      <3> QED  BY <2>2, <3>1, RecordsGrow, NewRecord
    <2> QED  BY <2>1, <2>2
  <1>2. Entries' = Entries
    BY <1>1 DEF Entries
  <1>3. \A p \in Entries : Entry(p)' = Entry(p)
    <2>1. \A p \in Entries : InLog(p) => p[2] \in Records(file)
      BY EntryForm
    <2>2. \A p \in Entries : ~InLog(p) => p[1] \in Threads
      BY EntryForm
    <2> QED  BY <1>1, <2>1, <2>2 DEF Entry
  <1>4. \A i \in RowsIn(file) : i \in RowsIn(file') /\ Rec(file', i) = Rec(file, i)
    BY SameRows
  <1> QED  BY <1>2, <1>3, <1>4 DEF Carries, Onto

LEMMA WriteCarries ==
    ASSUME Types, Shaped, NEW t \in Threads, WriteData(t)
    PROVE  \E h : Carries(h, Entries') /\ (Sound(file') => Onto(h, Entries'))
  <1> DEFINE L == Len(file)
             f(p) == IF InLog(p) THEN IF p[2] = L THEN <<t, 1>> ELSE p
                     ELSE IF p[1] = t THEN <<t, p[2] + 1>> ELSE p
             h == [p \in Entries' |-> f(p)]
  <1>0. NoThread \notin Threads
    BY TableLogAssumption DEF TableLogAssumption
  <1>1. /\ Others(t) /\ Len(Queue(t)) \in Nat /\ Len(Queue(t)) > 0
        /\ Queue(t)[1] \in LogRec /\ Grown(Data(Queue(t)[1]))
        /\ Len(Queue(t)') = Len(Queue(t)) - 1
        /\ \A k \in 1..(Len(Queue(t)) - 1) : Queue(t)'[k] = Queue(t)[k + 1]
    BY WriteDataDoes
  <1>2. /\ Data(Queue(t)[1]) \in Part /\ Data(Queue(t)[1]).part = "data"
        /\ Data(Queue(t)[1]).rec = Queue(t)[1]
    BY <1>1, RecordFields
  <1>3. /\ Records(file) \subseteq Records(file')
        /\ \A i \in Records(file) : Rec(file', i) = Rec(file, i) /\ i # L /\ i \in Nat
        /\ \A i \in Records(file') \ Records(file) : i = L /\ Rec(file', i) = Queue(t)[1]
    <2>1. \A i \in Records(file) : i \in Nat /\ i + 1 \in 1..Len(file)
      BY RecordsFacts
    <2>2. Len(file) \in Nat
      BY FileFacts
    <2>3. \A i \in Records(file) : i # L
      BY <2>1, <2>2
    <2> QED  BY <1>1, <1>2, <2>1, <2>3, RecordsGrow, NewRecord
  <1> HIDE DEF L
  <1>4. ASSUME NEW p \in Entries'
        PROVE  /\ f(p) \in Entries /\ Entry(p)' = Entry(f(p))
               /\ ~InLog(p) => f(p)[1] = p[1]
               /\ InLog(p) => f(p) = p \/ (p[2] = L /\ ~InLog(f(p)))
    <2>1. CASE InLog(p) /\ p[2] = L
      <3>1. p[2] \in Records(file') \ Records(file) /\ Entry(p)' = Rec(file', p[2])
        BY <1>3, <2>1, EntryFormNext
      <3>2. 1 \in 1..Len(Queue(t))
        BY <1>1
      <3>3. <<t, 1>> \in Entries /\ ~InLog(<<t, 1>>) /\ Entry(<<t, 1>>) = Queue(t)[1]
        BY <3>2, EntryForm
      <3> QED  BY <1>3, <2>1, <3>1, <3>3
    <2>2. CASE InLog(p) /\ p[2] # L
      <3>1. p[2] \in Records(file) /\ p = <<NoThread, p[2]>> /\ Entry(p)' = Rec(file', p[2])
        BY <1>3, <2>2, EntryFormNext
      <3> QED  BY <1>3, <2>2, <3>1, EntryForm
    <2>3. CASE ~InLog(p) /\ p[1] = t
      <3>1. p[2] \in 1..Len(Queue(t)') /\ p = <<t, p[2]>> /\ Entry(p)' = Queue(t)'[p[2]]
        BY <2>3, EntryFormNext
      <3>2. p[2] \in 1..(Len(Queue(t)) - 1) /\ p[2] + 1 \in 1..Len(Queue(t))
        BY <1>1, <3>1
      <3>3. <<t, p[2] + 1>> \in Entries /\ Entry(<<t, p[2] + 1>>) = Queue(t)[p[2] + 1]
        BY <3>2, EntryForm
      <3> QED  BY <1>1, <2>3, <3>1, <3>2, <3>3
    <2>4. CASE ~InLog(p) /\ p[1] # t
      <3>1. p[1] \in Threads /\ p[2] \in 1..Len(Queue(p[1])') /\ p = <<p[1], p[2]>>
            /\ Entry(p)' = Queue(p[1])'[p[2]]
        BY <2>4, EntryFormNext
      <3>2. Queue(p[1])' = Queue(p[1])
        BY <1>1, <2>4, <3>1 DEF Others
      <3>3. <<p[1], p[2]>> \in Entries /\ Entry(<<p[1], p[2]>>) = Queue(p[1])[p[2]]
        BY <3>1, <3>2, EntryForm
      <3> QED  BY <2>4, <3>1, <3>2, <3>3
    <2> QED  BY <2>1, <2>2, <2>3, <2>4
  <1>5. ASSUME NEW p \in Entries', NEW q \in Entries', f(p) = f(q)  PROVE p = q
    <2>1. \A z \in Entries' : /\ InLog(z) => z = <<NoThread, z[2]>>
                              /\ ~InLog(z) => /\ z[1] \in Threads /\ z = <<z[1], z[2]>>
                                              /\ z[2] \in 1..Len(Queue(z[1])')
      BY EntryFormNext
    <2>2. \A z \in Entries' : ~InLog(z) /\ z[1] = t => z[2] \in Nat /\ z[2] + 1 # 1
      BY <1>1, <2>1
    <2>3. CASE InLog(p) /\ p[2] = L
      <3>1. InLog(q) /\ q[2] = L
        BY <1>0, <1>5, <2>1, <2>2, <2>3 DEF InLog
      <3> QED  BY <2>1, <2>3, <3>1
    <2>4. CASE InLog(p) /\ p[2] # L
      <3>1. f(p) = p /\ p[1] = NoThread
        BY <2>4 DEF InLog
      <3> QED  BY <1>0, <1>5, <2>1, <3>1 DEF InLog
    <2>5. CASE ~InLog(p) /\ p[1] = t
      <3>1. f(p) = <<t, p[2] + 1>> /\ p[2] + 1 # 1 /\ t # NoThread
        BY <1>0, <2>2, <2>5
      <3>2. ~InLog(q) /\ q[1] = t
        BY <1>5, <2>1, <3>1 DEF InLog
      <3>3. p[2] + 1 = q[2] + 1 /\ p[2] \in Nat /\ q[2] \in Nat
        BY <1>5, <2>2, <2>5, <3>1, <3>2
      <3> QED  BY <2>1, <2>5, <3>2, <3>3
    <2>6. CASE ~InLog(p) /\ p[1] # t
      <3>1. f(p) = p /\ p[1] \in Threads
        BY <2>1, <2>6
      <3> QED  BY <1>0, <1>5, <2>1, <2>6, <3>1 DEF InLog
    <2> QED  BY <2>3, <2>4, <2>5, <2>6
  <1>6. \A i \in RowsIn(file) : i \in RowsIn(file') /\ Rec(file', i) = Rec(file, i)
    BY <1>1, SameRows
  <1>7. /\ h \in [Entries' -> Entries] /\ \A p \in Entries' : h[p] = f(p)
    BY <1>4
  <1>8. ASSUME Sound(file'), NEW q \in Entries  PROVE \E p \in Entries' : f(p) = q
    <2>1. CASE InLog(q)
      <3>1. q[2] \in Records(file) /\ q = <<NoThread, q[2]>> /\ q[2] # L
        BY <1>3, <2>1, EntryForm
      <3>2. q \in Entries'
        BY <1>3, <3>1, EntryFormNext
      <3> QED  BY <2>1, <3>1, <3>2
    <2>2. CASE q[1] = t /\ q[2] = 1 /\ ~InLog(q)
      <3>1. L \in Records(file')
        <4>1. L \in Nat /\ Len(file') = L + 1 /\ file'[L + 1].part = "data"
          BY <1>1, <1>2, FileFacts DEF Grown, L
        <4>2. \A j \in 1..(L + 1) : file'[j].part = PartAt(j)
          BY <1>8, <4>1 DEF Sound
        <4>3. L + 1 \in 1..(L + 1) /\ (L + 1) % 2 # 1
          BY <4>1, <4>2 DEF PartAt
        <4>4. L % 2 = 1
          BY <4>1, <4>3
        <4>5. L \in 1..Len(file') /\ L < Len(file')
          BY <4>1, <4>4
        <4> QED  BY <4>1, <4>2, <4>4, <4>5 DEF Records
      <3>2. PICK p : p = <<NoThread, L>>
        OBVIOUS
      <3>3. p \in Entries' /\ InLog(p) /\ p[2] = L
        BY <3>1, <3>2, EntryFormNext
      <3>4. q = <<t, 1>>
        BY <2>2, EntryForm
      <3> QED  BY <3>3, <3>4
    <2>3. CASE q[1] = t /\ q[2] # 1 /\ ~InLog(q)
      <3>1. q[2] \in 1..Len(Queue(t)) /\ q = <<t, q[2]>>
        BY <2>3, EntryForm
      <3>2. PICK k : k = q[2] - 1
        OBVIOUS
      <3>3. k \in 1..Len(Queue(t)') /\ k + 1 = q[2]
        BY <1>1, <2>3, <3>1, <3>2
      <3>4. PICK p : p = <<t, k>>
        OBVIOUS
      <3>5. p \in Entries' /\ ~InLog(p) /\ p[1] = t /\ p[2] = k
        BY <3>3, <3>4, EntryFormNext
      <3> QED  BY <3>1, <3>3, <3>5
    <2>4. CASE q[1] # t /\ ~InLog(q)
      <3>1. q[1] \in Threads /\ q[2] \in 1..Len(Queue(q[1])) /\ q = <<q[1], q[2]>>
        BY <2>4, EntryForm
      <3>2. Queue(q[1])' = Queue(q[1])
        BY <1>1, <2>4, <3>1 DEF Others
      <3>3. <<q[1], q[2]>> \in Entries'
        BY <3>1, <3>2, EntryFormNext
      <3> QED  BY <2>4, <3>1, <3>3
    <2> QED  BY <2>1, <2>2, <2>3, <2>4
  <1> HIDE DEF f, h
  <1>9. Carries(h, Entries')
    BY <1>4, <1>5, <1>6, <1>7 DEF Carries, L
  <1>10. Sound(file') => Onto(h, Entries')
    BY <1>7, <1>8 DEF Onto
  <1> QED  BY <1>9, <1>10

LEMMA CrashCarries ==
    ASSUME Types, NEW n \in synced..Len(file), Crash(n)
    PROVE  \E h : Carries(h, Entries')
  <1> DEFINE h == [p \in Entries' |-> p]
  <1>1. /\ \A i \in Records(file) : i + 1 <= n =>
                i \in Records(file') /\ Rec(file', i) = Rec(file, i)
        /\ \A i \in Records(file') : i \in Records(file) /\ Rec(file', i) = Rec(file, i)
           /\ i + 1 <= n
    BY CutFacts
  <1>2. \A u \in Threads : Len(Queue(u)') = 0
    BY CrashDoes, EmptySeq
  <1>3. n \in Nat
    BY CrashDoes
  <1>4. ASSUME NEW p \in Entries'
        PROVE  /\ InLog(p) /\ p \in Entries /\ Entry(p)' = Entry(p)
               /\ p[2] \in Records(file) /\ p[2] + 1 <= n
    <2>1. InLog(p)
      <3>1. \A u \in Threads : ~\E k : k \in 1..Len(Queue(u)')
        BY <1>2
      <3> QED  BY <3>1, EntryFormNext
    <2>2. p[2] \in Records(file') /\ p = <<NoThread, p[2]>> /\ Entry(p)' = Rec(file', p[2])
      BY <2>1, EntryFormNext
    <2> QED  BY <1>1, <2>1, <2>2, EntryForm
  <1>5. ASSUME NEW p \in Entries', NEW i \in RowsIn(file), i < p[2]
        PROVE  i \in RowsIn(file') /\ Rec(file', i) = Rec(file, i)
    <2>1. i \in Records(file) /\ i \in Nat /\ p[2] \in Nat
      BY <1>4, RecordsFacts DEF RowsIn
    <2>2. i + 1 <= n
      BY <1>3, <1>4, <1>5, <2>1
    <2>3. i \in Records(file') /\ Rec(file', i) = Rec(file, i)
      BY <1>1, <2>1, <2>2
    <2> QED  BY <2>3 DEF RowsIn, TombsIn
  <1>6. Carries(h, Entries')
    BY <1>4, <1>5 DEF Carries
  <1> QED  BY <1>6

(* A statement's new entries follow or precede its old ones.                 *)
LEMMA MoreCarries ==
    ASSUME Types, file' = file, NEW t \in Threads, Others(t), NEW d \in {0, 1},
           Len(Queue(t)) \in Nat, Len(Queue(t)) + d <= Len(Queue(t)'), Len(Queue(t)') \in Nat,
           \A k \in 1..Len(Queue(t)) : Queue(t)'[k + d] = Queue(t)[k]
    PROVE  \E S, h : /\ Carries(h, S) /\ Onto(h, S)
                     /\ \A p \in S : InLog(p) => h[p] = p
                     /\ \A p \in Entries' : p \in S <=>
                            (p[1] = t => p[2] - d \in 1..Len(Queue(t)))
  <1> DEFINE S == {p \in Entries' : p[1] = t => p[2] - d \in 1..Len(Queue(t))}
             f(p) == IF p[1] = t THEN <<t, p[2] - d>> ELSE p
             h == [p \in S |-> f(p)]
  <1>0. NoThread \notin Threads
    BY TableLogAssumption DEF TableLogAssumption
  <1>1. Records(file') = Records(file) /\ \A i \in Records(file) : Rec(file', i) = Rec(file, i)
    BY SameLog
  <1>2. ASSUME NEW p \in S
        PROVE  /\ f(p) \in Entries /\ Entry(p)' = Entry(f(p)) /\ f(p)[1] = p[1]
               /\ InLog(p) => f(p) = p
    <2>1. CASE InLog(p)
      <3>1. p[1] # t /\ p[2] \in Records(file) /\ p = <<NoThread, p[2]>>
            /\ Entry(p)' = Rec(file', p[2])
        BY <1>0, <1>1, <2>1, EntryFormNext DEF InLog
      <3> QED  BY <1>1, <2>1, <3>1, EntryForm
    <2>2. CASE p[1] = t
      <3>1. ~InLog(p) /\ p[2] \in 1..Len(Queue(t)') /\ p = <<t, p[2]>>
            /\ Entry(p)' = Queue(t)'[p[2]]
        BY <1>0, <2>2, EntryFormNext DEF InLog
      <3>2. PICK k : k = p[2] - d
        OBVIOUS
      <3>3. k \in 1..Len(Queue(t)) /\ k + d = p[2]
        BY <2>2, <3>1, <3>2
      <3>4. <<t, k>> \in Entries /\ Entry(<<t, k>>) = Queue(t)[k]
        BY <3>3, EntryForm
      <3>5. Entry(p)' = Queue(t)[k]
        BY <3>1, <3>3
      <3> QED  BY <2>2, <3>1, <3>2, <3>4, <3>5
    <2>3. CASE ~InLog(p) /\ p[1] # t
      <3>1. p[1] \in Threads /\ p[2] \in 1..Len(Queue(p[1])') /\ p = <<p[1], p[2]>>
            /\ Entry(p)' = Queue(p[1])'[p[2]]
        BY <2>3, EntryFormNext
      <3>2. Queue(p[1])' = Queue(p[1])
        BY <2>3, <3>1 DEF Others
      <3>3. <<p[1], p[2]>> \in Entries /\ Entry(<<p[1], p[2]>>) = Queue(p[1])[p[2]]
        BY <3>1, <3>2, EntryForm
      <3> QED  BY <2>3, <3>1, <3>2, <3>3
    <2> QED  BY <2>1, <2>2, <2>3
  <1>3. ASSUME NEW p \in S, NEW q \in S, f(p) = f(q)  PROVE p = q
    <2>1. \A z \in S : z \in Entries'
      OBVIOUS
    <2>2. \A z \in S : z[1] = t => z = <<t, z[2]>> /\ z[2] \in Nat
      BY <1>0, <2>1, EntryFormNext DEF InLog
    <2>3. \A z \in S : f(z) = IF z[1] = t THEN <<t, z[2] - d>> ELSE z
      OBVIOUS
    <2>4. p[1] = q[1]
      BY <1>2, <1>3
    <2> HIDE DEF f, S
    <2>5. CASE p[1] = t
      <3>1. <<t, p[2] - d>> = <<t, q[2] - d>>
        BY <1>3, <2>3, <2>4, <2>5
      <3>2. p[2] - d = q[2] - d /\ p[2] \in Nat /\ q[2] \in Nat
        BY <2>2, <2>4, <2>5, <3>1
      <3>3. p[2] = q[2]
        BY <3>2
      <3> QED  BY <2>2, <2>4, <2>5, <3>3
    <2>6. CASE p[1] # t
      BY <1>3, <2>3, <2>4, <2>6
    <2> QED  BY <2>5, <2>6
  <1>4. \A i \in RowsIn(file) : i \in RowsIn(file') /\ Rec(file', i) = Rec(file, i)
    BY SameRows
  <1>5. ASSUME NEW q \in Entries  PROVE \E p \in S : f(p) = q
    <2>1. CASE InLog(q)
      <3>1. q[2] \in Records(file') /\ q = <<NoThread, q[2]>> /\ q[1] # t
        BY <1>0, <1>1, <2>1, EntryForm DEF InLog
      <3>2. q \in S
        BY <3>1, EntryFormNext
      <3> QED  BY <3>1, <3>2
    <2>2. CASE q[1] = t
      <3>1. q[2] \in 1..Len(Queue(t)) /\ q = <<t, q[2]>>
        BY <1>0, <2>2, EntryForm DEF InLog
      <3>2. PICK k : k = q[2] + d
        OBVIOUS
      <3>3. k \in 1..Len(Queue(t)') /\ k - d = q[2]
        BY <3>1, <3>2
      <3>4. PICK p : p = <<t, k>>
        OBVIOUS
      <3>5. p \in Entries' /\ p[1] = t /\ p[2] = k
        BY <3>3, <3>4, EntryFormNext
      <3> QED  BY <3>1, <3>3, <3>5
    <2>3. CASE ~InLog(q) /\ q[1] # t
      <3>1. q[1] \in Threads /\ q[2] \in 1..Len(Queue(q[1])) /\ q = <<q[1], q[2]>>
        BY <2>3, EntryForm
      <3>2. Queue(q[1])' = Queue(q[1])
        BY <2>3, <3>1 DEF Others
      <3>3. <<q[1], q[2]>> \in Entries'
        BY <3>1, <3>2, EntryFormNext
      <3> QED  BY <2>3, <3>1, <3>3
    <2> QED  BY <2>1, <2>2, <2>3
  <1>6. h \in [S -> Entries] /\ (\A p \in S : h[p] = f(p)) /\ S \subseteq Entries'
    BY <1>2
  <1>7. \A p \in Entries' : p \in S <=> (p[1] = t => p[2] - d \in 1..Len(Queue(t)))
    OBVIOUS
  <1> HIDE DEF f, h, S
  <1>8. Carries(h, S)
    BY <1>2, <1>3, <1>4, <1>6 DEF Carries
  <1>9. Onto(h, S)
    BY <1>5, <1>6 DEF Onto
  <1> QED  BY <1>2, <1>6, <1>7, <1>8, <1>9

(* The steps that leave every queue.                                         *)
LEMMA QueuesStay ==
    ASSUME Types, Shaped, NEW t \in Threads,
           \/ WriteLength(t) \/ DmlFlush(t) \/ IngestDone(t) \/ DmlDone(t) \/ ReadStep(t)
           \/ \E op \in Dmls, want \in SUBSET (1..nrows) \ {{}} : DmlOpen(t, op, want)
    PROVE  /\ Others(t) /\ \A u \in Threads : Queue(u)' = Queue(u)
           /\ file' = file \/ Grown(Length)
           /\ ~WriteLength(t) => file' = file
           /\ answers' = IF DmlDone(t) THEN answers' ELSE answers
  <1>1. ASSUME Others(t), Queue(t)' = Queue(t)  PROVE \A u \in Threads : Queue(u)' = Queue(u)
    BY <1>1 DEF Others
  <1>2. CASE WriteLength(t)
    BY <1>1, <1>2, WriteLengthDoes DEF WriteLength, history
  <1>3. CASE DmlFlush(t)
    BY <1>1, <1>3, DmlFlushDoes DEF DmlFlush, history
  <1>4. ASSUME EmptyAfter(t), threads[t].todo = <<>>, threads[t].pending = <<>>
        PROVE  Others(t) /\ \A u \in Threads : Queue(u)' = Queue(u)
    <2>1. Queue(t) = <<>>
      BY <1>4, QueueFacts
    <2> QED  BY <1>1, <1>4, <2>1 DEF EmptyAfter
  <1>5. CASE IngestDone(t) \/ DmlDone(t) \/ ReadDone(t)
    <2>1. threads[t].todo = <<>> /\ threads[t].pending = <<>>
      BY <1>5 DEF IngestDone, DmlDone, ReadDone, Scanning, Shaped, Shape, Isdml, Dmls
    <2>2. file' = file /\ (~DmlDone(t) => answers' = answers)
      BY <1>5 DEF IngestDone, DmlDone, ReadDone, history
    <2> QED  BY <1>4, <1>5, <2>1, <2>2, StopDoes
  <1>6. CASE ReadTombstones(t) \/ ReadRows(t)
    <2>1. threads[t].todo = <<>> /\ threads[t].pending = <<>>
      BY <1>6, ReadTombstonesDoes, ReadRowsDoes, IdleFacts DEF Shaped, Shape, Isdml, Dmls
    <2>2. file' = file /\ answers' = answers
      BY <1>6 DEF ReadTombstones, ReadRows, history
    <2> QED  BY <1>4, <1>6, <2>1, <2>2, ReadTombstonesDoes, ReadRowsDoes
  <1>7. ASSUME NEW op \in Dmls, NEW want \in SUBSET (1..nrows) \ {{}}, DmlOpen(t, op, want)
        PROVE  /\ Others(t) /\ \A u \in Threads : Queue(u)' = Queue(u)
               /\ file' = file /\ answers' = answers
    <2>1. EmptyAfter(t) /\ threads[t] = Idle
      BY <1>7, DmlOpenDoes
    <2>2. file' = file /\ answers' = answers
      BY <1>7 DEF DmlOpen
    <2> QED  BY <1>4, <2>1, <2>2, IdleFacts
  <1> QED  BY <1>2, <1>3, <1>5, <1>6, <1>7 DEF ReadStep

-----------------------------------------------------------------------------
(* The tombstones: what they name, and what a statement knows of them.       *)
Ref(p) == Entry(p).ref
WantsOf(t, i) == IdsOf(Rec(file, i).rows) \intersect threads[t].want

(* A tombstone names a record a reader finds before it; an UPDATE that of    *)
(* the row it carries, and a record that a DML reads; one that is queued, a  *)
(* record its statement matched.                                             *)
NamedBy(p) ==
    /\ Ref(p) \in RowsIn(file)
    /\ InLog(p) => Ref(p) < p[2]
    /\ Entry(p).op = "update" =>
        Rec(file, Ref(p)).op = "row" /\ Entry(p).rows[1].id = Rec(file, Ref(p)).rows[1].id
    /\ Entry(p).op = "delete" => Entry(p).rows = <<>>
    /\ Walked(Rec(file, Ref(p)))
    /\ ~InLog(p) => WantsOf(p[1], Ref(p)) # {}
Named == \A p \in Tombs : NamedBy(p)
OneTomb == \A p, q \in Tombs : Ref(p) = Ref(q) => p = q

(* Statements that have not overlapped want different rows, and each knows   *)
(* what has been marked of those it wants.                                   *)
ApartBy(t, u) == build = "debug" /\ threads[t].want \intersect threads[u].want = {}
Apart == \A t, u \in Threads : t # u /\ Isdml(t) /\ Isdml(u) => ApartBy(t, u)
Knows(t, i) == i \in threads[t].dead \/ Passed(t, i) \/ WantsOf(t, i) = {}
SeenBy(t) == \A p \in Tombs : Knows(t, Ref(p))
Seen == \A t \in Threads : Isdml(t) => SeenBy(t)

Marking == ~raced => Named /\ OneTomb /\ Apart /\ Seen

(* What a step leaves of a DML.                                              *)
Continues(t) ==
    Isdml(t)' => /\ Isdml(t) /\ threads'[t].want = threads[t].want
                 /\ threads'[t].dead = threads[t].dead
                 /\ \A i : Passed(t, i) => Passed(t, i)'

LEMMA TombsFacts ==
    /\ \A p \in Tombs : p \in Entries /\ Entry(p).op \in Tombstones
    /\ \A p \in Entries : Entry(p).op \in Tombstones => p \in Tombs
    /\ \A p \in Tombs' : p \in Entries' /\ Entry(p)'.op \in Tombstones
    /\ \A p \in Entries' : Entry(p)'.op \in Tombstones => p \in Tombs'
  BY DEF Tombs

(* Only a DML has a tombstone to append.                                     *)
LEMMA QueuedTombNext ==
    ASSUME Types', Shaped', NEW p \in Tombs', ~InLog(p)
    PROVE  p[1] \in Threads /\ Isdml(p[1])' /\ Queue(p[1])' # <<>>
  <1>1. /\ p[1] \in Threads /\ p[2] \in 1..Len(Queue(p[1])')
        /\ Queue(p[1])'[p[2]].op \in Tombstones
    BY EntryFormNext, TombsFacts
  <1>2. PICK t \in Threads : t = p[1]
    BY <1>1
  <1>3. Shape(t)'
    BY DEF Shaped
  <1>4. threads'[t].op # "ingest"
    BY <1>1, <1>2, <1>3 DEF Shape, RowOps, Batches, Tombstones
  <1>5. Queue(t)' # <<>>
    <2>1. Len(<<>>) = 0
      BY EmptySeq
    <2> QED  BY <1>1, <1>2, <2>1
  <1>6. Isdml(t)'
    <2>1. CASE ~Isdml(t)'
      <3>1. threads'[t].todo = <<>> /\ threads'[t].pending = <<>>
        BY <1>3, <1>4, <2>1 DEF Shape, Isdml
      <3>2. Queue(t)' = <<>> \o <<>>
        BY <3>1 DEF Queue
      <3>3. <<>> \o <<>> = <<>>
        BY EmptySeq, ConcatProperties
      <3> QED  BY <1>5, <3>2, <3>3
    <2> QED  BY <2>1
  <1> QED  BY <1>1, <1>2, <1>5, <1>6

(* A tombstone that is not new names what it named.                          *)
LEMMA TombCarried ==
    ASSUME Types, Types', Shaped', Named, NEW h, NEW S, Carries(h, S),
           \A u \in Threads : Continues(u) \/ Queue(u)' = <<>>,
           NEW p \in Tombs', p \in S
    PROVE  /\ h[p] \in Tombs /\ Ref(h[p]) = Ref(p)' /\ Ref(p)' \in RowsIn(file)
           /\ Rec(file', Ref(p)') = Rec(file, Ref(p)') /\ NamedBy(p)'
  <1>0. PICK q, i : q = h[p] /\ i = Ref(p)'
    OBVIOUS
  <1>1. /\ q \in Entries /\ Entry(p)' = Entry(q)
        /\ ~InLog(p) => q[1] = p[1]
        /\ InLog(p) => q = p \/ (p[2] = Len(file) /\ ~InLog(q))
        /\ \A j \in RowsIn(file) :
            InLog(p) /\ j < p[2] => j \in RowsIn(file') /\ Rec(file', j) = Rec(file, j)
        /\ ~InLog(p) => \A j \in RowsIn(file) : j \in RowsIn(file') /\ Rec(file', j) = Rec(file, j)
    BY <1>0 DEF Carries
  <1>2. q \in Tombs /\ Ref(q) = i
    BY <1>0, <1>1, TombsFacts DEF Ref
  <1>3. NamedBy(q) /\ i \in RowsIn(file)
    BY <1>2 DEF Named, NamedBy
  <1>4. InLog(p) => i < p[2]
    <2>1. CASE InLog(p) /\ q = p
      BY <1>2, <1>3, <2>1 DEF NamedBy
    <2>2. CASE InLog(p) /\ q # p
      <3>1. i \in 1..Len(file) /\ i + 1 \in 1..Len(file)
        BY <1>3, RowsInFacts, RecordsFacts
      <3>2. i < Len(file)
        BY <3>1, FileFacts
      <3> QED  BY <1>1, <2>2, <3>2
    <2> QED  BY <2>1, <2>2
  <1>5. i \in RowsIn(file') /\ Rec(file', i) = Rec(file, i)
    BY <1>1, <1>3, <1>4
  <1>6. ~InLog(p) => WantsOf(p[1], i)' # {}
    <2>1. ASSUME ~InLog(p)  PROVE WantsOf(p[1], i)' # {}
      <3>1. p[1] \in Threads /\ threads'[p[1]].want = threads[p[1]].want
        BY <2>1, QueuedTombNext DEF Continues
      <3>2. ~InLog(q) /\ q[1] = p[1]
        BY <1>1, <2>1 DEF InLog
      <3>3. WantsOf(p[1], i) # {}
        BY <1>2, <1>3, <3>2 DEF NamedBy
      <3> QED  BY <1>5, <3>1, <3>3 DEF WantsOf
    <2> QED  BY <2>1
  <1>7. NamedBy(p)'
    <2>1. /\ Entry(p)'.op = "update" => Rec(file, i).op = "row"
                /\ Entry(p)'.rows[1].id = Rec(file, i).rows[1].id
          /\ Entry(p)'.op = "delete" => Entry(p)'.rows = <<>>
      BY <1>1, <1>2, <1>3 DEF NamedBy
    <2>2. Walked(Rec(file', i))
      BY <1>2, <1>3, <1>5 DEF NamedBy
    <2> QED  BY <1>0, <1>4, <1>5, <1>6, <2>1, <2>2 DEF NamedBy, Ref, Walked, Garbled
  <1> QED  BY <1>0, <1>2, <1>3, <1>5, <1>7

LEMMA MarkingCarries ==
    ASSUME Types, Types', Shaped', Named, OneTomb, NEW h, NEW S, Carries(h, S), build' = build,
           \A u \in Threads : Continues(u) \/ Queue(u)' = <<>>
    PROVE  /\ \A p \in Tombs' : p \in S => h[p] \in Tombs /\ Ref(h[p]) = Ref(p)' /\ NamedBy(p)'
           /\ \A p, q \in Tombs' : p \in S /\ q \in S /\ Ref(p)' = Ref(q)' => p = q
           /\ Apart => \A t, u \in Threads : t # u /\ Continues(t) /\ Continues(u)
                            /\ Isdml(t)' /\ Isdml(u)' => ApartBy(t, u)'
           /\ Seen => \A t \in Threads : Continues(t) /\ Isdml(t)' =>
                            \A p \in Tombs' : \A i : p \in S /\ i = Ref(p)' => Knows(t, i)'
  <1>1. \A p \in Tombs' : p \in S =>
            /\ h[p] \in Tombs /\ Ref(h[p]) = Ref(p)' /\ Ref(p)' \in RowsIn(file)
            /\ Rec(file', Ref(p)') = Rec(file, Ref(p)') /\ NamedBy(p)'
    BY TombCarried
  <1>2. ASSUME NEW p \in Tombs', NEW q \in Tombs', p \in S, q \in S, Ref(p)' = Ref(q)'
        PROVE  p = q
    <2>1. h[p] = h[q]
      BY <1>1, <1>2 DEF OneTomb
    <2> QED  BY <1>2, <2>1 DEF Carries
  <1>3. ASSUME Apart, NEW t \in Threads, NEW u \in Threads, t # u, Continues(t), Continues(u),
               Isdml(t)', Isdml(u)'
        PROVE  ApartBy(t, u)'
    BY <1>3 DEF Apart, ApartBy, Continues
  <1>4. ASSUME Seen, NEW t \in Threads, Continues(t), Isdml(t)', NEW p \in Tombs', NEW i,
               p \in S, i = Ref(p)'
        PROVE  Knows(t, i)'
    <2>1. Knows(t, i)
      BY <1>1, <1>4 DEF Seen, SeenBy, Continues
    <2>2. Rec(file', i) = Rec(file, i)
      BY <1>1, <1>4
    <2>3. WantsOf(t, i)' = WantsOf(t, i)
      BY <1>4, <2>2 DEF WantsOf, Continues
    <2> QED  BY <1>4, <2>1, <2>3 DEF Knows, Continues
  <1> QED  BY <1>1, <1>2, <1>3, <1>4

(* All tombstones are carried.                                               *)
LEMMA MarkingStays ==
    ASSUME Types, Types', Shaped', Marking, ~raced, NEW h, NEW S, Carries(h, S), build' = build,
           \A p \in Entries' : p \in S \/ Entry(p)'.op \notin Tombstones,
           \A u \in Threads : Continues(u)
    PROVE  Marking'
  <1>1. Named /\ OneTomb /\ Apart /\ Seen
    BY DEF Marking
  <1>2. \A p \in Tombs' : p \in S
    BY TombsFacts
  <1>3. Named'
    BY <1>1, <1>2, MarkingCarries DEF Named
  <1>4. OneTomb'
    BY <1>1, <1>2, MarkingCarries DEF OneTomb
  <1>5. Apart'
    BY <1>1, MarkingCarries DEF Apart
  <1>6. Seen'
    BY <1>1, <1>2, MarkingCarries DEF Seen, SeenBy
  <1> QED  BY <1>3, <1>4, <1>5, <1>6 DEF Marking

LEMMA ContinuesStep ==
    ASSUME Types, Shaped, NEW t \in Threads, NEW u \in Threads,
           \/ \E n \in 1..MaxPerIngest : Ingest(t, n)
           \/ WriteLength(t) \/ WriteData(t) \/ IngestDone(t)
           \/ DmlRow(t) \/ DmlBatch(t) \/ DmlFlush(t) \/ DmlDone(t) \/ ReadStep(t)
    PROVE  Continues(u)
  <1>1. ASSUME Others(t), u # t  PROVE Continues(u)
    BY <1>1 DEF Others, Continues, Isdml, Passed
  <1>2. ASSUME ~Isdml(t)'  PROVE Continues(t)
    BY <1>2 DEF Continues
  <1>3. CASE \E n \in 1..MaxPerIngest : Ingest(t, n)
    <2>1. Others(t) /\ threads'[t].op = "ingest"
      BY <1>3, IngestDoes
    <2> QED  BY <1>1, <1>2, <2>1 DEF Isdml, Dmls
  <1>4. CASE WriteLength(t) \/ WriteData(t)
    <2>1. /\ Others(t)
          /\ \/ threads'[t] = [threads[t] EXCEPT !.half = TRUE]
             \/ threads'[t] = [threads[t] EXCEPT !.half = FALSE, !.todo = Tail(@)]
      BY <1>4, WriteLengthDoes, WriteDataDoes
    <2>2. /\ threads'[t].op = threads[t].op /\ threads'[t].want = threads[t].want
          /\ threads'[t].dead = threads[t].dead /\ threads'[t].pos = threads[t].pos
          /\ threads'[t].end = threads[t].end
      BY <2>1, ThreadFields DEF Thread
    <2> QED  BY <1>1, <2>1, <2>2 DEF Continues, Isdml, Passed
  <1>5. CASE IngestDone(t) \/ DmlDone(t) \/ ReadStep(t)
    <2>1. Others(t) /\ ~Isdml(t)'
      BY <1>5, StopDoes, ReadTombstonesDoes, ReadRowsDoes, IdleFacts
         DEF ReadStep, EmptyAfter, Isdml, Dmls
    <2> QED  BY <1>1, <1>2, <2>1
  <1>6. CASE DmlRow(t) \/ DmlBatch(t)
    <2>1. /\ Others(t)
          /\ threads'[t].op = threads[t].op /\ threads'[t].want = threads[t].want
          /\ threads'[t].dead = threads[t].dead /\ threads'[t].end = threads[t].end
          /\ \E i \in FirstMatch(threads[t]) : threads'[t].pos = i + 2
      <3>1. CASE DmlRow(t)
        <4>1. PICK i \in FirstMatch(threads[t]), tomb \in LogRec : Tombstoned(t, i, tomb)
          BY <3>1, DmlRowDoes
        <4> QED  BY <4>1 DEF Tombstoned
      <3>2. CASE DmlBatch(t)
        <4>1. PICK i \in FirstMatch(threads[t]) : Replaced(t, i)
          BY <3>2, DmlBatchDoes
        <4> QED  BY <4>1 DEF Replaced
      <3> QED  BY <1>6, <3>1, <3>2
    <2>2. PICK i \in FirstMatch(threads[t]) : threads'[t].pos = i + 2
      BY <2>1
    <2>3. i \in Nat /\ i >= threads[t].pos /\ threads[t].pos \in Nat
      BY FirstMatchFacts, ThreadFields
    <2>4. \A j : Passed(t, j) => Passed(t, j)'
      BY <2>1, <2>2, <2>3 DEF Passed
    <2> QED  BY <1>1, <2>1, <2>4 DEF Continues, Isdml
  <1>7. CASE DmlFlush(t)
    <2>1. /\ Others(t)
          /\ threads'[t].op = threads[t].op /\ threads'[t].want = threads[t].want
          /\ threads'[t].dead = threads[t].dead /\ threads'[t].end = threads[t].end
          /\ threads'[t].pos = threads[t].end + 1 /\ threads[t].end \in Nat
      BY <1>7, DmlFlushDoes, ThreadFields
    <2>2. \A j : Passed(t, j) => Passed(t, j)'
      BY <2>1 DEF Passed
    <2> QED  BY <1>1, <2>1, <2>2 DEF Continues, Isdml
  <1> QED  BY <1>3, <1>4, <1>5, <1>6, <1>7

(* In the debug build, who wants a row of a record and who wants another     *)
(* row do not want the same record.                                          *)
LEMMA ApartOnRecord ==
    ASSUME Types, Debug, NEW t \in Threads, NEW u \in Threads, ApartBy(t, u), NEW i \in RowsIn(file),
           WantsOf(t, i) # {}
    PROVE  WantsOf(u, i) = {}
  <1>1. build = "debug"
    BY DEF ApartBy
  <1>2. Rec(file, i).op = "row" /\ Rec(file, i) \in LogRec
    BY <1>1, NoBatches, RowsInFacts, RecordsFacts
  <1>3. IdsOf(Rec(file, i).rows) = {Rec(file, i).rows[1].id}
    BY <1>2, RecordFields
  <1> QED  BY <1>3 DEF ApartBy, WantsOf

LEMMA MarkingOpens ==
    ASSUME LogInv, Types', Shaped', Marking, NEW t \in Threads, NEW op \in Dmls,
           NEW want \in SUBSET (1..nrows) \ {{}}, DmlOpen(t, op, want)
    PROVE  Marking'
  <1> SUFFICES ASSUME ~raced'  PROVE Marking'
    BY DEF Marking
  <1>0. Types /\ Shaped /\ Debug
    BY DEF LogInv
  <1>1. ~raced /\ ~Overlaps(t, want) /\ file' = file /\ build' = build
    BY DEF DmlOpen
  <1>2. Named /\ OneTomb /\ Apart /\ Seen
    BY <1>1 DEF Marking
  <1>3. /\ EmptyAfter(t) /\ Others(t) /\ Queue(t)' = <<>>
        /\ threads'[t].op = op /\ threads'[t].want = want
        /\ threads'[t].dead = {Rec(file, d).ref : d \in TombsIn(file)}
    BY <1>0, DmlOpenDoes DEF EmptyAfter
  <1> DEFINE h == [p \in Entries |-> p]
  <1>4. Carries(h, Entries') /\ Entries' = Entries
    <2>1. \A u \in Threads : Queue(u)' = Queue(u)
      BY <1>0, QueuesStay
    <2> QED  BY <1>0, <1>1, <2>1, StillCarries
  <1>5. \A u \in Threads \ {t} : Continues(u)
    BY <1>3 DEF Others, Continues, Isdml, Passed
  <1> HIDE DEF h
  <1>6. \A u \in Threads : Continues(u) \/ Queue(u)' = <<>>
    BY <1>3, <1>5
  <1>6a. /\ \A p \in Tombs' : h[p] \in Tombs /\ Ref(h[p]) = Ref(p)' /\ NamedBy(p)'
         /\ \A p, q \in Tombs' : Ref(p)' = Ref(q)' => p = q
         /\ \A v, u \in Threads : v # u /\ Continues(v) /\ Continues(u)
                            /\ Isdml(v)' /\ Isdml(u)' => ApartBy(v, u)'
         /\ \A v \in Threads : Continues(v) /\ Isdml(v)' =>
                            \A p \in Tombs' : \A i : i = Ref(p)' => Knows(v, i)'
    BY <1>0, <1>1, <1>2, <1>4, <1>6, MarkingCarries, TombsFacts
  <1>7. \A u \in Threads \ {t} : Isdml(u)' => ApartBy(t, u)' /\ ApartBy(u, t)'
    <2>1. ASSUME NEW u \in Threads \ {t}, Isdml(u)'
          PROVE  build' = "debug" /\ threads'[u].want \intersect threads'[t].want = {}
      <3>1. Isdml(u) /\ threads'[u].want = threads[u].want
        BY <1>5, <2>1 DEF Continues
      <3>2. build # "release" /\ threads[u].want \intersect want = {}
        BY <1>1, <3>1 DEF Overlaps, Isdml
      <3> QED  BY <1>0, <1>1, <1>3, <3>1, <3>2 DEF Types
    <2> QED  BY <2>1 DEF ApartBy
  <1>8. ASSUME NEW p \in Tombs', NEW i, i = Ref(p)'  PROVE Knows(t, i)'
    <2>1. CASE InLog(p)
      <3>1. p[2] \in TombsIn(file) /\ i = Rec(file, p[2]).ref
        <4>1. p[2] \in Records(file') /\ Entry(p)' = Rec(file', p[2])
              /\ Entry(p)'.op \in Tombstones
          BY <2>1, EntryFormNext, TombsFacts
        <4> QED  BY <1>1, <1>8, <4>1, SameLog DEF TombsIn, Ref
      <3> QED  BY <1>3, <3>1 DEF Knows
    <2>2. CASE ~InLog(p)
      <3>1. PICK u : u = p[1]
        OBVIOUS
      <3>2. u \in Threads /\ Isdml(u)' /\ u # t
        BY <1>3, <2>2, <3>1, QueuedTombNext
      <3>3. ApartBy(u, t)'
        BY <1>7, <3>2
      <3>4. NamedBy(p)'
        BY <1>6a
      <3>5. i \in RowsIn(file') /\ WantsOf(u, i)' # {}
        BY <1>8, <2>2, <3>1, <3>4 DEF NamedBy
      <3>6. i \in RowsIn(file) /\ Rec(file', i) = Rec(file, i)
        BY <1>1, <3>5, SameLog
      <3>7. Rec(file, i).op = "row" /\ Rec(file, i) \in LogRec
        BY <1>0, <1>1, <3>3, <3>6, NoBatches, RowsInFacts, RecordsFacts DEF ApartBy
      <3>8. IdsOf(Rec(file, i).rows) = {Rec(file, i).rows[1].id}
        BY <3>7, RecordFields
      <3>9. WantsOf(t, i)' = {}
        BY <3>3, <3>5, <3>6, <3>8 DEF WantsOf, ApartBy
      <3> QED  BY <3>9 DEF Knows
    <2> QED  BY <2>1, <2>2
  <1>9. Named' /\ OneTomb'
    BY <1>6a DEF Named, OneTomb
  <1>10. Apart'
    <2>1. \A u, v \in Threads : u # v /\ Isdml(u)' /\ Isdml(v)' => ApartBy(u, v)'
      BY <1>5, <1>6a, <1>7
    <2> QED  BY <2>1 DEF Apart
  <1>11. Seen'
    <2>1. ASSUME NEW u \in Threads, Isdml(u)'  PROVE SeenBy(u)'
      BY <1>5, <1>6a, <1>8, <2>1 DEF SeenBy
    <2> QED  BY <2>1 DEF Seen
  <1> QED  BY <1>9, <1>10, <1>11 DEF Marking

-----------------------------------------------------------------------------
(* A DML acts on record i: of the new entries z is its tombstone, and they   *)
(* bear its rows as the statement makes them, each once.                     *)
Left(t, i) == {x \in DOMAIN Rec(file, i).rows : Len(Remade(threads[t], Rec(file, i).rows[x])) = 1}
Made(t, i, x) == Remade(threads[t], Rec(file, i).rows[x])[1]
Adds(S, h) ==
    /\ Carries(h, S) /\ Onto(h, S) /\ \A p \in S : InLog(p) => h[p] = p
    /\ \A p \in Entries' : p \notin S => ~InLog(p)
NewTomb(t, i, z) ==
    /\ z \in Tombs' /\ ~InLog(z) /\ z[1] = t /\ Ref(z)' = i
    /\ Entry(z)'.op = "update" =>
        Rec(file, i).op = "row" /\ Entry(z)'.rows[1].id = Rec(file, i).rows[1].id
    /\ Entry(z)'.op = "delete" => Entry(z)'.rows = <<>>
Remakes(t, i, S, h, z) ==
    /\ Adds(S, h) /\ NewTomb(t, i, z) /\ z \notin S
    /\ \A p \in Entries' : p \in S \/ p = z \/ Entry(p)'.op \in RowOps
    /\ \A p \in Entries' : \A k \in DOMAIN Entry(p)'.rows :
            p \in S \/ \E x \in Left(t, i) : Entry(p)'.rows[k] = Made(t, i, x)
    /\ \A p, q \in Entries' : \A k \in DOMAIN Entry(p)'.rows : \A m \in DOMAIN Entry(q)'.rows :
            p \in S \/ q \in S \/ (Entry(p)'.rows[k].id = Entry(q)'.rows[m].id => p = q)
    /\ \A x \in Left(t, i) : \E p \in Entries' : \E k \in DOMAIN Entry(p)'.rows :
            p \notin S /\ Entry(p)'.rows[k] = Made(t, i, x)

LEMMA RowRemakes ==
    ASSUME Types, NEW t \in Threads, NEW i \in FirstMatch(threads[t]), NEW tomb \in LogRec,
           Tombstoned(t, i, tomb), file' = file
    PROVE  \E S, h, z : Remakes(t, i, S, h, z)
  <1> DEFINE L == Len(Queue(t))
             z == <<t, 1>>
  <1>1. /\ L \in Nat /\ Others(t) /\ Len(Queue(t)') = L + 1 /\ Queue(t)'[1] = tomb
        /\ \A k \in 1..L : Queue(t)'[k + 1] = Queue(t)[k]
    BY QueueFacts DEF Tombstoned
  <1>2. PICK S, h : /\ Carries(h, S) /\ Onto(h, S) /\ \A p \in S : InLog(p) => h[p] = p
                    /\ \A p \in Entries' : p \in S <=> (p[1] = t => p[2] - 1 \in 1..L)
    <2>1. 1 \in {0, 1} /\ L + 1 <= Len(Queue(t)') /\ Len(Queue(t)') \in Nat
      BY <1>1
    <2> QED  BY <1>1, <2>1, MoreCarries
  <1>3. ASSUME NEW p \in Entries', p \notin S  PROVE p = z /\ ~InLog(p)
    <2>1. p[1] = t /\ p[2] - 1 \notin 1..L
      BY <1>2, <1>3
    <2>2. ~InLog(p)
      BY <2>1, TableLogAssumption DEF InLog, TableLogAssumption
    <2>3. p[2] \in 1..(L + 1) /\ p = <<t, p[2]>>
      BY <1>1, <2>1, <2>2, EntryFormNext
    <2>4. p[2] = 1
      BY <1>1, <2>1, <2>3
    <2> QED  BY <2>2, <2>3, <2>4
  <1>4. z \in Entries' /\ ~InLog(z) /\ Entry(z)' = tomb /\ z \notin S
    <2>1. 1 \in 1..Len(Queue(t)') /\ 1 - 1 \notin 1..L
      BY <1>1
    <2>2. z \in Entries' /\ ~InLog(z) /\ Entry(z)' = tomb
      BY <1>1, <2>1, EntryFormNext
    <2> QED  BY <1>2, <2>1, <2>2
  <1>5. /\ tomb.op = threads[t].op /\ tomb.op \in Tombstones /\ tomb.ref = i
        /\ Rec(file, i).op = "row" /\ Rec(file, i).rows[1].id \in threads[t].want
        /\ tomb.rows = IF tomb.op = "delete" THEN <<>>
                       ELSE <<[Printed(Rec(file, i).rows[1]) EXCEPT !.v = threads[t].n]>>
        /\ tomb.op = "update" => tomb.rows[1].id = Rec(file, i).rows[1].id
    BY DEF Tombstoned, Dmls, Tombstones
  <1>6. Rec(file, i).rows \in Seq(Row) /\ Len(Rec(file, i).rows) = 1 /\ DOMAIN Rec(file, i).rows = {1}
    <2>1. Rec(file, i) \in LogRec
      BY FirstMatchFacts
    <2>2. Rec(file, i).rows \in Seq(Row) /\ Len(Rec(file, i).rows) = 1
      BY <1>5, <2>1, RecordFields
    <2> QED  BY <2>2
  <1>7. /\ Remade(threads[t], Rec(file, i).rows[1]) = tomb.rows
        /\ tomb.op = "delete" => Left(t, i) = {} /\ DOMAIN tomb.rows = {}
        /\ tomb.op # "delete" => Left(t, i) = {1} /\ DOMAIN tomb.rows = {1}
                                 /\ tomb.rows[1] = Made(t, i, 1)
    <2>1. Remade(threads[t], Rec(file, i).rows[1]) = tomb.rows
      BY <1>5 DEF Remade
    <2>2. CASE tomb.op = "delete"
      <3>1. Len(tomb.rows) = 0 /\ DOMAIN tomb.rows = {}
        BY <1>5, <2>2, EmptySeq
      <3> QED  BY <1>6, <2>1, <2>2, <3>1 DEF Left
    <2>3. CASE tomb.op # "delete"
      <3>1. Len(tomb.rows) = 1 /\ DOMAIN tomb.rows = {1}
        BY <1>5, <2>3, SeqOne
      <3> QED  BY <1>6, <2>1, <2>3, <3>1 DEF Left, Made
    <2> QED  BY <2>1, <2>2, <2>3
  <1> HIDE DEF z, L
  <1>8. Adds(S, h)
    BY <1>2, <1>3 DEF Adds
  <1>9. NewTomb(t, i, z)
    <2>1. z \in Tombs' /\ z[1] = t
      BY <1>4, <1>5, TombsFacts DEF z
    <2> QED  BY <1>4, <1>5, <2>1 DEF NewTomb, Ref
  <1>10. \A p \in Entries' : p \in S \/ p = z
    BY <1>3
  <1>11. \A k \in DOMAIN Entry(z)'.rows : \E x \in Left(t, i) : Entry(z)'.rows[k] = Made(t, i, x)
    BY <1>4, <1>7
  <1>12. \A x \in Left(t, i) : \E k \in DOMAIN Entry(z)'.rows : Entry(z)'.rows[k] = Made(t, i, x)
    BY <1>4, <1>7
  <1>13. Remakes(t, i, S, h, z)
    BY <1>4, <1>8, <1>9, <1>10, <1>11, <1>12 DEF Remakes
  <1> QED  BY <1>13

LEMMA BatchRemakes ==
    ASSUME Types, NEW t \in Threads, NEW i \in FirstMatch(threads[t]), Replaced(t, i), file' = file
    PROVE  \E S, h, z : Remakes(t, i, S, h, z)
  <1> DEFINE c == threads[t]
             R == Rec(file, i).rows
             W == Survivors(t, i)
             L == Len(Queue(t))
             M == Len(W)
  <1>0. PICK z : z = <<t, L + 1>>
    OBVIOUS
  <1>1. /\ L \in Nat /\ M \in Nat /\ Others(t) /\ Len(Queue(t)') = L + 1 + M
        /\ \A k \in 1..L : Queue(t)'[k] = Queue(t)[k]
        /\ Queue(t)'[L + 1] = DeleteRec(i)
        /\ \A k \in 1..M : Queue(t)'[L + 1 + k] = W[k]
    BY QueueFacts, LenProperties DEF Replaced
  <1>2. PICK S, h : /\ Carries(h, S) /\ Onto(h, S) /\ \A p \in S : InLog(p) => h[p] = p
                    /\ \A p \in Entries' : p \in S <=> (p[1] = t => p[2] - 0 \in 1..L)
    <2>1. 0 \in {0, 1} /\ L + 0 <= Len(Queue(t)') /\ Len(Queue(t)') \in Nat
      BY <1>1
    <2>2. \A k \in 1..L : Queue(t)'[k + 0] = Queue(t)[k]
      BY <1>1
    <2> QED  BY <1>1, <2>1, <2>2, MoreCarries
  <1>3. PICK g \in [1..M -> 1..Len(R)] :
            /\ \A j \in 1..M : Len(Remade(c, R[g[j]])) = 1 /\ W[j] = RowRec(Remade(c, R[g[j]])[1])
            /\ \A a, b \in 1..M : a < b => g[a] < g[b]
            /\ \A r \in 1..Len(R) : Len(Remade(c, R[r])) = 1 => \E j \in 1..M : g[j] = r
    BY DEF Replaced, FromRows
  <1>4. c \in Thread /\ R \in Seq(Row) /\ DOMAIN R = 1..Len(R) /\ Len(R) \in Nat
        /\ \A a, b \in 1..Len(R) : R[a].id = R[b].id => a = b
    <2>1. Rec(file, i) \in LogRec
      BY FirstMatchFacts
    <2> QED  BY <2>1, RecordFields, ThreadFields, LenProperties
  <1> HIDE DEF c, R, W, L, M
  <1>5. \A j \in 1..M : /\ W[j].op = "row" /\ DOMAIN W[j].rows = {1}
                        /\ W[j].rows[1] = Made(t, i, g[j]) /\ g[j] \in Left(t, i)
    <2>1. \A r : RowRec(r).op = "row" /\ DOMAIN RowRec(r).rows = {1} /\ RowRec(r).rows[1] = r
      BY SeqOne DEF RowRec
    <2>2. \A j \in 1..M : g[j] \in 1..Len(R)
      BY <1>3
    <2> QED  BY <1>3, <1>4, <2>1, <2>2 DEF Left, Made, c, R
  <1>6. \A a, b \in 1..M : g[a] = g[b] => a = b
    <2> SUFFICES ASSUME NEW a \in 1..M, NEW b \in 1..M, g[a] = g[b]  PROVE a = b
      OBVIOUS
    <2>1. g[a] \in 1..Len(R)
      BY <1>3
    <2>2. ~(a < b) /\ ~(b < a)
      BY <1>3, <1>4, <2>1
    <2> QED  BY <1>1, <2>2
  <1>7. \A x \in Left(t, i) : x \in 1..Len(R) /\ Made(t, i, x).id = R[x].id
    <2>1. \A x \in Left(t, i) : x \in 1..Len(R) /\ R[x] \in Row /\ Len(Remade(c, R[x])) = 1
      BY <1>4, ElementOfSeq DEF Left, c, R
    <2> QED  BY <1>4, <2>1, RemadeIsShort DEF Made, c, R
  <1>8. /\ DeleteRec(i).op = "delete" /\ DeleteRec(i).ref = i /\ DeleteRec(i).rows = <<>>
        /\ DOMAIN DeleteRec(i).rows = {}
    BY EmptySeq DEF DeleteRec
  <1>9. z \in Entries' /\ ~InLog(z) /\ Entry(z)' = DeleteRec(i) /\ z \notin S /\ z[1] = t
    <2>1. PICK k : k = L + 1
      OBVIOUS
    <2>2. k \in 1..Len(Queue(t)') /\ k - 0 \notin 1..L
      BY <1>1, <2>1
    <2>3. z \in Entries' /\ ~InLog(z) /\ Entry(z)' = Queue(t)'[k] /\ z[1] = t /\ z[2] = k
      BY <1>0, <2>1, <2>2, EntryFormNext
    <2> QED  BY <1>1, <1>2, <2>1, <2>2, <2>3
  <1>10. ASSUME NEW p \in Entries', p \notin S
         PROVE  /\ ~InLog(p) /\ p[1] = t /\ p = <<t, p[2]>>
                /\ p = z \/ (\E m \in 1..M : p[2] = L + 1 + m /\ Entry(p)' = W[m])
    <2>1. p[1] = t /\ p[2] - 0 \notin 1..L
      BY <1>2, <1>10
    <2>2. ~InLog(p)
      BY <2>1, TableLogAssumption DEF InLog, TableLogAssumption
    <2>3. p[2] \in 1..(L + 1 + M) /\ p = <<t, p[2]>> /\ Entry(p)' = Queue(t)'[p[2]]
      BY <1>1, <2>1, <2>2, EntryFormNext
    <2>4. CASE p[2] = L + 1
      BY <1>0, <2>1, <2>2, <2>3, <2>4
    <2>5. CASE p[2] # L + 1
      <3>1. PICK m : m = p[2] - (L + 1)
        OBVIOUS
      <3>2. m \in 1..M /\ p[2] = L + 1 + m
        <4>1. \A k \in 1..(L + 1 + M) : k \notin 1..L /\ k # L + 1 =>
                    k - (L + 1) \in 1..M /\ k = L + 1 + (k - (L + 1))
          BY <1>1
        <4>2. p[2] \in 1..(L + 1 + M) /\ p[2] \notin 1..L
          BY <1>2, <1>10, <2>1, <2>3
        <4> QED  BY <2>5, <3>1, <4>1, <4>2
      <3>3. Queue(t)'[p[2]] = W[m]
        BY <1>1, <3>2
      <3> QED  BY <2>1, <2>2, <2>3, <3>2, <3>3
    <2> QED  BY <2>4, <2>5
  <1>11. ASSUME NEW m \in 1..M
         PROVE  \E p \in Entries' : p \notin S /\ Entry(p)' = W[m]
    <2>1. PICK k, p : k = L + 1 + m /\ p = <<t, k>>
      OBVIOUS
    <2>2. k \in 1..Len(Queue(t)') /\ k - 0 \notin 1..L
      BY <1>1, <2>1
    <2>3. p \in Entries' /\ Entry(p)' = Queue(t)'[k] /\ p[1] = t /\ p[2] = k
      BY <2>1, <2>2, EntryFormNext
    <2>4. p \notin S
      BY <1>2, <2>2, <2>3
    <2> QED  BY <1>1, <2>1, <2>3, <2>4
  <1>12. Adds(S, h)
    BY <1>2, <1>10 DEF Adds
  <1>13. NewTomb(t, i, z)
    <2>1. z \in Tombs'
      BY <1>8, <1>9, TombsFacts DEF Tombstones
    <2> QED  BY <1>8, <1>9, <2>1 DEF NewTomb, Ref
  <1>14. \A p \in Entries' : p \in S \/ p = z \/ Entry(p)'.op \in RowOps
    BY <1>5, <1>10 DEF RowOps
  <1>15. ASSUME NEW p \in Entries', NEW k \in DOMAIN Entry(p)'.rows, p \notin S
         PROVE  \E m \in 1..M : /\ p = <<t, L + 1 + m>> /\ g[m] \in Left(t, i)
                                /\ Entry(p)'.rows[k] = Made(t, i, g[m])
    <2>1. p # z
      BY <1>8, <1>9, <1>15
    <2>2. PICK m \in 1..M : p[2] = L + 1 + m /\ Entry(p)' = W[m] /\ p = <<t, p[2]>>
      BY <1>10, <1>15, <2>1
    <2> QED  BY <1>5, <1>15, <2>2
  <1>16. ASSUME NEW p \in Entries', NEW q \in Entries', NEW k \in DOMAIN Entry(p)'.rows,
                NEW m \in DOMAIN Entry(q)'.rows, p \notin S, q \notin S,
                Entry(p)'.rows[k].id = Entry(q)'.rows[m].id
         PROVE  p = q
    <2>1. PICK a \in 1..M : /\ p = <<t, L + 1 + a>> /\ g[a] \in Left(t, i)
                            /\ Entry(p)'.rows[k] = Made(t, i, g[a])
      BY <1>15, <1>16
    <2>2. PICK b \in 1..M : /\ q = <<t, L + 1 + b>> /\ g[b] \in Left(t, i)
                            /\ Entry(q)'.rows[m] = Made(t, i, g[b])
      BY <1>15, <1>16
    <2>3. g[a] = g[b]
      BY <1>4, <1>7, <1>16, <2>1, <2>2
    <2> QED  BY <1>6, <2>1, <2>2, <2>3
  <1>17. ASSUME NEW x \in Left(t, i)
         PROVE  \E p \in Entries' : \E k \in DOMAIN Entry(p)'.rows :
                    p \notin S /\ Entry(p)'.rows[k] = Made(t, i, x)
    <2>1. x \in 1..Len(R) /\ Len(Remade(c, R[x])) = 1
      BY <1>4 DEF Left, c, R
    <2>2. PICK m \in 1..M : g[m] = x
      BY <1>3, <2>1
    <2>3. PICK p \in Entries' : p \notin S /\ Entry(p)' = W[m]
      BY <1>11
    <2> QED  BY <1>5, <2>2, <2>3
  <1>18. \A p \in Entries' : \A k \in DOMAIN Entry(p)'.rows :
            p \in S \/ \E x \in Left(t, i) : Entry(p)'.rows[k] = Made(t, i, x)
    BY <1>15
  <1>19. Remakes(t, i, S, h, z)
    BY <1>9, <1>12, <1>13, <1>14, <1>16, <1>17, <1>18 DEF Remakes
  <1> QED  BY <1>19

LEMMA MarkingAdds ==
    ASSUME LogInv, Types', Shaped', Marking, ~raced, NEW t \in Threads, Isdml(t),
           NEW i \in FirstMatch(threads[t]), file' = file, build' = build,
           threads'[t].pos = i + 2, threads'[t].end = threads[t].end,
           threads'[t].want = threads[t].want, threads'[t].op = threads[t].op,
           \A u \in Threads : Continues(u), NEW S, NEW h, NEW z, Remakes(t, i, S, h, z)
    PROVE  Marking'
  <1>0. Types /\ Debug
    BY DEF LogInv
  <1>1. Named /\ OneTomb /\ Apart /\ Seen
    BY DEF Marking
  <1>2. /\ i \in RowsIn(file) /\ i \in Nat /\ i >= threads[t].pos /\ i <= threads[t].end
        /\ i \notin threads[t].dead /\ WantsOf(t, i) # {} /\ Walked(Rec(file, i))
    BY <1>0, FirstMatchFacts DEF WantsOf
  <1>3. /\ Carries(h, S) /\ NewTomb(t, i, z) /\ z \in Tombs'
        /\ \A p \in Tombs' : p \in S \/ p = z
    BY TombsFacts DEF Remakes, Adds, NewTomb, RowOps, Batches, Tombstones
  <1>4. \A u \in Threads : Continues(u) \/ Queue(u)' = <<>>
    OBVIOUS
  <1>5. /\ \A p \in Tombs' : p \in S => h[p] \in Tombs /\ Ref(h[p]) = Ref(p)' /\ NamedBy(p)'
        /\ \A p, q \in Tombs' : p \in S /\ q \in S /\ Ref(p)' = Ref(q)' => p = q
        /\ \A v, u \in Threads : v # u /\ Isdml(v)' /\ Isdml(u)' => ApartBy(v, u)'
        /\ \A u \in Threads : Isdml(u)' =>
                \A p \in Tombs' : \A j : p \in S /\ j = Ref(p)' => Knows(u, j)'
    BY <1>0, <1>1, <1>3, <1>4, MarkingCarries
  <1>6. \A q \in Tombs : Ref(q) # i
    <2>1. ~Knows(t, i)
      BY <1>0, <1>2, ThreadFields DEF Knows, Passed
    <2> QED  BY <1>1, <2>1 DEF Seen, SeenBy
  <1>7. Rec(file', i) = Rec(file, i) /\ RowsIn(file') = RowsIn(file)
    BY SameLog
  <1>8. NamedBy(z)'
    <2>1. WantsOf(t, i)' = WantsOf(t, i)
      BY <1>7 DEF WantsOf
    <2> QED  BY <1>2, <1>3, <1>7, <2>1 DEF NamedBy, NewTomb
  <1>9. Named'
    BY <1>3, <1>5, <1>8 DEF Named
  <1>10. OneTomb'
    <2>1. \A p \in Tombs' : p \in S => Ref(p)' # i
      BY <1>5, <1>6
    <2>2. Ref(z)' = i
      BY <1>3 DEF NewTomb
    <2> QED  BY <1>3, <1>5, <2>1, <2>2 DEF OneTomb
  <1>11. Apart'
    BY <1>5 DEF Apart
  <1>12. Seen'
    <2>1. Knows(t, i)'
      BY <1>2 DEF Knows, Passed
    <2>2. ASSUME NEW u \in Threads \ {t}, Isdml(u)'  PROVE Knows(u, i)'
      <3>1. Isdml(u) /\ threads'[u].want = threads[u].want
        BY <2>2 DEF Continues
      <3>2. ApartBy(t, u)
        BY <1>1, <3>1 DEF Apart
      <3>3. WantsOf(u, i) = {}
        BY <1>0, <1>2, <3>2, ApartOnRecord
      <3> QED  BY <1>7, <3>1, <3>3 DEF Knows, WantsOf
    <2>3. \A u \in Threads : Isdml(u)' => SeenBy(u)'
      <3>1. ASSUME NEW u \in Threads, Isdml(u)', NEW p \in Tombs', NEW j, j = Ref(p)'
            PROVE  Knows(u, j)'
        <4>1. CASE p \in S
          BY <1>5, <3>1, <4>1
        <4>2. CASE p = z
          <5>1. j = i
            BY <1>3, <3>1, <4>2 DEF NewTomb
          <5> QED  BY <2>1, <2>2, <3>1, <5>1
        <4> QED  BY <1>3, <4>1, <4>2
      <3> QED  BY <3>1 DEF SeenBy
    <2> QED  BY <2>3 DEF Seen
  <1> QED  BY <1>9, <1>10, <1>11, <1>12 DEF Marking

(* What Ingest adds is rows.                                                 *)
IngestAdds(t, S, h) ==
    /\ Adds(S, h)
    /\ \A p \in Entries' : p \in S \/ (p[1] = t /\ p[2] \in 1..Len(Queue(t)')
                                        /\ p = <<t, p[2]>> /\ Entry(p)' = Queue(t)'[p[2]])
    /\ \A p \in Entries' : p \in S <=> p[1] # t

LEMMA IngestCarries ==
    ASSUME Types, NEW t \in Threads, NEW n \in 1..MaxPerIngest, Ingest(t, n)
    PROVE  \E S, h : IngestAdds(t, S, h)
  <1>1. /\ Others(t) /\ threads[t] = Idle /\ Typed /\ file' = file
        /\ threads'[t].todo \in Seq(LogRec) /\ threads'[t].pending \in Seq(LogRec)
    <2>1. Others(t) /\ threads[t] = Idle /\ Typed
      BY IngestDoes
    <2> QED  BY <2>1 DEF Ingest, Typed, Thread
  <1>2. Len(Queue(t)) = 0
    <2>1. Queue(t) = <<>>
      BY <1>1, IdleFacts, QueueFacts
    <2> QED  BY <2>1, EmptySeq
  <1>3. Len(Queue(t)') \in Nat
    <2>1. Queue(t)' \in Seq(LogRec)
      BY <1>1, ConcatProperties DEF Queue
    <2> QED  BY <2>1, LenProperties
  <1>4. PICK S, h : /\ Carries(h, S) /\ Onto(h, S) /\ \A p \in S : InLog(p) => h[p] = p
                    /\ \A p \in Entries' : p \in S <=> (p[1] = t => p[2] - 0 \in 1..Len(Queue(t)))
    <2>1. 0 \in {0, 1} /\ Len(Queue(t)) + 0 <= Len(Queue(t)')
      BY <1>2, <1>3
    <2>2. \A k \in 1..Len(Queue(t)) : Queue(t)'[k + 0] = Queue(t)[k]
      BY <1>2
    <2> QED  BY <1>1, <1>2, <1>3, <2>1, <2>2, MoreCarries
  <1>5. \A p \in Entries' : p \in S <=> p[1] # t
    BY <1>2, <1>4
  <1>6. \A p \in Entries' : p[1] = t =>
            ~InLog(p) /\ p[2] \in 1..Len(Queue(t)') /\ p = <<t, p[2]>> /\ Entry(p)' = Queue(t)'[p[2]]
    BY EntryFormNext, TableLogAssumption DEF InLog, TableLogAssumption
  <1>7. IngestAdds(t, S, h)
    BY <1>4, <1>5, <1>6 DEF IngestAdds, Adds
  <1> QED  BY <1>7

LEMMA MarkingStep ==
    ASSUME LogInv, Marking, Next, Types', Shaped'
    PROVE  Marking'
  <1> SUFFICES ASSUME ~raced'  PROVE Marking'
    BY DEF Marking
  <1>0. Types /\ Shaped /\ ~raced /\ build' = build
    BY RacedStays DEF LogInv
  <1>1. ASSUME NEW t \in Threads, NEW n \in 1..MaxPerIngest, Ingest(t, n)  PROVE Marking'
    <2>1. PICK S, h : IngestAdds(t, S, h)
      BY <1>0, <1>1, IngestCarries
    <2>2. \A u \in Threads : Continues(u)
      BY <1>0, <1>1, ContinuesStep
    <2>3. threads'[t].op = "ingest" /\ Shape(t)'
      BY <1>0, <1>1, IngestDoes DEF Shaped
    <2>4. \A p \in Entries' : p \in S \/ Entry(p)'.op \notin Tombstones
      BY <2>1, <2>3 DEF IngestAdds, Shape, RowOps, Batches, Tombstones
    <2> QED  BY <1>0, <2>1, <2>2, <2>4, MarkingStays DEF IngestAdds, Adds
  <1>2. ASSUME NEW t \in Threads, NEW op \in Dmls, NEW want \in SUBSET (1..nrows) \ {{}},
               DmlOpen(t, op, want)
        PROVE  Marking'
    BY <1>2, MarkingOpens
  <1>3. ASSUME NEW t \in Threads,
               WriteLength(t) \/ DmlFlush(t) \/ IngestDone(t) \/ DmlDone(t) \/ ReadStep(t)
        PROVE  Marking'
    <2>1. /\ \A u \in Threads : Queue(u)' = Queue(u)
          /\ file' = file \/ Grown(Length)
      BY <1>0, <1>3, QueuesStay
    <2>2. PICK h : Carries(h, Entries')
      BY <1>0, <2>1, StillCarries
    <2>3. \A u \in Threads : Continues(u)
      BY <1>0, <1>3, ContinuesStep
    <2> QED  BY <1>0, <2>2, <2>3, MarkingStays
  <1>4. ASSUME NEW t \in Threads, WriteData(t)  PROVE Marking'
    <2>1. PICK h : Carries(h, Entries')
      BY <1>0, <1>4, WriteCarries
    <2>2. \A u \in Threads : Continues(u)
      BY <1>0, <1>4, ContinuesStep
    <2> QED  BY <1>0, <2>1, <2>2, MarkingStays
  <1>5. ASSUME NEW t \in Threads, DmlRow(t)  PROVE Marking'
    <2>1. PICK i \in FirstMatch(threads[t]), tomb \in LogRec : Tombstoned(t, i, tomb)
      BY <1>0, <1>5, DmlRowDoes
    <2>2. file' = file
      BY <1>5 DEF DmlRow
    <2>3. PICK S, h, z : Remakes(t, i, S, h, z)
      BY <1>0, <2>1, <2>2, RowRemakes
    <2>4. \A u \in Threads : Continues(u)
      BY <1>0, <1>5, ContinuesStep
    <2>5. Isdml(t)
      BY <2>1 DEF Tombstoned, Isdml
    <2> QED  BY <1>0, <2>1, <2>2, <2>3, <2>4, <2>5, MarkingAdds DEF Tombstoned
  <1>6. ASSUME NEW t \in Threads, DmlBatch(t)  PROVE Marking'
    <2>1. PICK i \in FirstMatch(threads[t]) : Replaced(t, i)
      BY <1>0, <1>6, DmlBatchDoes
    <2>2. file' = file
      BY <1>6 DEF DmlBatch
    <2>3. PICK S, h, z : Remakes(t, i, S, h, z)
      BY <1>0, <2>1, <2>2, BatchRemakes
    <2>4. \A u \in Threads : Continues(u)
      BY <1>0, <1>6, ContinuesStep
    <2>5. Isdml(t)
      BY <2>1 DEF Replaced, Isdml
    <2> QED  BY <1>0, <2>1, <2>2, <2>3, <2>4, <2>5, MarkingAdds DEF Replaced
  <1>7. ASSUME NEW n \in synced..Len(file), Crash(n)  PROVE Marking'
    <2>1. PICK h : Carries(h, Entries')
      BY <1>0, <1>7, CrashCarries
    <2>2. \A u \in Threads : Continues(u)
      BY <1>0, <1>7, CrashDoes, IdleFacts DEF Continues, Isdml, Dmls
    <2> QED  BY <1>0, <2>1, <2>2, MarkingStays
  <1> QED  BY <1>1, <1>2, <1>3, <1>4, <1>5, <1>6, <1>7, NextCases

LEMMA InitEntries ==
    ASSUME Init
    PROVE  Entries = {} /\ Tombs = {} /\ \A t \in Threads : ~Isdml(t)
  <1>1. Types /\ Shaped /\ \A t \in Threads : threads[t] = Idle
    BY InitTypes, InitShaped DEF Init
  <1>2. \A t \in Threads : Len(Queue(t)) = 0
    <2>1. \A t \in Threads : Queue(t) = <<>>
      BY <1>1, IdleFacts, QueueFacts
    <2> QED  BY <2>1, EmptySeq
  <1>3. Records(file) = {}
    <2>1. Len(file) = 0
      BY EmptySeq DEF Init
    <2> QED  BY <2>1 DEF Records
  <1>4. Entries = {}
    <2>1. \A p \in Entries : FALSE
      BY <1>2, <1>3, EntryForm
    <2> QED  BY <2>1
  <1>5. \A t \in Threads : ~Isdml(t)
    BY <1>1, IdleFacts DEF Isdml, Dmls
  <1> QED  BY <1>4, <1>5 DEF Tombs

LEMMA MarkingHolds == Spec => []Marking
  <1>1. Init => Marking
    BY InitEntries DEF Marking, Named, OneTomb, Apart, Seen
  <1>2. LogInv /\ LogInv' /\ Marking /\ [Next]_vars => Marking'
    <2>1. ASSUME LogInv, LogInv', Marking, UNCHANGED vars  PROVE Marking'
      <3>1. file' = file /\ threads' = threads /\ build' = build /\ raced' = raced
        BY <2>1 DEF vars
      <3>2. (\A u \in Threads : Queue(u)' = Queue(u)) /\ \A u \in Threads : Continues(u)
        BY <3>1 DEF Queue, Continues, Isdml, Passed
      <3>3. PICK h : Carries(h, Entries')
        BY <2>1, <3>1, <3>2, StillCarries DEF LogInv
      <3>4. CASE raced
        BY <3>1, <3>4 DEF Marking
      <3>5. CASE ~raced
        BY <2>1, <3>1, <3>2, <3>3, <3>5, MarkingStays DEF LogInv
      <3> QED  BY <3>4, <3>5
    <2>2. ASSUME LogInv, LogInv', Marking, Next  PROVE Marking'
      BY <2>2, MarkingStep DEF LogInv
    <2> QED  BY <2>1, <2>2
  <1> QED  BY <1>1, <1>2, LogInvHolds, PTL DEF Spec

-----------------------------------------------------------------------------
(* Who has a row to give: the one entry that bears it and is not replaced;   *)
(* and what it should give: what the DML that has counted the row makes of   *)
(* it, or else what was answered.                                            *)
Tombed(i) == \E p \in Tombs : Ref(p) = i
Live(p) == InLog(p) /\ Entry(p).op \in RowOps => ~Tombed(p[2])
Bears(p, id, v) == \E k \in DOMAIN Entry(p).rows : Entry(p).rows[k].id = id /\ Entry(p).rows[k].v = v
Bearer(p, id, v) == p \in Entries /\ Live(p) /\ Bears(p, id, v)

Hitter(t, id) == Isdml(t) /\ threads[t].hits[id] # 0
Given(t) == IF threads[t].op = "delete" THEN Absent ELSE threads[t].n
Expect(id, v) ==
    \/ \E t \in Threads : Hitter(t, id) /\ v = Given(t)
    \/ (\A t \in Threads : ~Hitter(t, id)) /\ v = answers[id]

Wants == \A t \in Threads : Isdml(t) =>
            /\ threads[t].want \subseteq 1..nrows
            /\ \A id \in Ids : threads[t].hits[id] # 0 => id \in threads[t].want
OneBearer == \A p, q \in Entries : \A id, v, w : Bearer(p, id, v) /\ Bearer(q, id, w) => p = q
Right == \A p \in Entries : \A id, v : Bearer(p, id, v) => v # Absent /\ Expect(id, v)
Total == \A id \in Ids : Expect(id, Absent) \/ \E p \in Entries : \E v : Bearer(p, id, v)
Answered == OneBearer /\ Right /\ Total
AnsweredOnce == crashes = 0 /\ Sound(file) /\ ~raced => Answered

LEMMA BearsTyped ==
    ASSUME Types, NEW p \in Entries, NEW id, NEW v, Bears(p, id, v)
    PROVE  id \in Ids /\ v \in Values
  <1>1. Entry(p) \in LogRec
    BY EntryTyped
  <1>2. Entry(p).rows \in Seq(Row)
    BY <1>1, RecordFields
  <1>3. \A k \in DOMAIN Entry(p).rows : Entry(p).rows[k] \in Row
    BY <1>2, ElementOfSeq, LenProperties
  <1> QED  BY <1>3 DEF Bears, Row

(* What is carried bears what it bore.                                       *)
LEMMA BearersCarry ==
    ASSUME Types, Named, NEW h, NEW S, Carries(h, S), Onto(h, S),
           \A p \in Entries' : p \in S \/ Entry(p)'.op \notin Tombstones
    PROVE  /\ \A i : Tombed(i)' <=> Tombed(i)
           /\ \A p \in S : \A id, v : Bearer(p, id, v)' <=> Bearer(h[p], id, v)
  <1>1. \A p \in S : /\ h[p] \in Entries /\ p \in Entries' /\ Entry(p)' = Entry(h[p])
                     /\ ~InLog(p) => h[p][1] = p[1]
                     /\ InLog(p) => h[p] = p \/ (p[2] = Len(file) /\ ~InLog(h[p]))
    BY DEF Carries
  <1>2. \A i : Tombed(i)' => Tombed(i)
    <2>1. \A p \in Tombs' : p \in S /\ h[p] \in Tombs /\ Ref(h[p]) = Ref(p)'
      BY <1>1, TombsFacts DEF Ref
    <2> QED  BY <2>1 DEF Tombed
  <1>3. \A i : Tombed(i) => Tombed(i)'
    <2>1. ASSUME NEW q \in Tombs  PROVE \E p \in Tombs' : Ref(p)' = Ref(q)
      <3>1. q \in Entries /\ Entry(q).op \in Tombstones
        BY TombsFacts
      <3>2. PICK p \in S : h[p] = q
        BY <3>1 DEF Onto
      <3> QED  BY <1>1, <3>1, <3>2, TombsFacts DEF Ref
    <2> QED  BY <2>1 DEF Tombed
  <1>4. ~Tombed(Len(file))
    <2>1. \A p \in Tombs : Ref(p) \in RowsIn(file)
      BY DEF Named, NamedBy
    <2>2. \A i \in RowsIn(file) : i + 1 \in 1..Len(file) /\ i \in Nat
      BY RowsInFacts, RecordsFacts
    <2>3. \A i \in RowsIn(file) : i # Len(file)
      BY <2>2, FileFacts
    <2> QED  BY <2>1, <2>3 DEF Tombed
  <1>5. ASSUME NEW p \in S  PROVE Live(p)' <=> Live(h[p])
    <2>1. CASE InLog(p) /\ h[p] = p
      BY <1>1, <1>2, <1>3, <2>1 DEF Live, InLog
    <2>2. CASE InLog(p) /\ h[p] # p
      BY <1>1, <1>2, <1>4, <2>2 DEF Live, InLog
    <2>3. CASE ~InLog(p)
      BY <1>1, <2>3 DEF Live, InLog
    <2> QED  BY <2>1, <2>2, <2>3
  <1>6. \A p \in S : \A id, v : Bears(p, id, v)' <=> Bears(h[p], id, v)
    BY <1>1 DEF Bears
  <1> QED  BY <1>1, <1>2, <1>3, <1>5, <1>6 DEF Bearer

LEMMA AnsweredMoves ==
    ASSUME Types, Named, Answered, NEW h, Carries(h, Entries'), Onto(h, Entries'),
           \A id \in Ids : \A v : Expect(id, v)' <=> Expect(id, v)
    PROVE  Answered'
  <1>1. \A p \in Entries' : \A id, v : Bearer(p, id, v)' <=> Bearer(h[p], id, v)
    BY BearersCarry
  <1>2. \A p \in Entries' : h[p] \in Entries
    BY DEF Carries
  <1>3. OneBearer'
    <2>1. \A p, q \in Entries' : h[p] = h[q] => p = q
      BY DEF Carries
    <2>2. \A p, q \in Entries' : \A id, v, w :
            Bearer(p, id, v)' /\ Bearer(q, id, w)' => h[p] = h[q]
      BY <1>1, <1>2 DEF Answered, OneBearer
    <2> QED  BY <2>1, <2>2 DEF OneBearer
  <1>4. Right'
    <2>1. ASSUME NEW p \in Entries', NEW id, NEW v, Bearer(p, id, v)'
          PROVE  v # Absent /\ Expect(id, v)'
      <3>1. Bearer(h[p], id, v) /\ h[p] \in Entries
        BY <1>1, <1>2, <2>1
      <3>2. id \in Ids /\ v # Absent /\ Expect(id, v)
        BY <3>1, BearsTyped DEF Bearer, Answered, Right
      <3> QED  BY <3>2
    <2> QED  BY <2>1 DEF Right, Absent
  <1>5. Total'
    <2>1. ASSUME NEW id \in Ids
          PROVE  Expect(id, Absent)' \/ \E p \in Entries' : \E v : Bearer(p, id, v)'
      <3>1. CASE Expect(id, Absent)
        BY <3>1
      <3>2. ASSUME NEW q \in Entries, NEW v, Bearer(q, id, v)
            PROVE  \E p \in Entries' : \E w : Bearer(p, id, w)'
        <4>1. PICK p \in Entries' : h[p] = q
          BY DEF Onto
        <4> QED  BY <1>1, <3>2, <4>1
      <3> QED  BY <3>1, <3>2 DEF Answered, Total
    <2> QED  BY <2>1 DEF Total, Absent
  <1> QED  BY <1>3, <1>4, <1>5 DEF Answered

(* The wants of DMLs, whatever happens to the log.                           *)
LEMMA WantsStep ==
    ASSUME Types, Shaped, Wants, Next
    PROVE  Wants'
  <1> DEFINE W(u) == Isdml(u) => /\ threads[u].want \subseteq 1..nrows
                                 /\ \A id \in Ids : threads[u].hits[id] # 0 => id \in threads[u].want
  <1>1. \A u \in Threads : W(u)
    BY DEF Wants
  <1>2. nrows \in Nat
    BY Facts DEF Types
  <1>3. ASSUME NEW t \in Threads, Others(t), nrows' \in Nat, nrows <= nrows', W(t)'
        PROVE  Wants'
    <2>1. \A u \in Threads \ {t} : W(u)'
      <3>1. 1..nrows \subseteq 1..nrows'
        BY <1>2, <1>3
      <3> QED  BY <1>1, <1>3, <3>1 DEF Others, Isdml
    <2> QED  BY <1>3, <2>1 DEF Wants
  <1>3a. ASSUME NEW t \in Threads, ~Isdml(t)'  PROVE W(t)'
    BY <1>3a
  <1> HIDE DEF W
  <1>4. ASSUME NEW t \in Threads, NEW n \in 1..MaxPerIngest, Ingest(t, n)  PROVE Wants'
    <2>1. Others(t) /\ ~Isdml(t)' /\ nrows' = nrows + n /\ n \in Nat
      BY <1>4, IngestDoes DEF Isdml, Dmls
    <2> QED  BY <1>2, <1>3, <1>3a, <2>1
  <1>5. ASSUME NEW t \in Threads, NEW op \in Dmls, NEW want \in SUBSET (1..nrows) \ {{}},
               DmlOpen(t, op, want)
        PROVE  Wants'
    <2>1. /\ Others(t) /\ threads'[t].want = want /\ threads'[t].hits = Idle.hits /\ nrows' = nrows
      BY <1>5, DmlOpenDoes DEF EmptyAfter, DmlOpen
    <2>2. W(t)'
      BY <2>1, IdleFacts DEF W
    <2> QED  BY <1>2, <1>3, <2>1, <2>2
  <1>6. ASSUME NEW t \in Threads, WriteLength(t) \/ WriteData(t)  PROVE Wants'
    <2>1. /\ Others(t) /\ nrows' = nrows
          /\ \/ threads'[t] = [threads[t] EXCEPT !.half = TRUE]
             \/ threads'[t] = [threads[t] EXCEPT !.half = FALSE, !.todo = Tail(@)]
      BY <1>6, WriteLengthDoes, WriteDataDoes DEF WriteLength, WriteData, control
    <2>2. /\ threads'[t].op = threads[t].op /\ threads'[t].want = threads[t].want
          /\ threads'[t].hits = threads[t].hits
      BY <2>1, ThreadFields DEF Thread
    <2>3. W(t)'
      BY <1>1, <2>1, <2>2 DEF Isdml, W
    <2> QED  BY <1>2, <1>3, <2>1, <2>3
  <1>7. ASSUME NEW t \in Threads, IngestDone(t) \/ DmlDone(t) \/ ReadStep(t)  PROVE Wants'
    <2>1. Others(t) /\ ~Isdml(t)'
      BY <1>7, StopDoes, ReadTombstonesDoes, ReadRowsDoes, IdleFacts
         DEF ReadStep, EmptyAfter, Isdml, Dmls
    <2>2. nrows' = nrows
      BY <1>7 DEF IngestDone, DmlDone, ReadStep, ReadTombstones, ReadRows, ReadDone, control
    <2> QED  BY <1>2, <1>3, <1>3a, <2>1, <2>2
  <1>8. ASSUME NEW t \in Threads, DmlRow(t) \/ DmlBatch(t) \/ DmlFlush(t)  PROVE Wants'
    <2>1. /\ Others(t) /\ threads'[t].want = threads[t].want /\ Isdml(t)
          /\ \/ threads'[t].hits = threads[t].hits
             \/ \E ids : threads'[t].hits = Hit(threads[t], ids)
      <3>1. CASE DmlRow(t)
        BY <3>1, DmlRowDoes DEF Tombstoned, Isdml
      <3>2. CASE DmlBatch(t)
        BY <3>2, DmlBatchDoes DEF Replaced, Isdml
      <3>3. CASE DmlFlush(t)
        BY <3>3, DmlFlushDoes DEF Isdml
      <3> QED  BY <1>8, <3>1, <3>2, <3>3
    <2>2. nrows' = nrows
      BY <1>8 DEF DmlRow, DmlBatch, DmlFlush, control
    <2>3. \A id \in Ids : threads'[t].hits[id] # 0 =>
                threads[t].hits[id] # 0 \/ id \in threads[t].want
      <3>1. CASE threads'[t].hits = threads[t].hits
        BY <3>1
      <3>2. ASSUME NEW ids, threads'[t].hits = Hit(threads[t], ids), NEW id \in Ids,
                   id \notin threads[t].want
            PROVE  threads'[t].hits[id] = threads[t].hits[id]
        <4>1. threads[t].hits[id] \in Nat
          BY ThreadFields
        <4>2. Hit(threads[t], ids)[id] = threads[t].hits[id]
                + IF id \in ids \intersect threads[t].want THEN 1 ELSE 0
          BY HitFacts
        <4> QED  BY <3>2, <4>1, <4>2
      <3> QED  BY <2>1, <3>1, <3>2
    <2>4. W(t)'
      BY <1>1, <2>1, <2>2, <2>3 DEF Isdml, W
    <2> QED  BY <1>2, <1>3, <2>1, <2>2, <2>4
  <1>9. ASSUME NEW n \in synced..Len(file), Crash(n)  PROVE Wants'
    BY <1>9, CrashDoes, IdleFacts DEF Wants, Isdml, Dmls
  <1> QED  BY <1>4, <1>5, <1>6, <1>7, <1>8, <1>9, NextCases

(* Two DMLs have not counted one row.                                        *)
LEMMA HittersOne ==
    ASSUME Apart, Wants, NEW t \in Threads, NEW u \in Threads, NEW id \in Ids,
           Hitter(t, id), Hitter(u, id)
    PROVE  t = u
  BY DEF Apart, ApartBy, Wants, Hitter

(* The steps that count no row.                                              *)
SameHits(u) == \A id \in Ids : /\ Hitter(u, id)' <=> Hitter(u, id)
                               /\ Hitter(u, id) => Given(u)' = Given(u)

LEMMA ExpectSame ==
    ASSUME \A u \in Threads : SameHits(u), NEW id \in Ids, answers'[id] = answers[id], NEW v
    PROVE  Expect(id, v)' <=> Expect(id, v)
  BY DEF SameHits, Expect

LEMMA OthersHits ==
    ASSUME NEW t \in Threads, Others(t), NEW u \in Threads, u # t
    PROVE  SameHits(u)
  BY DEF Others, SameHits, Hitter, Given, Isdml

LEMMA HitsStay ==
    ASSUME Types, Shaped, NEW t \in Threads,
           \/ \E n \in 1..MaxPerIngest : Ingest(t, n)
           \/ \E op \in Dmls, want \in SUBSET (1..nrows) \ {{}} : DmlOpen(t, op, want)
           \/ WriteLength(t) \/ WriteData(t) \/ IngestDone(t) \/ DmlFlush(t) \/ ReadStep(t)
    PROVE  \A u \in Threads : SameHits(u)
  <1>1. ASSUME ~Isdml(t), Others(t), ~Isdml(t)' \/ threads'[t].hits = Idle.hits
        PROVE  \A u \in Threads : SameHits(u)
    <2>1. \A id \in Ids : ~Hitter(t, id) /\ ~Hitter(t, id)'
      BY <1>1, IdleFacts DEF Hitter
    <2>2. SameHits(t)
      BY <2>1 DEF SameHits
    <2> QED  BY <1>1, <2>2, OthersHits
  <1>2. ASSUME Others(t), threads'[t].op = threads[t].op, threads'[t].n = threads[t].n,
               threads'[t].hits = threads[t].hits
        PROVE  \A u \in Threads : SameHits(u)
    <2>1. SameHits(t)
      BY <1>2 DEF SameHits, Hitter, Given, Isdml
    <2> QED  BY <1>2, <2>1, OthersHits
  <1>3. CASE \E n \in 1..MaxPerIngest : Ingest(t, n)
    <2>1. Others(t) /\ threads[t] = Idle /\ threads'[t].op = "ingest"
      BY <1>3, IngestDoes
    <2> QED  BY <1>1, <2>1, IdleFacts DEF Isdml, Dmls
  <1>4. CASE \E op \in Dmls, want \in SUBSET (1..nrows) \ {{}} : DmlOpen(t, op, want)
    <2>1. Others(t) /\ threads[t] = Idle /\ threads'[t].hits = Idle.hits
      BY <1>4, DmlOpenDoes DEF EmptyAfter
    <2> QED  BY <1>1, <2>1, IdleFacts DEF Isdml, Dmls
  <1>5. CASE WriteLength(t) \/ WriteData(t)
    <2>1. /\ Others(t)
          /\ \/ threads'[t] = [threads[t] EXCEPT !.half = TRUE]
             \/ threads'[t] = [threads[t] EXCEPT !.half = FALSE, !.todo = Tail(@)]
      BY <1>5, WriteLengthDoes, WriteDataDoes
    <2>2. /\ threads'[t].op = threads[t].op /\ threads'[t].n = threads[t].n
          /\ threads'[t].hits = threads[t].hits
      BY <2>1, ThreadFields DEF Thread
    <2> QED  BY <1>2, <2>1, <2>2
  <1>6. CASE IngestDone(t) \/ ReadStep(t)
    <2>1. Others(t) /\ ~Isdml(t)'
      BY <1>6, StopDoes, ReadTombstonesDoes, ReadRowsDoes, IdleFacts
         DEF ReadStep, EmptyAfter, Isdml, Dmls
    <2>2. ~Isdml(t)
      BY <1>6, ReadTombstonesDoes, IdleFacts
         DEF IngestDone, ReadStep, ReadRows, ReadDone, Isdml, Dmls
    <2> QED  BY <1>1, <2>1, <2>2
  <1>7. CASE DmlFlush(t)
    BY <1>2, <1>7, DmlFlushDoes
  <1> QED  BY <1>3, <1>4, <1>5, <1>6, <1>7

(* The answer of a DML is what it gave.                                      *)
LEMMA DoneExpects ==
    ASSUME Types, Apart, Wants, NEW t \in Threads, DmlDone(t), NEW id \in Ids, NEW v
    PROVE  Expect(id, v)' <=> Expect(id, v)
  <1>1. Others(t) /\ ~Isdml(t)' /\ Isdml(t)
    BY StopDoes, IdleFacts DEF EmptyAfter, Isdml, Dmls, DmlDone, Scanning
  <1>2. answers'[id] = IF threads[t].hits[id] = 0 THEN answers[id] ELSE Given(t)
    BY DEF DmlDone, Given
  <1>3. ~Hitter(t, id)' /\ (Hitter(t, id) <=> threads[t].hits[id] # 0)
    BY <1>1 DEF Hitter
  <1>4. \A u \in Threads : u # t => (Hitter(u, id)' <=> Hitter(u, id)) /\ Given(u)' = Given(u)
    BY <1>1 DEF Others, Hitter, Given, Isdml
  <1>5. CASE Hitter(t, id)
    <2>1. \A u \in Threads : Hitter(u, id) => u = t
      BY <1>5, HittersOne
    <2>2. Expect(id, v)' <=> v = answers'[id]
      BY <1>3, <1>4, <2>1 DEF Expect
    <2>3. Expect(id, v) <=> v = Given(t)
      BY <1>5, <2>1 DEF Expect
    <2> QED  BY <1>2, <1>3, <1>5, <2>2, <2>3
  <1>6. CASE ~Hitter(t, id)
    <2>1. answers'[id] = answers[id]
      BY <1>2, <1>3, <1>6
    <2> QED  BY <1>3, <1>4, <1>6, <2>1 DEF Expect
  <1> QED  BY <1>5, <1>6

-----------------------------------------------------------------------------
(* Rows that are there have been ingested.                                   *)
LEMMA BornIds ==
    ASSUME Types, Known, Named, NEW p \in Entries, NEW id, NEW v, Bears(p, id, v)
    PROVE  id \in 1..nrows
  <1>1. PICK k \in DOMAIN Entry(p).rows : Entry(p).rows[k].id = id
    BY DEF Bears
  <1>2. Entry(p) \in LogRec
    BY EntryTyped
  <1>3. CASE Entry(p).op \in RowOps
    <2>1. HasRow(Entry(p), id)
      BY <1>1, <1>3 DEF HasRow, IdsOf
    <2>2. CASE InLog(p)
      <3>1. p[2] \in Records(file) /\ Entry(p) = Rec(file, p[2])
        BY <2>2, EntryForm
      <3>2. Written(p[2] + 1) /\ Entry(p) = file[p[2] + 1].rec
        BY <3>1, RecordsFacts
      <3>3. WrittenRow(p[2] + 1, id)
        BY <2>1, <3>2 DEF WrittenRow
      <3> QED  BY <3>3 DEF Known
    <2>3. CASE ~InLog(p)
      <3>1. p[1] \in Threads /\ p[2] \in 1..Len(Queue(p[1])) /\ Entry(p) = Queue(p[1])[p[2]]
        BY <2>3, EntryForm
      <3>2. QueuedRow(p[1], p[2], id)
        BY <2>1, <3>1 DEF QueuedRow
      <3> QED  BY <3>1, <3>2 DEF Known
    <2> QED  BY <2>2, <2>3
  <1>4. CASE Entry(p).op \in Tombstones
    <2>1. NamedBy(p)
      BY <1>4, TombsFacts DEF Named
    <2>2. Entry(p).op # "delete"
      <3>1. DOMAIN <<>> = {}
        BY EmptySeq
      <3> QED  BY <1>1, <2>1, <3>1 DEF NamedBy
    <2>3. Entry(p).op = "update"
      BY <1>4, <2>2 DEF Tombstones
    <2>4. /\ Ref(p) \in RowsIn(file) /\ Rec(file, Ref(p)).op = "row"
          /\ Entry(p).rows[1].id = Rec(file, Ref(p)).rows[1].id
      BY <2>1, <2>3 DEF NamedBy
    <2>5. k = 1
      <3>1. Len(Entry(p).rows) = 1 /\ Entry(p).rows \in Seq(Row)
        BY <1>2, <2>3, RecordFields
      <3>2. DOMAIN Entry(p).rows = 1..1
        BY <3>1, LenProperties
      <3> QED  BY <1>1, <3>2
    <2>6. /\ Written(Ref(p) + 1) /\ Rec(file, Ref(p)) = file[Ref(p) + 1].rec
          /\ Rec(file, Ref(p)) \in LogRec
      BY <2>4, RowsInFacts, RecordsFacts
    <2>7. IdsOf(Rec(file, Ref(p)).rows) = {id}
      BY <1>1, <2>4, <2>5, <2>6, RecordFields
    <2>8. WrittenRow(Ref(p) + 1, id)
      BY <2>4, <2>6, <2>7 DEF WrittenRow, HasRow, RowOps
    <2> QED  BY <2>8 DEF Known
  <1> QED  BY <1>2, <1>3, <1>4, RecordFields DEF Ops

(* What an ingestion adds: each of its rows once.                            *)
LEMMA IngestGives ==
    ASSUME Types, NEW t \in Threads, NEW n \in 1..MaxPerIngest, Ingest(t, n)
    PROVE  /\ \A k \in 1..Len(Queue(t)') : \A m \in DOMAIN Queue(t)'[k].rows :
                /\ Queue(t)'[k].rows[m].id \in (nrows + 1)..(nrows + n)
                /\ Queue(t)'[k].rows[m].v = 0
           /\ \A k, j \in 1..Len(Queue(t)') :
                \A m \in DOMAIN Queue(t)'[k].rows, l \in DOMAIN Queue(t)'[j].rows :
                    Queue(t)'[k].rows[m].id = Queue(t)'[j].rows[l].id => k = j
           /\ \A id \in (nrows + 1)..(nrows + n) :
                \E k \in 1..Len(Queue(t)') : \E m \in DOMAIN Queue(t)'[k].rows :
                    Queue(t)'[k].rows[m].id = id
  <1> DEFINE rows == [k \in 1..n |-> [id |-> nrows + k, v |-> 0, text |-> TextOf[nrows + k]]]
  <1>0. n \in Nat /\ n >= 1 /\ nrows \in Nat /\ threads'[t].pending = <<>> /\ NewRows(t, n)
        /\ build \in {"debug", "release"}
    <2>1. nrows \in Nat /\ build \in {"debug", "release"}
      BY Facts DEF Types
    <2>2. n \in Nat /\ n >= 1 /\ threads'[t].pending = <<>> /\ NewRows(t, n)
      BY IngestDoes
    <2> QED  BY <2>1, <2>2
  <1>1. PICK op \in Batches :
            threads'[t].todo = IF build = "release" THEN <<BatchRec(op, rows)>>
                               ELSE [k \in 1..n |-> RowRec(rows[k])]
    BY DEF Ingest, Types, Idle
  <1>2. /\ build = "release" => Queue(t)'[1] = BatchRec(op, rows)
        /\ build = "debug" => \A k \in 1..n : Queue(t)'[k] = RowRec(rows[k])
    <2>1. threads'[t].todo \in Seq(LogRec)
      BY IngestDoes DEF Typed, Thread
    <2>2. Queue(t)' = threads'[t].todo
      BY <1>0, <2>1, ConcatEmptySeq DEF Queue
    <2> QED  BY <1>0, <1>1, <2>2
  <1>3. /\ BatchRec(op, rows).rows = rows /\ DOMAIN rows = 1..n
        /\ \A k : DOMAIN RowRec(rows[k]).rows = {1} /\ RowRec(rows[k]).rows[1] = rows[k]
        /\ \A k \in 1..n : rows[k].id = nrows + k /\ rows[k].v = 0
    BY SeqOne DEF BatchRec, RowRec
  <1> HIDE DEF rows
  <1>4. CASE build = "release"
    <2>1. Len(Queue(t)') = 1 /\ IdsOf(Queue(t)'[1].rows) = (nrows + 1)..(nrows + n)
      BY <1>0, <1>4 DEF NewRows
    <2>2. Queue(t)'[1].rows = rows
      BY <1>2, <1>3, <1>4
    <2>3. \A id \in (nrows + 1)..(nrows + n) : \E m \in 1..n : rows[m].id = id
      BY <1>3, <2>1, <2>2 DEF IdsOf
    <2>4. \A m \in 1..n : rows[m].id \in (nrows + 1)..(nrows + n) /\ rows[m].v = 0
      BY <1>0, <1>3
    <2>5. \A k \in 1..Len(Queue(t)') : k = 1
      BY <2>1
    <2>6. 1 \in 1..Len(Queue(t)')
      BY <2>1
    <2>7. DOMAIN Queue(t)'[1].rows = 1..n
      BY <1>3, <2>2
    <2>8. \A m \in 1..n : /\ Queue(t)'[1].rows[m].id \in (nrows + 1)..(nrows + n)
                          /\ Queue(t)'[1].rows[m].v = 0
      BY <2>2, <2>4
    <2>9. \A id \in (nrows + 1)..(nrows + n) : \E m \in 1..n : Queue(t)'[1].rows[m].id = id
      BY <2>2, <2>3
    <2>10. \A k \in 1..Len(Queue(t)') : \A m \in DOMAIN Queue(t)'[k].rows :
                /\ Queue(t)'[k].rows[m].id \in (nrows + 1)..(nrows + n)
                /\ Queue(t)'[k].rows[m].v = 0
      BY <2>5, <2>7, <2>8
    <2>11. \A k, j \in 1..Len(Queue(t)') : k = j
      BY <2>5
    <2> QED  BY <2>6, <2>7, <2>9, <2>10, <2>11
  <1>5. CASE build = "debug"
    <2>1. Len(Queue(t)') = n /\ \A k \in 1..n : Queue(t)'[k].rows = RowRec(rows[k]).rows
      BY <1>0, <1>2, <1>5 DEF NewRows
    <2>2. \A k \in 1..n : /\ DOMAIN Queue(t)'[k].rows = {1} /\ Queue(t)'[k].rows[1] = rows[k]
                          /\ rows[k].id = nrows + k /\ rows[k].v = 0
      <3> HIDE DEF RowRec
      <3> QED  BY <1>3, <2>1
    <2>3. \A k \in 1..n : nrows + k \in (nrows + 1)..(nrows + n)
      BY <1>0
    <2>4. \A k, j \in 1..n : nrows + k = nrows + j => k = j
      BY <1>0
    <2>5. \A id \in (nrows + 1)..(nrows + n) : id - nrows \in 1..n /\ nrows + (id - nrows) = id
      BY <1>0
    <2>6. \A k \in 1..n : \A m \in DOMAIN Queue(t)'[k].rows :
                m = 1 /\ Queue(t)'[k].rows[m].id = nrows + k /\ Queue(t)'[k].rows[m].v = 0
      BY <2>2
    <2>7. \A id \in (nrows + 1)..(nrows + n) : \E k \in 1..n :
                1 \in DOMAIN Queue(t)'[k].rows /\ Queue(t)'[k].rows[1].id = id
      <3>1. ASSUME NEW id \in (nrows + 1)..(nrows + n)
            PROVE  \E k \in 1..n : 1 \in DOMAIN Queue(t)'[k].rows /\ Queue(t)'[k].rows[1].id = id
        <4>1. PICK k \in 1..n : nrows + k = id
          BY <2>5
        <4> QED  BY <2>2, <4>1
      <3> QED  BY <3>1
    <2>8. \A k \in 1..n : \A m \in DOMAIN Queue(t)'[k].rows :
                Queue(t)'[k].rows[m].id \in (nrows + 1)..(nrows + n) /\ Queue(t)'[k].rows[m].v = 0
      BY <2>3, <2>6
    <2>9. \A k, j \in 1..n :
                \A m \in DOMAIN Queue(t)'[k].rows, l \in DOMAIN Queue(t)'[j].rows :
                    Queue(t)'[k].rows[m].id = Queue(t)'[j].rows[l].id => k = j
      <3>1. ASSUME NEW k \in 1..n, NEW j \in 1..n, NEW m \in DOMAIN Queue(t)'[k].rows,
                   NEW l \in DOMAIN Queue(t)'[j].rows,
                   Queue(t)'[k].rows[m].id = Queue(t)'[j].rows[l].id
            PROVE  k = j
        <4>1. nrows + k = nrows + j
          BY <2>6, <3>1
        <4> QED  BY <2>4, <4>1
      <3> QED  BY <3>1
    <2> QED  BY <2>1, <2>7, <2>8, <2>9
  <1> QED  BY <1>0, <1>4, <1>5

LEMMA AnsweredIngests ==
    ASSUME Types, Shaped, Shaped', Known, Named, Wants, Answered, NEW t \in Threads,
           NEW n \in 1..MaxPerIngest, Ingest(t, n)
    PROVE  Answered'
  <1> DEFINE New == (nrows + 1)..(nrows + n)
  <1>1. PICK S, h : IngestAdds(t, S, h)
    BY IngestCarries
  <1>2. /\ Carries(h, S) /\ Onto(h, S) /\ S \subseteq Entries'
        /\ \A p \in S : h[p] \in Entries
        /\ \A p, q \in S : h[p] = h[q] => p = q
    BY <1>1 DEF IngestAdds, Adds, Carries
  <1>3. \A p \in Entries' : p \notin S => /\ ~InLog(p) /\ p = <<t, p[2]>>
                /\ p[2] \in 1..Len(Queue(t)') /\ Entry(p)' = Queue(t)'[p[2]]
    BY <1>1 DEF IngestAdds, Adds
  <1>4. \A p \in Entries' : p \in S \/ Entry(p)'.op \notin Tombstones
    <2>1. threads'[t].op = "ingest" /\ Shape(t)'
      BY IngestDoes DEF Shaped
    <2> QED  BY <1>3, <2>1 DEF Shape, RowOps, Batches, Tombstones
  <1>5. \A p \in S : \A id, v : Bearer(p, id, v)' <=> Bearer(h[p], id, v)
    BY <1>2, <1>4, BearersCarry
  <1>6. \A p \in S : \A id, v : Bearer(p, id, v)' => id \in 1..nrows
    BY <1>2, <1>5, BornIds DEF Bearer
  <1>7. /\ \A p \in Entries' : \A id, v : p \notin S /\ Bearer(p, id, v)' => id \in New /\ v = 0
        /\ \A p, q \in Entries' : \A id, v, w :
                p \notin S /\ q \notin S /\ Bearer(p, id, v)' /\ Bearer(q, id, w)' => p = q
    <2>1. ASSUME NEW p \in Entries', NEW id, NEW v, p \notin S, Bearer(p, id, v)'
          PROVE  /\ p = <<t, p[2]>> /\ p[2] \in 1..Len(Queue(t)')
                 /\ \E m \in DOMAIN Queue(t)'[p[2]].rows :
                        Queue(t)'[p[2]].rows[m].id = id /\ Queue(t)'[p[2]].rows[m].v = v
      BY <1>3, <2>1 DEF Bearer, Bears
    <2>2. ASSUME NEW p \in Entries', NEW id, NEW v, p \notin S, Bearer(p, id, v)'
          PROVE  id \in New /\ v = 0
      BY <2>1, <2>2, IngestGives
    <2>3. ASSUME NEW p \in Entries', NEW q \in Entries', NEW id, NEW v, NEW w,
                 p \notin S, q \notin S, Bearer(p, id, v)', Bearer(q, id, w)'
          PROVE  p = q
      <3>1. p[2] = q[2]
        BY <2>1, <2>3, IngestGives
      <3> QED  BY <2>1, <2>3, <3>1
    <2> QED  BY <2>2, <2>3
  <1>8. \A id \in New : \E p \in Entries' : p \notin S /\ Bearer(p, id, 0)'
    <2>1. ASSUME NEW id \in New  PROVE \E p \in Entries' : p \notin S /\ Bearer(p, id, 0)'
      <3>1. PICK k \in 1..Len(Queue(t)') : \E m \in DOMAIN Queue(t)'[k].rows :
                    Queue(t)'[k].rows[m].id = id /\ Queue(t)'[k].rows[m].v = 0
        BY IngestGives
      <3>2. PICK p : p = <<t, k>>
        OBVIOUS
      <3>3. p \in Entries' /\ ~InLog(p) /\ Entry(p)' = Queue(t)'[k] /\ p[1] = t
        BY <3>2, EntryFormNext
      <3>4. p \notin S
        BY <1>1, <3>3 DEF IngestAdds
      <3> QED  BY <3>1, <3>3, <3>4 DEF Bearer, Bears, Live
    <2> QED  BY <2>1
  <1>9. nrows \in Nat /\ \A id \in New : id \notin 1..nrows
    BY Facts, IngestDoes DEF Types
  <1>9a. \A id \in New : id \in Ids
    <2>1. n \in Nat /\ nrows + n <= MaxRows /\ MaxRows \in Nat
      BY Facts, IngestDoes
    <2> QED  BY <1>9, <2>1 DEF Ids
  <1>10. \A id \in Ids : answers'[id] = IF id \in New THEN 0 ELSE answers[id]
    <2>1. threads'[t].want = New
      BY IngestDoes
    <2>2. \A id \in Ids : answers'[id] = IF id \in threads'[t].want THEN 0 ELSE answers[id]
      BY DEF Ingest, Idle, Types
    <2> QED  BY <2>1, <2>2
  <1>11. \A u \in Threads : SameHits(u)
    BY HitsStay
  <1>12. \A id \in Ids : \A v : id \notin New => (Expect(id, v)' <=> Expect(id, v))
    BY <1>10, <1>11, ExpectSame
  <1>13. \A id \in Ids : id \in New => Expect(id, 0)'
    <2>1. ASSUME NEW id \in Ids, id \in New  PROVE Expect(id, 0)'
      <3>1. \A u \in Threads : ~Hitter(u, id)
        BY <1>9, <2>1 DEF Wants, Hitter
      <3>2. \A u \in Threads : ~Hitter(u, id)'
        BY <1>11, <3>1 DEF SameHits
      <3> QED  BY <1>10, <2>1, <3>2 DEF Expect
    <2> QED  BY <2>1
  <1> HIDE DEF New
  <1>14. OneBearer'
    <2>1. ASSUME NEW p \in Entries', NEW q \in Entries', NEW id, NEW v, NEW w,
                 Bearer(p, id, v)', Bearer(q, id, w)'
          PROVE  p = q
      <3>1. CASE p \in S /\ q \in S
        <4>1. h[p] = h[q]
          BY <1>2, <1>5, <2>1, <3>1 DEF Answered, OneBearer
        <4> QED  BY <1>2, <3>1, <4>1
      <3>2. CASE ~(p \in S /\ q \in S)
        BY <1>6, <1>7, <1>9, <2>1, <3>2
      <3> QED  BY <3>1, <3>2
    <2> QED  BY <2>1 DEF OneBearer
  <1>15. Right'
    <2>1. ASSUME NEW p \in Entries', NEW id, NEW v, Bearer(p, id, v)'
          PROVE  v # Absent /\ Expect(id, v)'
      <3>1. CASE p \in S
        <4>1. Bearer(h[p], id, v) /\ h[p] \in Entries /\ id \in 1..nrows
          BY <1>2, <1>5, <1>6, <2>1, <3>1
        <4>2. id \in Ids /\ v # Absent /\ Expect(id, v)
          BY <4>1, BearsTyped DEF Bearer, Answered, Right
        <4> QED  BY <1>9, <1>12, <4>1, <4>2
      <3>2. CASE p \notin S
        <4>1. id \in New /\ v = 0
          BY <1>7, <2>1, <3>2
        <4>2. id \in Ids
          BY <1>9a, <4>1
        <4> QED  BY <1>13, <4>1, <4>2 DEF Absent
      <3> QED  BY <3>1, <3>2
    <2> QED  BY <2>1 DEF Right, Absent
  <1>16. Total'
    <2>1. ASSUME NEW id \in Ids
          PROVE  Expect(id, Absent)' \/ \E p \in Entries' : \E v : Bearer(p, id, v)'
      <3>1. CASE id \in New
        BY <1>8, <3>1
      <3>2. CASE id \notin New /\ Expect(id, Absent)
        BY <1>12, <3>2
      <3>3. ASSUME NEW q \in Entries, NEW v, Bearer(q, id, v)
            PROVE  \E p \in Entries' : \E w : Bearer(p, id, w)'
        <4>1. PICK p \in S : h[p] = q
          BY <1>2 DEF Onto
        <4> QED  BY <1>2, <1>5, <3>3, <4>1
      <3> QED  BY <3>1, <3>2, <3>3 DEF Answered, Total
    <2> QED  BY <2>1 DEF Total, Absent
  <1> QED  BY <1>14, <1>15, <1>16 DEF Answered

(* What is made of the rows of the record a DML acts on.                     *)
LEMMA LeftFacts ==
    ASSUME Types, NEW t \in Threads, NEW i \in FirstMatch(threads[t]),
           NEW x \in DOMAIN Rec(file, i).rows
    PROVE  /\ Rec(file, i).rows[x].id \in Ids
           /\ x \in Left(t, i) => Made(t, i, x).id = Rec(file, i).rows[x].id
           /\ Rec(file, i).rows[x].id \notin threads[t].want =>
                x \in Left(t, i) /\ Made(t, i, x).v = Rec(file, i).rows[x].v
           /\ Rec(file, i).rows[x].id \in threads[t].want =>
                /\ x \in Left(t, i) <=> threads[t].op # "delete"
                /\ x \in Left(t, i) => Made(t, i, x).v = threads[t].n
  <1> DEFINE r == Rec(file, i).rows[x]
             c == threads[t]
  <1>1. r \in Row /\ c \in Thread
    <2>1. Rec(file, i).rows \in Seq(Row)
      BY FirstMatchFacts, RecordFields
    <2> QED  BY <2>1, ThreadFields, ElementOfSeq, LenProperties
  <1>2. x \in Left(t, i) <=> Len(Remade(c, r)) = 1
    BY DEF Left
  <1>3. Made(t, i, x) = Remade(c, r)[1]
    BY DEF Made
  <1>4. r.id \in Ids /\ Printed(r).id = r.id /\ Printed(r).v = r.v /\ Printed(r) \in Row
    BY <1>1, PrintedFacts DEF Row
  <1> HIDE DEF r, c
  <1>5. CASE r.id \notin c.want
    <2>1. Remade(c, r) = <<Printed(r)>>
      BY <1>5 DEF Remade
    <2>2. Len(<<Printed(r)>>) = 1 /\ <<Printed(r)>>[1] = Printed(r)
      BY SeqOne
    <2> QED  BY <1>2, <1>3, <1>4, <1>5, <2>1, <2>2 DEF r, c
  <1>6. CASE r.id \in c.want /\ c.op = "delete"
    <2>1. Remade(c, r) = <<>> /\ Len(<<>>) = 0
      BY <1>6, EmptySeq DEF Remade
    <2> QED  BY <1>2, <1>3, <1>4, <1>6, <2>1 DEF r, c
  <1>7. CASE r.id \in c.want /\ c.op # "delete"
    <2>1. PICK s : s = [Printed(r) EXCEPT !.v = c.n]
      OBVIOUS
    <2>2. Remade(c, r) = <<s>>
      BY <1>7, <2>1 DEF Remade
    <2>3. Len(<<s>>) = 1 /\ <<s>>[1] = s
      BY SeqOne
    <2>4. s.id = r.id /\ s.v = c.n
      BY <1>4, <2>1 DEF Row
    <2> QED  BY <1>2, <1>3, <1>4, <1>7, <2>2, <2>3, <2>4 DEF r, c
  <1> QED  BY <1>5, <1>6, <1>7

LEMMA AnsweredRemakes ==
    ASSUME Types, Types', Named, Seen, Answered, NEW t \in Threads, Isdml(t),
           NEW i \in FirstMatch(threads[t]), file' = file, Others(t),
           threads'[t].op = threads[t].op, threads'[t].n = threads[t].n,
           threads'[t].hits = Hit(threads[t], IdsOf(Rec(file, i).rows)), answers' = answers,
           NEW S, NEW h, NEW z, Remakes(t, i, S, h, z)
    PROVE  Answered'
  <1> DEFINE R == Rec(file, i).rows
             W == threads[t].want
             b == <<NoThread, i>>
  <1>1. /\ i \in RowsIn(file) /\ i \in Records(file) /\ i \in Nat /\ i >= threads[t].pos
        /\ i \notin threads[t].dead /\ WantsOf(t, i) # {} /\ Rec(file, i).op \in RowOps
    BY FirstMatchFacts, RowsInFacts DEF WantsOf
  <1>2. ~Tombed(i)
    <2>1. ~Knows(t, i)
      BY <1>1, ThreadFields DEF Knows, Passed
    <2> QED  BY <2>1 DEF Seen, SeenBy, Tombed
  <1>3. b \in Entries /\ InLog(b) /\ Entry(b) = Rec(file, i) /\ b[2] = i
    BY <1>1, EntryForm
  <1> HIDE DEF b
  <1>4. \A x \in DOMAIN R : Bearer(b, R[x].id, R[x].v)
    BY <1>2, <1>3 DEF Bearer, Live, Bears
  <1>5. /\ Carries(h, S) /\ Onto(h, S) /\ NewTomb(t, i, z) /\ z \notin S
        /\ \A p \in S : h[p] \in Entries /\ p \in Entries' /\ Entry(p)' = Entry(h[p])
        /\ \A p \in S : InLog(p) => h[p] = p
        /\ \A p \in S : ~InLog(p) => ~InLog(h[p])
        /\ \A p \in Entries' : p \notin S => ~InLog(p)
        /\ \A p, q \in S : h[p] = h[q] => p = q
    BY DEF Remakes, Adds, Carries, InLog
  <1>6. \A j : Tombed(j)' <=> Tombed(j) \/ j = i
    <2>1. \A p \in Tombs' : p = z \/ (p \in S /\ h[p] \in Tombs /\ Ref(h[p]) = Ref(p)')
      <3>1. \A p \in Tombs' : p = z \/ p \in S
        BY TombsFacts DEF Remakes, RowOps, Batches, Tombstones
      <3> QED  BY <1>5, <3>1, TombsFacts DEF Ref
    <2>2. z \in Tombs' /\ Ref(z)' = i
      BY <1>5 DEF NewTomb
    <2>3. ASSUME NEW q \in Tombs  PROVE \E p \in Tombs' : Ref(p)' = Ref(q)
      <3>1. q \in Entries /\ Entry(q).op \in Tombstones
        BY TombsFacts
      <3>2. PICK p \in S : h[p] = q
        BY <1>5, <3>1 DEF Onto
      <3> QED  BY <1>5, <3>1, <3>2, TombsFacts DEF Ref
    <2> QED  BY <2>1, <2>2, <2>3 DEF Tombed
  <1>7. ASSUME NEW p \in S, NEW id, NEW v
        PROVE  Bearer(p, id, v)' <=> Bearer(h[p], id, v) /\ h[p] # b
    <2>1. Bears(p, id, v)' <=> Bears(h[p], id, v)
      BY <1>5 DEF Bears
    <2>2. CASE ~InLog(p)
      <3>1. h[p] # b /\ ~InLog(h[p])
        BY <1>3, <1>5, <2>2
      <3> QED  BY <1>5, <2>1, <2>2, <3>1 DEF Bearer, Live
    <2>3. CASE InLog(p)
      <3>1. h[p] = p /\ p = <<NoThread, p[2]>>
        BY <1>5, <2>3, EntryFormNext
      <3>2. CASE p[2] = i
        <4>1. h[p] = b /\ Entry(p)'.op \in RowOps /\ Tombed(p[2])'
          BY <1>1, <1>3, <1>5, <1>6, <3>1, <3>2 DEF b
        <4> QED  BY <2>3, <4>1 DEF Bearer, Live
      <3>3. CASE p[2] # i
        <4>1. h[p] # b /\ (Tombed(p[2])' <=> Tombed(p[2]))
          BY <1>3, <1>6, <3>1, <3>3
        <4> QED  BY <1>5, <2>1, <2>3, <3>1, <4>1 DEF Bearer, Live
      <3> QED  BY <3>2, <3>3
    <2> QED  BY <2>2, <2>3
  <1>8. \A p \in S : \A id, v : Bearer(p, id, v)' => \A x \in DOMAIN R : R[x].id # id
    <2>1. ASSUME NEW p \in S, NEW id, NEW v, Bearer(p, id, v)', NEW x \in DOMAIN R, R[x].id = id
          PROVE  FALSE
      <3>1. Bearer(h[p], id, v) /\ h[p] # b /\ h[p] \in Entries /\ Bearer(b, id, R[x].v)
        BY <1>4, <1>5, <1>7, <2>1
      <3> QED  BY <1>3, <3>1 DEF Answered, OneBearer
    <2> QED  BY <2>1
  <1>9. ASSUME NEW p \in Entries', NEW id, NEW v, p \notin S, Bearer(p, id, v)'
        PROVE  \E x \in Left(t, i) : Made(t, i, x).id = id /\ Made(t, i, x).v = v
    BY <1>9 DEF Bearer, Bears, Remakes
  <1>10. ASSUME NEW p \in Entries', NEW q \in Entries', NEW id, NEW v, NEW w,
                p \notin S, q \notin S, Bearer(p, id, v)', Bearer(q, id, w)'
         PROVE  p = q
    <2>1. /\ \E k \in DOMAIN Entry(p)'.rows : Entry(p)'.rows[k].id = id
          /\ \E k \in DOMAIN Entry(q)'.rows : Entry(q)'.rows[k].id = id
      BY <1>10 DEF Bearer, Bears
    <2> QED  BY <1>10, <2>1 DEF Remakes
  <1>11. ASSUME NEW x \in Left(t, i), NEW id, NEW v, id = Made(t, i, x).id, v = Made(t, i, x).v
         PROVE  \E p \in Entries' : Bearer(p, id, v)'
    <2>1. PICK p \in Entries' : p \notin S /\ \E k \in DOMAIN Entry(p)'.rows :
                    Entry(p)'.rows[k] = Made(t, i, x)
      BY DEF Remakes
    <2> QED  BY <1>5, <1>11, <2>1 DEF Bearer, Bears, Live
  <1>12. /\ \A x \in Left(t, i) : x \in DOMAIN R
         /\ \A x \in DOMAIN R : R[x].id \in Ids
         /\ \A x \in Left(t, i) : Made(t, i, x).id = R[x].id
         /\ \A x \in DOMAIN R : R[x].id \notin W =>
                x \in Left(t, i) /\ Made(t, i, x).v = R[x].v
         /\ \A x \in DOMAIN R : R[x].id \in W =>
                /\ x \in Left(t, i) <=> threads[t].op # "delete"
                /\ x \in Left(t, i) => Made(t, i, x).v = threads[t].n
    <2>1. \A x \in Left(t, i) : x \in DOMAIN R
      BY DEF Left
    <2> QED  BY <2>1, LeftFacts
  <1> DEFINE Hits(id) == id \in W /\ \E x \in DOMAIN R : R[x].id = id
  <1>13. \A id \in Ids : threads'[t].hits[id] = threads[t].hits[id] + IF Hits(id) THEN 1 ELSE 0
    <2>1. \A id : Hits(id) <=> id \in IdsOf(R) \intersect W
      BY DEF IdsOf
    <2> HIDE DEF Hits, R, W
    <2>2. \A id \in Ids : Hit(threads[t], IdsOf(R))[id] =
                threads[t].hits[id] + IF id \in IdsOf(R) \intersect threads[t].want THEN 1 ELSE 0
      BY HitFacts
    <2> QED  BY <2>1, <2>2 DEF R, W
  <1> HIDE DEF Hits, R, W
  <1>14. /\ Isdml(t)' /\ Given(t)' = Given(t)
         /\ \A id \in Ids : Hits(id) => Hitter(t, id)'
         /\ \A id \in Ids : ~Hits(id) => (Hitter(t, id)' <=> Hitter(t, id))
    <2>1. Isdml(t)' /\ Given(t)' = Given(t)
      BY DEF Isdml, Given
    <2>2. \A id \in Ids : threads[t].hits[id] \in Nat
      BY ThreadFields
    <2>3. \A id \in Ids : Hits(id) => threads'[t].hits[id] # 0
      BY <1>13, <2>2
    <2>4. \A id \in Ids : ~Hits(id) => threads'[t].hits[id] = threads[t].hits[id]
      BY <1>13, <2>2
    <2> QED  BY <2>1, <2>3, <2>4 DEF Hitter
  <1>15. \A id \in Ids : Hits(id) => \A v : v = Given(t) => Expect(id, v)'
    BY <1>14 DEF Expect
  <1>16. ASSUME NEW id \in Ids, ~Hits(id), NEW v  PROVE Expect(id, v)' <=> Expect(id, v)
    <2>1. \A u \in Threads : u # t => (Hitter(u, id)' <=> Hitter(u, id)) /\ Given(u)' = Given(u)
      BY DEF Others, Hitter, Given, Isdml
    <2>2. (Hitter(t, id)' <=> Hitter(t, id)) /\ Given(t)' = Given(t)
      BY <1>14, <1>16
    <2> QED  BY <2>1, <2>2 DEF Expect
  <1>17. OneBearer'
    <2>1. ASSUME NEW p \in Entries', NEW q \in Entries', NEW id, NEW v, NEW w,
                 Bearer(p, id, v)', Bearer(q, id, w)'
          PROVE  p = q
      <3>1. CASE p \in S /\ q \in S
        <4>1. Bearer(h[p], id, v) /\ Bearer(h[q], id, w) /\ h[p] \in Entries /\ h[q] \in Entries
          BY <1>5, <1>7, <2>1, <3>1
        <4>2. h[p] = h[q]
          BY <4>1 DEF Answered, OneBearer
        <4> QED  BY <1>5, <3>1, <4>2
      <3>2. CASE p \notin S /\ q \notin S
        BY <1>10, <2>1, <3>2
      <3>3. CASE (p \in S /\ q \notin S) \/ (p \notin S /\ q \in S)
        BY <1>8, <1>9, <1>12, <2>1, <3>3
      <3> QED  BY <3>1, <3>2, <3>3
    <2> QED  BY <2>1 DEF OneBearer
  <1>18. Right'
    <2>1. ASSUME NEW p \in Entries', NEW id, NEW v, Bearer(p, id, v)'
          PROVE  v # Absent /\ Expect(id, v)'
      <3>1. CASE p \in S
        <4>1. Bearer(h[p], id, v) /\ h[p] \in Entries
          BY <1>5, <1>7, <2>1, <3>1
        <4>2. id \in Ids /\ v # Absent /\ Expect(id, v)
          BY <4>1, BearsTyped DEF Bearer, Answered, Right
        <4>3. ~Hits(id)
          BY <1>8, <2>1, <3>1 DEF Hits
        <4> QED  BY <1>16, <4>2, <4>3
      <3>2. CASE p \notin S
        <4>1. PICK x \in Left(t, i) : Made(t, i, x).id = id /\ Made(t, i, x).v = v
          BY <1>9, <2>1, <3>2
        <4>2. x \in DOMAIN R /\ R[x].id = id /\ id \in Ids
          BY <1>12, <4>1
        <4>3. CASE id \in W
          <5>1. v = threads[t].n /\ threads[t].op # "delete" /\ Hits(id)
            BY <1>12, <4>1, <4>2, <4>3 DEF Hits
          <5>2. v = Given(t) /\ v # Absent
            BY <5>1, ThreadFields, Facts DEF Given, Absent
          <5> QED  BY <1>15, <4>2, <5>1, <5>2
        <4>4. CASE id \notin W
          <5>1. v = R[x].v /\ ~Hits(id)
            BY <1>12, <4>1, <4>2, <4>4 DEF Hits
          <5>2. Bearer(b, id, v)
            BY <1>4, <4>2, <5>1
          <5>3. v # Absent /\ Expect(id, v)
            BY <1>3, <5>2 DEF Answered, Right
          <5> QED  BY <1>16, <4>2, <5>1, <5>3
        <4> QED  BY <4>3, <4>4
      <3> QED  BY <3>1, <3>2
    <2> QED  BY <2>1 DEF Right, Absent
  <1>19. Total'
    <2>1. ASSUME NEW id \in Ids
          PROVE  Expect(id, Absent)' \/ \E p \in Entries' : \E v : Bearer(p, id, v)'
      <3>1. ASSUME NEW x \in DOMAIN R, R[x].id = id, x \in Left(t, i)
            PROVE  \E p \in Entries' : \E v : Bearer(p, id, v)'
        BY <1>11, <1>12, <3>1
      <3>2. ASSUME NEW x \in DOMAIN R, R[x].id = id, x \notin Left(t, i)
            PROVE  Expect(id, Absent)'
        <4>1. id \in W /\ threads[t].op = "delete" /\ Hits(id)
          BY <1>12, <3>2 DEF Hits
        <4> QED  BY <1>15, <4>1 DEF Given, Absent
      <3>3. CASE ~\E x \in DOMAIN R : R[x].id = id
        <4>0. ~Hits(id)
          BY <3>3 DEF Hits
        <4>1. CASE Expect(id, Absent)
          BY <1>16, <4>0, <4>1 DEF Absent
        <4>2. ASSUME NEW q \in Entries, NEW v, Bearer(q, id, v)
              PROVE  \E p \in Entries' : \E w : Bearer(p, id, w)'
          <5>1. PICK p \in S : h[p] = q
            BY <1>5 DEF Onto
          <5>2. q # b
            BY <1>3, <3>3, <4>2 DEF Bearer, Bears, R
          <5> QED  BY <1>5, <1>7, <4>2, <5>1, <5>2
        <4> QED  BY <4>1, <4>2 DEF Answered, Total
      <3> QED  BY <3>1, <3>2, <3>3
    <2> QED  BY <2>1 DEF Total, Absent
  <1> QED  BY <1>17, <1>18, <1>19 DEF Answered

LEMMA SoundBefore ==
    ASSUME Types, file' = file \/ \E x : Grown(x), Sound(file')
    PROVE  Sound(file)
  <1>1. CASE file' = file
    BY <1>1 DEF Sound
  <1>2. ASSUME NEW x, Grown(x)  PROVE Sound(file)
    BY <1>2, FileFacts DEF Sound, Grown
  <1> QED  BY <1>1, <1>2

LEMMA AnsweredStep ==
    ASSUME LogInv, Marking, Wants, AnsweredOnce, Next, Types', Shaped'
    PROVE  AnsweredOnce'
  <1> SUFFICES ASSUME crashes' = 0, Sound(file'), ~raced'  PROVE Answered'
    BY DEF AnsweredOnce
  <1>0. Types /\ Shaped /\ Known /\ ~raced /\ Named /\ OneTomb /\ Apart /\ Seen
    BY RacedStays DEF LogInv, Marking
  <1>1. ~Crashes /\ crashes = 0
    <2>1. ASSUME NEW n \in synced..Len(file), Crash(n)  PROVE FALSE
      BY <1>0, <2>1 DEF Crash, Types
    <2>2. crashes' = crashes
      BY <2>1, NextCases DEF Ingest, DmlOpen, IngestDone, DmlRow, DmlBatch, DmlFlush,
                 DmlDone, WriteLength, WriteData, ReadStep, ReadTombstones, ReadRows,
                 ReadDone, control
    <2> QED  BY <2>1, <2>2 DEF Crashes
  <1>2. Answered
    <2>1. file' = file \/ \E x : Grown(x)
      BY <1>0, <1>1, FileSteps, WriteDataDoes
    <2>2. Sound(file)
      BY <1>0, <2>1, SoundBefore
    <2> QED  BY <1>0, <1>1, <2>2 DEF AnsweredOnce
  <1>3. ASSUME NEW t \in Threads, NEW n \in 1..MaxPerIngest, Ingest(t, n)  PROVE Answered'
    BY <1>0, <1>2, <1>3, AnsweredIngests
  <1>4. ASSUME NEW t \in Threads,
               \/ \E op \in Dmls, want \in SUBSET (1..nrows) \ {{}} : DmlOpen(t, op, want)
               \/ WriteLength(t) \/ DmlFlush(t) \/ IngestDone(t) \/ DmlDone(t) \/ ReadStep(t)
        PROVE  Answered'
    <2>1. /\ \A u \in Threads : Queue(u)' = Queue(u)
          /\ file' = file \/ Grown(Length)
          /\ ~DmlDone(t) => answers' = answers
      BY <1>0, <1>4, QueuesStay
    <2>2. PICK h : Carries(h, Entries') /\ Onto(h, Entries')
      BY <1>0, <2>1, StillCarries
    <2>3. \A id \in Ids : \A v : Expect(id, v)' <=> Expect(id, v)
      <3>1. CASE DmlDone(t)
        BY <1>0, <3>1, DoneExpects
      <3>2. CASE ~DmlDone(t)
        <4>1. \A u \in Threads : SameHits(u)
          BY <1>0, <1>4, <3>2, HitsStay
        <4> QED  BY <2>1, <3>2, <4>1, ExpectSame
      <3> QED  BY <3>1, <3>2
    <2> QED  BY <1>0, <1>2, <2>2, <2>3, AnsweredMoves
  <1>5. ASSUME NEW t \in Threads, WriteData(t)  PROVE Answered'
    <2>1. PICK h : Carries(h, Entries') /\ Onto(h, Entries')
      BY <1>0, <1>5, WriteCarries
    <2>2. \A u \in Threads : SameHits(u)
      BY <1>0, <1>5, HitsStay
    <2>3. answers' = answers
      BY <1>5 DEF WriteData, history
    <2>4. \A id \in Ids : \A v : Expect(id, v)' <=> Expect(id, v)
      BY <2>2, <2>3, ExpectSame
    <2> QED  BY <1>0, <1>2, <2>1, <2>4, AnsweredMoves
  <1>6. ASSUME NEW t \in Threads, DmlRow(t)  PROVE Answered'
    <2>1. PICK i \in FirstMatch(threads[t]), tomb \in LogRec : Tombstoned(t, i, tomb)
      BY <1>0, <1>6, DmlRowDoes
    <2>2. file' = file /\ answers' = answers
      BY <1>6 DEF DmlRow
    <2>3. PICK S, h, z : Remakes(t, i, S, h, z)
      BY <1>0, <2>1, <2>2, RowRemakes
    <2>4. Isdml(t)
      BY <2>1 DEF Tombstoned, Isdml
    <2>5. threads'[t].hits = Hit(threads[t], IdsOf(Rec(file, i).rows))
      <3>1. Rec(file, i) \in LogRec /\ Rec(file, i).op = "row"
        BY <1>0, <2>1, FirstMatchFacts DEF Tombstoned
      <3>2. IdsOf(Rec(file, i).rows) = {Rec(file, i).rows[1].id}
        BY <3>1, RecordFields
      <3> QED  BY <2>1, <3>2 DEF Tombstoned
    <2>6. Others(t) /\ threads'[t].op = threads[t].op /\ threads'[t].n = threads[t].n
      BY <2>1 DEF Tombstoned
    <2> QED  BY <1>0, <1>2, <2>2, <2>3, <2>4, <2>5, <2>6, AnsweredRemakes
  <1>7. ASSUME NEW t \in Threads, DmlBatch(t)  PROVE Answered'
    <2>1. PICK i \in FirstMatch(threads[t]) : Replaced(t, i)
      BY <1>0, <1>7, DmlBatchDoes
    <2>2. file' = file /\ answers' = answers
      BY <1>7 DEF DmlBatch
    <2>3. PICK S, h, z : Remakes(t, i, S, h, z)
      BY <1>0, <2>1, <2>2, BatchRemakes
    <2>4. /\ Isdml(t) /\ Others(t) /\ threads'[t].op = threads[t].op
          /\ threads'[t].n = threads[t].n
          /\ threads'[t].hits = Hit(threads[t], IdsOf(Rec(file, i).rows))
      BY <2>1 DEF Replaced, Isdml
    <2> QED  BY <1>0, <1>2, <2>2, <2>3, <2>4, AnsweredRemakes
  <1> QED  BY <1>1, <1>3, <1>4, <1>5, <1>6, <1>7, NextCases DEF Crashes


LEMMA AnsweredHolds == Spec => [](Wants /\ AnsweredOnce)
  <1>1. Init => Wants /\ AnsweredOnce
    <2> SUFFICES ASSUME Init  PROVE Wants /\ AnsweredOnce
      OBVIOUS
    <2>1. Entries = {} /\ \A t \in Threads : ~Isdml(t)
      BY InitEntries
    <2>2. \A id \in Ids : Expect(id, Absent)
      BY <2>1 DEF Init, Expect, Hitter
    <2> QED  BY <2>1, <2>2 DEF Wants, AnsweredOnce, Answered, OneBearer, Right, Total
  <1>2. ASSUME LogInv, LogInv', Marking, Wants, AnsweredOnce, [Next]_vars
        PROVE  (Wants /\ AnsweredOnce)'
    <2>1. CASE UNCHANGED vars
      <3>1. /\ file' = file /\ threads' = threads /\ nrows' = nrows /\ crashes' = crashes
            /\ raced' = raced /\ answers' = answers
        BY <2>1 DEF vars, control, history
      <3>2. Wants'
        BY <1>2, <3>1 DEF Wants, Isdml
      <3>3. ASSUME AnsweredOnce, ~raced, crashes = 0, Sound(file)  PROVE Answered'
        <4>1. Named /\ Answered
          BY <1>2, <3>3 DEF Marking, AnsweredOnce
        <4>2. \A u \in Threads : Queue(u)' = Queue(u)
          BY <3>1 DEF Queue
        <4>3. PICK h : Carries(h, Entries') /\ Onto(h, Entries')
          BY <1>2, <3>1, <4>2, StillCarries DEF LogInv
        <4>4. \A id \in Ids : \A v : Expect(id, v)' <=> Expect(id, v)
          BY <3>1 DEF Expect, Hitter, Given, Isdml
        <4> QED  BY <1>2, <4>1, <4>3, <4>4, AnsweredMoves DEF LogInv
      <3> QED  BY <1>2, <3>1, <3>2, <3>3 DEF AnsweredOnce
    <2>2. CASE Next
      BY <1>2, <2>2, AnsweredStep, WantsStep DEF LogInv
    <2> QED  BY <1>2, <2>1, <2>2
  <1> QED  BY <1>1, <1>2, LogInvHolds, MarkingHolds, PTL DEF Spec

-----------------------------------------------------------------------------
(* The log at rest.                                                          *)
(* Of the log alone: a tombstone names a row, and no other does.             *)
LogMarked ==
    /\ \A d \in TombsIn(file) :
        LET i == Rec(file, d).ref IN
        /\ i \in RowsIn(file)
        /\ Rec(file, d).op = "update" =>
            Rec(file, i).op = "row" /\ Rec(file, d).rows[1].id = Rec(file, i).rows[1].id
        /\ Rec(file, d).op = "delete" => Rec(file, d).rows = <<>>
        /\ Walked(Rec(file, i))
    /\ \A d, e \in TombsIn(file) : Rec(file, d).ref = Rec(file, e).ref => d = e
Unmarked(i) == \A d \in TombsIn(file) : Rec(file, d).ref # i
Updates(d, i) == Rec(file, d).op = "update" /\ Rec(file, d).ref = i

LEMMA TombIsEntry ==
    ASSUME NEW d \in TombsIn(file), NEW z, z = <<NoThread, d>>
    PROVE  z \in Tombs /\ InLog(z) /\ Entry(z) = Rec(file, d) /\ Ref(z) = Rec(file, d).ref
  <1>1. d \in Records(file) /\ Rec(file, d).op \in Tombstones
    BY DEF TombsIn
  <1> QED  BY <1>1, EntryForm, TombsFacts DEF Ref

LEMMA MarkingOfLog ==
    ASSUME Named, OneTomb
    PROVE  LogMarked
  <1>1. ASSUME NEW d \in TombsIn(file)
        PROVE  LET i == Rec(file, d).ref IN
                /\ i \in RowsIn(file)
                /\ Rec(file, d).op = "update" =>
                    Rec(file, i).op = "row" /\ Rec(file, d).rows[1].id = Rec(file, i).rows[1].id
                /\ Rec(file, d).op = "delete" => Rec(file, d).rows = <<>>
                /\ Walked(Rec(file, i))
    <2>1. PICK z : z = <<NoThread, d>>
      OBVIOUS
    <2> QED  BY <2>1, TombIsEntry DEF Named, NamedBy
  <1>2. ASSUME NEW d \in TombsIn(file), NEW e \in TombsIn(file), Rec(file, d).ref = Rec(file, e).ref
        PROVE  d = e
    <2>1. PICK y, z : y = <<NoThread, d>> /\ z = <<NoThread, e>>
      OBVIOUS
    <2>2. y = z
      BY <1>2, <2>1, TombIsEntry DEF OneTomb
    <2> QED  BY <2>1, <2>2
  <1> QED  BY <1>1, <1>2 DEF LogMarked

(* What is stored in a log where no record has two tombstones, and what a    *)
(* query yields of it.                                                       *)
LEMMA StoredForm ==
    ASSUME Types, LogMarked, NEW y
    PROVE  y \in Stored(file) <=>
            \/ \E i \in RowsIn(file) : /\ Unmarked(i)
                                       /\ \E k \in DOMAIN Rec(file, i).rows :
                                            y = At(i, k, Rec(file, i).rows[k])
            \/ \E d \in TombsIn(file) : \E i \in RowsIn(file) :
                    Updates(d, i) /\ y = At(i, 1, Rec(file, d).rows[1])
  <1> DEFINE T == TombsIn(file)
             Of(i) == IF Rec(file, i).op = "row" THEN YieldRows(file, T, i)
                      ELSE YieldBatches(file, T, i)
  <1>1. y \in Stored(file) <=> \E i \in RowsIn(file) : y \in Of(i)
    BY DEF Stored, YieldOf
  <1>2. ASSUME NEW i \in RowsIn(file)
        PROVE  y \in Of(i) <=>
                \/ Unmarked(i) /\ \E k \in DOMAIN Rec(file, i).rows : y = At(i, k, Rec(file, i).rows[k])
                \/ \E d \in T : Updates(d, i) /\ y = At(i, 1, Rec(file, d).rows[1])
    <2>1. OfRecord(file, T, i) = {d \in T : Rec(file, d).ref = i}
      BY DEF OfRecord
    <2>2. Unmarked(i) <=> OfRecord(file, T, i) = {}
      BY <2>1 DEF Unmarked
    <2>3. \A d \in T : Updates(d, i) => Rec(file, i).op = "row" /\ ~Unmarked(i)
      BY DEF LogMarked, Updates, Unmarked
    <2>4. CASE Rec(file, i).op # "row"
      <3>1. y \in YieldBatches(file, T, i) <=>
                Unmarked(i) /\ \E k \in DOMAIN Rec(file, i).rows : y = At(i, k, Rec(file, i).rows[k])
        BY <2>2 DEF YieldBatches
      <3> QED  BY <2>3, <2>4, <3>1
    <2>5. CASE Rec(file, i).op = "row"
      <3>1. Rec(file, i).op = "row" /\ Rec(file, i) \in LogRec
        BY <2>5, RowsInFacts, RecordsFacts
      <3>2. DOMAIN Rec(file, i).rows = {1}
        <4>1. Len(Rec(file, i).rows) = 1 /\ Rec(file, i).rows \in Seq(Row)
          BY <3>1, RecordFields
        <4>2. DOMAIN Rec(file, i).rows = 1..1
          BY <4>1, LenProperties
        <4> QED  BY <4>2
      <3>3. CASE Unmarked(i)
        <4>1. y \in YieldRows(file, T, i) <=> y = At(i, 1, Rec(file, i).rows[1])
          BY <2>2, <3>3 DEF YieldRows
        <4> QED  BY <2>3, <2>5, <3>2, <3>3, <4>1
      <3>4. CASE ~Unmarked(i)
        <4>1. PICK d \in T : Rec(file, d).ref = i
          BY <3>4 DEF Unmarked
        <4>2. OfRecord(file, T, i) = {d}
          BY <2>1, <4>1 DEF LogMarked
        <4>3. d \in Nat
          BY <4>1, TombsInFacts
        <4>4. Obeyed(file, T, i) = {d}
          BY <4>2, <4>3 DEF Obeyed
        <4>5. y \in YieldRows(file, T, i) <=>
                    Rec(file, d).op = "update" /\ y = At(i, 1, Rec(file, d).rows[1])
          BY <2>2, <3>4, <4>4 DEF YieldRows
        <4>6. \A e \in T : Updates(e, i) <=> e = d /\ Rec(file, d).op = "update"
          BY <4>1 DEF LogMarked, Updates
        <4> QED  BY <2>5, <3>4, <4>5, <4>6
      <3> QED  BY <3>3, <3>4
    <2> QED  BY <2>4, <2>5
  <1> QED  BY <1>1, <1>2

LEMMA ContentsOfStored ==
    ASSUME Types, NEW y
    PROVE  /\ y \in Contents(file) <=> y \in Stored(file) /\ Loaded(Rec(file, y.rec))
           /\ y \in Stored(file) => y.rec \in RowsIn(file)
  <1>1. \A i, k, x : At(i, k, x).rec = i
    BY DEF At
  <1>2. \A i : y \in YieldOf(file, TombsIn(file), i) => y.rec = i
    BY <1>1 DEF YieldOf, YieldRows, YieldBatches
  <1> QED  BY <1>2 DEF Contents, Yield, Stored

LEMMA QuietQueues ==
    ASSUME Types, Quiet, NEW p \in Entries
    PROVE  InLog(p)
  <1>1. \A t \in Threads : Len(Queue(t)) = 0
    <2>1. \A t \in Threads : Queue(t) = <<>>
      BY IdleFacts, QueueFacts DEF Quiet
    <2> QED  BY <2>1, EmptySeq
  <1> QED  BY <1>1, EntryForm

(* The log at rest: what a query yields are the rows there are.              *)
LEMMA YieldedBears ==
    ASSUME Types, Quiet, Named, OneTomb, NEW y \in Stored(file)
    PROVE  /\ y = At(y.rec, y.k, y.row)
           /\ \E p \in Entries : /\ Bearer(p, y.row.id, y.row.v) /\ InLog(p)
                                 /\ \/ /\ Entry(p).op \in RowOps /\ y.rec = p[2]
                                       /\ y.k \in DOMAIN Entry(p).rows
                                       /\ y.row = Entry(p).rows[y.k]
                                    \/ /\ Entry(p).op \in Tombstones /\ y.rec = Ref(p) /\ y.k = 1
                                       /\ y.row = Entry(p).rows[1]
  <1>0. LogMarked
    BY MarkingOfLog
  <1>1. ASSUME NEW i \in RowsIn(file), Unmarked(i), NEW k \in DOMAIN Rec(file, i).rows,
               y = At(i, k, Rec(file, i).rows[k])
        PROVE  /\ y = At(y.rec, y.k, y.row)
               /\ \E p \in Entries : /\ Bearer(p, y.row.id, y.row.v) /\ InLog(p)
                                     /\ Entry(p).op \in RowOps /\ y.rec = p[2]
                                     /\ y.k \in DOMAIN Entry(p).rows
                                     /\ y.row = Entry(p).rows[y.k]
    <2>1. y.rec = i /\ y.k = k /\ y.row = Rec(file, i).rows[k] /\ y = At(y.rec, y.k, y.row)
      BY <1>1 DEF At
    <2>2. PICK p : p = <<NoThread, i>>
      OBVIOUS
    <2>3. p \in Entries /\ InLog(p) /\ Entry(p) = Rec(file, i) /\ p[2] = i /\ Entry(p).op \in RowOps
      BY <2>2, EntryForm, RowsInFacts
    <2>4. ~Tombed(i)
      <3>1. ASSUME NEW q \in Tombs, Ref(q) = i  PROVE FALSE
        <4>1. CASE InLog(q)
          <5>1. q[2] \in TombsIn(file) /\ Rec(file, q[2]).ref = i
            BY <3>1, <4>1, EntryForm, TombsFacts DEF TombsIn, Ref
          <5> QED  BY <1>1, <5>1 DEF Unmarked
        <4>2. CASE ~InLog(q)
          BY <3>1, <4>2, TombsFacts, QuietQueues
        <4> QED  BY <4>1, <4>2
      <3> QED  BY <3>1 DEF Tombed
    <2>5. Rec(file, i).rows[k] \in Row
      <3>1. Rec(file, i).rows \in Seq(Row)
        BY RowsInFacts, RecordsFacts, RecordFields
      <3> QED  BY <3>1, ElementOfSeq, LenProperties
    <2> QED  BY <2>1, <2>3, <2>4, <2>5 DEF Bearer, Live, Bears, Row
  <1>2. ASSUME NEW d \in TombsIn(file), NEW i \in RowsIn(file), Updates(d, i),
               y = At(i, 1, Rec(file, d).rows[1])
        PROVE  /\ y = At(y.rec, y.k, y.row)
               /\ \E p \in Entries : /\ Bearer(p, y.row.id, y.row.v) /\ InLog(p)
                                     /\ Entry(p).op \in Tombstones /\ y.rec = Ref(p) /\ y.k = 1
                                     /\ y.row = Entry(p).rows[1]
    <2>1. y.rec = i /\ y.k = 1 /\ y.row = Rec(file, d).rows[1] /\ y = At(y.rec, y.k, y.row)
      BY <1>2 DEF At
    <2>2. PICK p : p = <<NoThread, d>>
      OBVIOUS
    <2>3. p \in Tombs /\ p \in Entries /\ InLog(p) /\ Entry(p) = Rec(file, d) /\ Ref(p) = i
          /\ Entry(p).op \in Tombstones
      BY <1>2, <2>2, TombIsEntry, TombsFacts DEF Updates
    <2>4. Rec(file, d) \in LogRec /\ Rec(file, d).op = "update"
      BY <1>2, TombsInFacts, RecordsFacts DEF Updates
    <2>5. Rec(file, d).rows \in Seq(Row) /\ Len(Rec(file, d).rows) = 1
          /\ Rec(file, d).rows[1] \in Row
      BY <2>4, RecordFields
    <2>6. 1 \in DOMAIN Rec(file, d).rows
      BY <2>5, LenProperties
    <2>7. Live(p)
      BY <2>3 DEF Live, RowOps, Batches, Tombstones
    <2> QED  BY <2>1, <2>3, <2>5, <2>6, <2>7 DEF Bearer, Bears, Row
  <1>3. \/ \E i \in RowsIn(file) : /\ Unmarked(i)
                                   /\ \E k \in DOMAIN Rec(file, i).rows :
                                            y = At(i, k, Rec(file, i).rows[k])
        \/ \E d \in TombsIn(file) : \E i \in RowsIn(file) :
                    Updates(d, i) /\ y = At(i, 1, Rec(file, d).rows[1])
    BY <1>0, StoredForm
  <1> QED  BY <1>1, <1>2, <1>3

LEMMA BearerYields ==
    ASSUME Types, Quiet, Named, OneTomb, NEW p \in Entries, NEW id, NEW v, Bearer(p, id, v)
    PROVE  \E y \in Stored(file) : y.row.id = id /\ y.row.v = v
  <1>0. LogMarked /\ InLog(p)
    BY MarkingOfLog, QuietQueues
  <1>1. p[2] \in Records(file) /\ Entry(p) = Rec(file, p[2]) /\ Entry(p) \in LogRec
        /\ p = <<NoThread, p[2]>>
    BY <1>0, EntryForm, EntryTyped
  <1>2. Entry(p).rows \in Seq(Row)
    BY <1>1, RecordFields
  <1>3. PICK k \in DOMAIN Entry(p).rows : Entry(p).rows[k].id = id /\ Entry(p).rows[k].v = v
    BY DEF Bearer, Bears
  <1>6. CASE Entry(p).op \in RowOps
    <2>1. p[2] \in RowsIn(file)
      BY <1>1, <1>6 DEF RowsIn, TombsIn, RowOps, Batches, Tombstones
    <2>2. Unmarked(p[2])
      <3>1. ~Tombed(p[2])
        BY <1>0, <1>6 DEF Bearer, Live
      <3>2. ASSUME NEW d \in TombsIn(file), Rec(file, d).ref = p[2]  PROVE FALSE
        <4>1. PICK z : z = <<NoThread, d>>
          OBVIOUS
        <4> QED  BY <3>1, <3>2, <4>1, TombIsEntry DEF Tombed
      <3> QED  BY <3>2 DEF Unmarked
    <2>3. At(p[2], k, Rec(file, p[2]).rows[k]) \in Stored(file)
      BY <1>0, <1>1, <1>3, <2>1, <2>2, StoredForm
    <2> QED  BY <1>1, <1>3, <2>3 DEF At
  <1>7. CASE Entry(p).op \in Tombstones
    <2>1. PICK d : d = p[2]
      OBVIOUS
    <2>2. d \in TombsIn(file) /\ Rec(file, d) = Entry(p)
      BY <1>1, <1>7, <2>1 DEF TombsIn
    <2>3. Rec(file, d).op = "update"
      <3>1. CASE Rec(file, d).op = "delete"
        <4>1. Rec(file, d).rows = <<>> /\ DOMAIN <<>> = {}
          BY <1>0, <2>2, <3>1, EmptySeq DEF LogMarked
        <4> QED  BY <1>3, <2>2, <4>1
      <3> QED  BY <1>7, <2>2, <3>1 DEF Tombstones
    <2>4. k = 1
      <3>1. Len(Entry(p).rows) = 1
        BY <1>1, <2>2, <2>3, RecordFields
      <3>2. DOMAIN Entry(p).rows = 1..1
        BY <1>2, <3>1, LenProperties
      <3> QED  BY <1>3, <3>2
    <2>5. PICK i \in RowsIn(file) : Rec(file, d).ref = i
      BY <1>0, <2>2 DEF LogMarked
    <2>6. At(i, 1, Rec(file, d).rows[1]) \in Stored(file)
      BY <1>0, <2>2, <2>3, <2>5, StoredForm DEF Updates
    <2> QED  BY <1>3, <2>2, <2>4, <2>6 DEF At
  <1> QED  BY <1>1, <1>6, <1>7, RecordFields DEF Ops

LEMMA YieldedOnce ==
    ASSUME Types, Quiet, Named, OneTomb, OneBearer, NEW y \in Stored(file),
           NEW z \in Stored(file), y.row.id = z.row.id
    PROVE  y = z
  <1>1. /\ y = At(y.rec, y.k, y.row)
        /\ \E p \in Entries : /\ Bearer(p, y.row.id, y.row.v)
                              /\ \/ /\ Entry(p).op \in RowOps /\ y.rec = p[2]
                                    /\ y.k \in DOMAIN Entry(p).rows
                                    /\ y.row = Entry(p).rows[y.k]
                                 \/ /\ Entry(p).op \in Tombstones /\ y.rec = Ref(p) /\ y.k = 1
                                    /\ y.row = Entry(p).rows[1]
    BY YieldedBears
  <1>2. /\ z = At(z.rec, z.k, z.row)
        /\ \E p \in Entries : /\ Bearer(p, z.row.id, z.row.v)
                              /\ \/ /\ Entry(p).op \in RowOps /\ z.rec = p[2]
                                    /\ z.k \in DOMAIN Entry(p).rows
                                    /\ z.row = Entry(p).rows[z.k]
                                 \/ /\ Entry(p).op \in Tombstones /\ z.rec = Ref(p) /\ z.k = 1
                                    /\ z.row = Entry(p).rows[1]
    BY YieldedBears
  <1>3. PICK p \in Entries : /\ Bearer(p, y.row.id, y.row.v)
                             /\ \/ /\ Entry(p).op \in RowOps /\ y.rec = p[2]
                                   /\ y.k \in DOMAIN Entry(p).rows
                                   /\ y.row = Entry(p).rows[y.k]
                                \/ /\ Entry(p).op \in Tombstones /\ y.rec = Ref(p) /\ y.k = 1
                                   /\ y.row = Entry(p).rows[1]
    BY <1>1
  <1>4. PICK q \in Entries : /\ Bearer(q, z.row.id, z.row.v)
                             /\ \/ /\ Entry(q).op \in RowOps /\ z.rec = q[2]
                                   /\ z.k \in DOMAIN Entry(q).rows
                                   /\ z.row = Entry(q).rows[z.k]
                                \/ /\ Entry(q).op \in Tombstones /\ z.rec = Ref(q) /\ z.k = 1
                                   /\ z.row = Entry(q).rows[1]
    BY <1>2
  <1>5. p = q
    BY <1>3, <1>4 DEF OneBearer
  <1>6. RowOps \intersect Tombstones = {}
    BY DEF RowOps, Batches, Tombstones
  <1>7. \A k, m \in DOMAIN Entry(p).rows : Entry(p).rows[k].id = Entry(p).rows[m].id => k = m
    <2>1. Entry(p) \in LogRec
      BY EntryTyped
    <2>2. DOMAIN Entry(p).rows = 1..Len(Entry(p).rows)
      BY <2>1, RecordFields, LenProperties
    <2> QED  BY <2>1, <2>2, RecordFields
  <1>8. y.rec = z.rec /\ y.k = z.k /\ y.row = z.row
    BY <1>3, <1>4, <1>5, <1>6, <1>7
  <1> QED  BY <1>1, <1>2, <1>8

LEMMA QuietAnswers ==
    ASSUME Types, Quiet, Named, OneTomb, Answered
    PROVE  /\ {<<y.row.id, y.row.v>> : y \in Stored(file)} = RowsAnswered
           /\ \A id \in Ids : Times(Stored(file), id) <= 1
  <1>1. \A id, v : Expect(id, v) <=> v = answers[id]
    <2>1. \A t \in Threads : ~Isdml(t)
      BY IdleFacts DEF Quiet, Isdml, Dmls
    <2> QED  BY <2>1 DEF Expect, Hitter
  <1>2. ASSUME NEW y \in Stored(file)
        PROVE  /\ y.row.id \in Ids /\ answers[y.row.id] # Absent
               /\ y.row.v = answers[y.row.id]
    <2>1. \E p \in Entries : Bearer(p, y.row.id, y.row.v)
      BY YieldedBears
    <2>2. y.row.id \in Ids
      BY <2>1, BearsTyped DEF Bearer
    <2>3. y.row.v # Absent /\ y.row.v = answers[y.row.id]
      BY <1>1, <2>1 DEF Answered, Right
    <2> QED  BY <2>1, <2>2, <2>3
  <1>3. ASSUME NEW id \in Ids, answers[id] # Absent
        PROVE  \E y \in Stored(file) : y.row.id = id /\ y.row.v = answers[id]
    <2>1. PICK p \in Entries : \E v : Bearer(p, id, v)
      BY <1>1, <1>3 DEF Answered, Total
    <2>2. PICK v : Bearer(p, id, v)
      BY <2>1
    <2>3. v = answers[id]
      BY <1>1, <2>2 DEF Answered, Right
    <2> QED  BY <2>2, <2>3, BearerYields DEF Answered
  <1>4. {<<y.row.id, y.row.v>> : y \in Stored(file)} = RowsAnswered
    <2>1. \A y \in Stored(file) : <<y.row.id, y.row.v>> \in RowsAnswered
      BY <1>2 DEF RowsAnswered
    <2>2. ASSUME NEW id \in Ids, answers[id] # Absent
          PROVE  <<id, answers[id]>> \in {<<y.row.id, y.row.v>> : y \in Stored(file)}
      <3>1. PICK y \in Stored(file) : y.row.id = id /\ y.row.v = answers[id]
        BY <1>3, <2>2
      <3> QED  BY <3>1
    <2>3. \A x \in RowsAnswered : x \in {<<y.row.id, y.row.v>> : y \in Stored(file)}
      BY <2>2 DEF RowsAnswered
    <2> QED  BY <2>1, <2>3
  <1>5. ASSUME NEW id \in Ids  PROVE Times(Stored(file), id) <= 1
    <2>1. TombsIn(file) \in SUBSET Nat /\ Stored(file) \in SUBSET AllOf(file, TombsIn(file))
      BY TombsInFacts, YieldInAll
    <2>2. \A y, z \in Stored(file) : y.row.id = id /\ z.row.id = id => y = z
      BY YieldedOnce DEF Answered
    <2> QED  BY <2>1, <2>2, TimesFacts
  <1> QED  BY <1>4, <1>5

-----------------------------------------------------------------------------
(* The compacted log: lengths and row records in turn.                       *)
Even(s) == {j \in 1..Len(s) : j % 2 = 0}
RecsOf(s) == {s[j].rec : j \in Even(s)}
InTurn(s) ==
    /\ s \in Seq(Part) /\ Len(s) % 2 = 0
    /\ \A j \in 1..Len(s) : s[j].part = PartAt(j)
    /\ \A rec \in RecsOf(s) :
            rec.op \in {"row", "batch"} /\ (rec.op = "row" => DOMAIN rec.rows = {1})

LEMMA InTurnConcat ==
    ASSUME NEW s, NEW w, InTurn(s), InTurn(w)
    PROVE  /\ InTurn(s \o w)
           /\ \A rec : rec \in RecsOf(s \o w) <=> rec \in RecsOf(s) \/ rec \in RecsOf(w)
  <1> DEFINE a == Len(s)
             b == Len(w)
             q == s \o w
  <1>1. /\ a \in Nat /\ b \in Nat /\ a % 2 = 0 /\ b % 2 = 0
        /\ q \in Seq(Part) /\ Len(q) = a + b
        /\ \A j \in 1..(a + b) : q[j] = IF j <= a THEN s[j] ELSE w[j - a]
    <2>1. s \in Seq(Part) /\ w \in Seq(Part) /\ Len(s) % 2 = 0 /\ Len(w) % 2 = 0
      BY DEF InTurn
    <2> QED  BY <2>1, ConcatProperties, LenProperties
  <1> HIDE DEF a, b, q
  <1>2. /\ \A j \in 1..a : j \in 1..(a + b) /\ j <= a
        /\ \A j \in 1..b : j + a \in 1..(a + b) /\ ~(j + a <= a) /\ (j + a) - a = j
                           /\ (j + a) % 2 = j % 2
        /\ \A j \in 1..(a + b) : j <= a => j \in 1..a
        /\ \A j \in 1..(a + b) : ~(j <= a) => (j - a) \in 1..b /\ (j - a) + a = j
        /\ (a + b) % 2 = 0
    BY <1>1
  <1>3. \A j \in 1..a : q[j] = s[j]
    BY <1>1, <1>2
  <1>4. \A j \in 1..b : q[j + a] = w[j]
    BY <1>1, <1>2
  <1>5. \A j \in 1..(a + b) : j \in 1..a \/ \E m \in 1..b : j = m + a /\ m % 2 = j % 2
    <2>1. ASSUME NEW j \in 1..(a + b), ~(j <= a)  PROVE \E m \in 1..b : j = m + a /\ m % 2 = j % 2
      <3>1. PICK m \in 1..b : m + a = j
        BY <1>2, <2>1
      <3> QED  BY <1>2, <3>1
    <2> QED  BY <1>2, <2>1
  <1>6. ASSUME NEW j \in 1..(a + b)  PROVE q[j].part = PartAt(j)
    <2>1. CASE j \in 1..a
      BY <1>3, <2>1 DEF InTurn, a
    <2>2. ASSUME NEW m \in 1..b, j = m + a, m % 2 = j % 2  PROVE q[j].part = PartAt(j)
      <3>1. q[j] = w[m] /\ w[m].part = PartAt(m)
        BY <1>4, <2>2 DEF InTurn, b
      <3> QED  BY <2>2, <3>1 DEF PartAt
    <2> QED  BY <1>5, <2>1, <2>2
  <1>7. \A rec : rec \in RecsOf(q) <=> rec \in RecsOf(s) \/ rec \in RecsOf(w)
    <2>1. ASSUME NEW rec, rec \in RecsOf(q)  PROVE rec \in RecsOf(s) \/ rec \in RecsOf(w)
      <3>1. PICK j \in 1..(a + b) : j % 2 = 0 /\ rec = q[j].rec
        BY <1>1, <2>1 DEF RecsOf, Even
      <3>2. CASE j \in 1..a
        BY <1>3, <3>1, <3>2 DEF RecsOf, Even, a
      <3>3. ASSUME NEW m \in 1..b, j = m + a, m % 2 = j % 2  PROVE rec \in RecsOf(w)
        BY <1>4, <3>1, <3>3 DEF RecsOf, Even, b
      <3> QED  BY <1>5, <3>2, <3>3
    <2>2. ASSUME NEW rec, rec \in RecsOf(s)  PROVE rec \in RecsOf(q)
      <3>1. PICK j \in 1..a : j % 2 = 0 /\ rec = s[j].rec
        BY <2>2 DEF RecsOf, Even, a
      <3> QED  BY <1>1, <1>2, <1>3, <3>1 DEF RecsOf, Even
    <2>3. ASSUME NEW rec, rec \in RecsOf(w)  PROVE rec \in RecsOf(q)
      <3>1. PICK j \in 1..b : j % 2 = 0 /\ rec = w[j].rec
        BY <2>3 DEF RecsOf, Even, b
      <3>2. j + a \in 1..(a + b) /\ (j + a) % 2 = 0 /\ rec = q[j + a].rec
        BY <1>2, <1>4, <3>1
      <3> QED  BY <1>1, <3>2 DEF RecsOf, Even
    <2> QED  BY <2>1, <2>2, <2>3
  <1>8. InTurn(q)
    <2>1. \A rec \in RecsOf(q) :
            rec.op \in {"row", "batch"} /\ (rec.op = "row" => DOMAIN rec.rows = {1})
      BY <1>7 DEF InTurn
    <2> QED  BY <1>1, <1>2, <1>6, <2>1 DEF InTurn
  <1> QED  BY <1>7, <1>8 DEF q

(* A query of such a log yields every row of it that is understood.          *)
LEMMA InTurnYields ==
    ASSUME NEW s, InTurn(s), NEW r
    PROVE  r \in RowsOf(Contents(s)) <=>
                \E rec \in RecsOf(s) :
                    ~Garbled(rec) /\ \E k \in DOMAIN rec.rows : r = rec.rows[k]
  <1> DEFINE n == Len(s)
  <1>1. n \in Nat /\ n % 2 = 0 /\ \A j \in 1..n : s[j].part = PartAt(j)
    BY LenProperties DEF InTurn
  <1> HIDE DEF n
  <1>2. \A i : i \in Records(s) <=> i \in 1..n /\ i % 2 = 1
    <2>1. \A i \in 1..n : i % 2 = 1 => i < n /\ \A j \in 1..(i + 1) : j \in 1..n
      BY <1>1
    <2> QED  BY <1>1, <2>1 DEF Records, n
  <1>3. \A i \in Records(s) : i + 1 \in Even(s) /\ Rec(s, i) = s[i + 1].rec /\ Rec(s, i) \in RecsOf(s)
    <2>1. \A i \in 1..n : i % 2 = 1 => i + 1 \in 1..n /\ (i + 1) % 2 = 0
      BY <1>1
    <2> QED  BY <1>2, <2>1 DEF RecsOf, Even, Rec, n
  <1>4. \A j \in Even(s) : \E i \in Records(s) : Rec(s, i) = s[j].rec
    <2>1. \A j \in 1..n : j % 2 = 0 => (j - 1) \in 1..n /\ (j - 1) % 2 = 1 /\ (j - 1) + 1 = j
      BY <1>1
    <2>2. ASSUME NEW j \in Even(s)  PROVE \E i \in Records(s) : Rec(s, i) = s[j].rec
      <3>1. PICK i : i = j - 1
        OBVIOUS
      <3>2. i \in Records(s) /\ i + 1 = j
        BY <1>2, <2>1, <3>1 DEF Even, n
      <3> QED  BY <3>2 DEF Rec
    <2> QED  BY <2>2
  <1>5. TombsIn(s) = {} /\ RowsIn(s) = Records(s)
    BY <1>3 DEF TombsIn, RowsIn, InTurn, Tombstones
  <1>6. \A i : OfRecord(s, {}, i) = {}
    BY DEF OfRecord
  <1>7. \A y : y \in Contents(s) <=>
            \E i \in Records(s) : /\ ~Garbled(Rec(s, i))
                                  /\ \E k \in DOMAIN Rec(s, i).rows :
                                        y = At(i, k, Rec(s, i).rows[k])
    <2>1. ASSUME NEW y, NEW i \in Records(s)
          PROVE  y \in YieldOf(s, {}, i) <=>
                    \E k \in DOMAIN Rec(s, i).rows : y = At(i, k, Rec(s, i).rows[k])
      <3>1. CASE Rec(s, i).op # "row"
        BY <1>6, <3>1 DEF YieldOf, YieldBatches
      <3>2. CASE Rec(s, i).op = "row"
        <4>1. DOMAIN Rec(s, i).rows = {1}
          BY <1>3, <3>2 DEF InTurn
        <4> QED  BY <1>6, <3>2, <4>1 DEF YieldOf, YieldRows
      <3> QED  BY <3>1, <3>2
    <2>2. \A i \in Records(s) : Loaded(Rec(s, i)) <=> ~Garbled(Rec(s, i))
      BY <1>3 DEF InTurn, Loaded
    <2> QED  BY <1>5, <2>1, <2>2 DEF Contents, Yield
  <1>8. \A i, k, x : At(i, k, x).row = x
    BY DEF At
  <1>9. r \in RowsOf(Contents(s)) <=>
            \E i \in Records(s) :
                ~Garbled(Rec(s, i)) /\ \E k \in DOMAIN Rec(s, i).rows : r = Rec(s, i).rows[k]
    BY <1>7, <1>8 DEF RowsOf
  <1>10. \A rec : rec \in RecsOf(s) <=> \E i \in Records(s) : rec = Rec(s, i)
    BY <1>3, <1>4 DEF RecsOf
  <1> QED  BY <1>9, <1>10

LEMMA InTurnNone == InTurn(<<>>) /\ RecsOf(<<>>) = {}
  <1>1. <<>> \in Seq(Part) /\ Len(<<>>) = 0 /\ 0 % 2 = 0 /\ 1..0 = {}
    BY EmptySeq
  <1>2. Even(<<>>) = {}
    BY <1>1 DEF Even
  <1>3. RecsOf(<<>>) = {}
    BY <1>2 DEF RecsOf
  <1> QED  BY <1>1, <1>3 DEF InTurn

LEMMA InTurnPair ==
    ASSUME NEW x \in Part, x.part = "data", x.rec.op \in {"row", "batch"},
           x.rec.op = "row" => DOMAIN x.rec.rows = {1}
    PROVE  InTurn(<<Length, x>>) /\ RecsOf(<<Length, x>>) = {x.rec}
  <1> DEFINE s == <<Length, x>>
  <1>1. s \in Seq(Part) /\ Len(s) = 2 /\ s[1] = Length /\ s[2] = x
    <2>1. Length \in Part
      BY DEF Part
    <2> QED  BY <2>1
  <1>2. 2 % 2 = 0 /\ 1 % 2 = 1 /\ 1..2 = {1, 2}
    OBVIOUS
  <1> HIDE DEF s
  <1>3. RecsOf(s) = {x.rec}
    <2>1. Even(s) = {2}
      BY <1>1, <1>2 DEF Even
    <2> QED  BY <1>1, <2>1 DEF RecsOf
  <1>4. \A j \in 1..Len(s) : s[j].part = PartAt(j)
    BY <1>1, <1>2 DEF PartAt, Length
  <1> QED  BY <1>1, <1>2, <1>3, <1>4 DEF InTurn, s

(* What compaction keeps of a record: itself, or its row as it was updated.  *)
LEMMA KeptInTurn ==
    ASSUME Types, LogMarked, NEW i \in RowsIn(file)
    PROVE  /\ InTurn(Kept(file, i))
           /\ \A rec : rec \in RecsOf(Kept(file, i)) <=>
                    \/ Unmarked(i) /\ rec = Rec(file, i) /\ rec.op \in {"row", "batch"}
                    \/ \E d \in TombsIn(file) : Updates(d, i) /\ rec = RowRec(Rec(file, d).rows[1])
  <1> DEFINE T == TombsIn(file)
             D == OfRecord(file, T, i)
             U == {d \in D : Rec(file, d).op = "update" /\
                             \A e \in D : e > d => Rec(file, e).op # "update"}
  <1>1. Kept(file, i) = IF Rec(file, i).op \in {"wide", "huge"} THEN <<>>
                        ELSE IF D = {} THEN <<Length, file[i + 1]>>
                        ELSE IF U = {} THEN <<>>
                        ELSE <<Length, Data(RowRec(Rec(file, CHOOSE d \in U : TRUE).rows[1]))>>
    BY DEF Kept
  <1>2. D = {d \in T : Rec(file, d).ref = i}
    BY DEF OfRecord
  <1>5. Rec(file, i).op \in {"row", "batch", "wide", "huge"} /\ ("row" # "wide" /\ "row" # "huge")
    BY RowsInFacts DEF RowOps, Batches
  <1>6. CASE Rec(file, i).op \in {"wide", "huge"}
    <2>1. \A d \in T : ~Updates(d, i)
      BY <1>6 DEF LogMarked, Updates
    <2>2. Kept(file, i) = <<>>
      BY <1>1, <1>6
    <2> QED  BY <1>6, <2>1, <2>2, InTurnNone
  <1>3. CASE Unmarked(i) /\ Rec(file, i).op \in {"row", "batch"}
    <2>1. D = {} /\ \A d \in T : ~Updates(d, i)
      BY <1>2, <1>3 DEF Unmarked, Updates
    <2>2. Kept(file, i) = <<Length, file[i + 1]>>
      BY <1>1, <1>3, <2>1
    <2>3. /\ file[i + 1] \in Part /\ file[i + 1].part = "data"
          /\ file[i + 1].rec = Rec(file, i) /\ Rec(file, i) \in LogRec
      BY RowsInFacts, RecordsFacts, FileFacts DEF Written
    <2>4. Rec(file, i).op = "row" => DOMAIN Rec(file, i).rows = {1}
      <3>1. ASSUME Rec(file, i).op = "row"  PROVE DOMAIN Rec(file, i).rows = {1}
        <4>1. Len(Rec(file, i).rows) = 1 /\ Rec(file, i).rows \in Seq(Row)
          BY <2>3, <3>1, RecordFields
        <4>2. DOMAIN Rec(file, i).rows = 1..1
          BY <4>1, LenProperties
        <4> QED  BY <4>2
      <3> QED  BY <3>1
    <2>5. InTurn(Kept(file, i)) /\ RecsOf(Kept(file, i)) = {Rec(file, i)}
      BY <1>3, <2>2, <2>3, <2>4, InTurnPair
    <2> QED  BY <1>3, <2>1, <2>5
  <1>4. CASE ~Unmarked(i) /\ Rec(file, i).op \in {"row", "batch"}
    <2>1. PICK d \in T : Rec(file, d).ref = i
      BY <1>4 DEF Unmarked
    <2>2. D = {d}
      BY <1>2, <2>1 DEF LogMarked
    <2>3. d \in Nat /\ Rec(file, d) \in LogRec
      BY <2>1, TombsInFacts, RecordsFacts
    <2>4. \A e \in T : Updates(e, i) <=> e = d /\ Rec(file, d).op = "update"
      BY <2>1 DEF LogMarked, Updates
    <2>5. CASE Rec(file, d).op # "update"
      <3>1. U = {} /\ D # {}
        BY <2>2, <2>5
      <3>2. Kept(file, i) = <<>>
        BY <1>1, <1>4, <3>1
      <3> QED  BY <1>4, <2>4, <2>5, <3>2, InTurnNone
    <2>6. CASE Rec(file, d).op = "update"
      <3>1. U = {d} /\ D # {}
        BY <2>2, <2>3, <2>6
      <3>2. (CHOOSE e \in U : TRUE) = d
        BY <3>1
      <3>3. U # {}
        BY <3>1
      <3>4. PICK x : x = Data(RowRec(Rec(file, d).rows[1]))
        OBVIOUS
      <3>5. Kept(file, i) = <<Length, x>>
        BY <1>1, <1>4, <3>1, <3>2, <3>3, <3>4
      <3>6. Rec(file, d).rows[1] \in Row
        BY <2>3, <2>6, RecordFields
      <3>7. RowRec(Rec(file, d).rows[1]) \in LogRec /\ RowRec(Rec(file, d).rows[1]).op = "row"
        BY <3>6, RowRecTyped
      <3>8. x \in Part /\ x.part = "data" /\ x.rec = RowRec(Rec(file, d).rows[1])
        BY <3>4, <3>7, RecordFields
      <3>9. DOMAIN RowRec(Rec(file, d).rows[1]).rows = {1}
        BY SeqOne DEF RowRec
      <3>10. InTurn(Kept(file, i)) /\ RecsOf(Kept(file, i)) = {x.rec}
        BY <3>5, <3>7, <3>8, <3>9, InTurnPair
      <3> QED  BY <1>4, <2>1, <2>4, <2>6, <3>8, <3>10
    <2> QED  BY <2>5, <2>6
  <1> QED  BY <1>3, <1>4, <1>5, <1>6

(* The recursion of Compacted is well defined.                               *)
Keeps(j) == IF j \in RowsIn(file) THEN Kept(file, j) ELSE <<>>
KeepSteps(g, n) ==
    /\ g = [j \in 0..n |-> g[j]]
    /\ g[0] = <<>>
    /\ \A k \in 1..n : g[k] = g[k - 1] \o Keeps(k)

LEMMA KeepStepsExist ==
    ASSUME NEW N \in Nat
    PROVE  \A n \in 0..N : \E g : KeepSteps(g, n)
  <1> DEFINE Ok(n) == \E g : KeepSteps(g, n)
             Bad == {n \in 0..N : ~Ok(n)}
  <1>1. Ok(0)
    <2> DEFINE g == [j \in 0..0 |-> <<>>]
    <2>1. g = [j \in 0..0 |-> g[j]] /\ g[0] = <<>> /\ \A k \in 1..0 : FALSE
      OBVIOUS
    <2> HIDE DEF g
    <2> QED  BY <2>1, Zenon DEF KeepSteps
  <1>2. ASSUME NEW n \in 0..(N - 1), Ok(n)  PROVE Ok(n + 1)
    <2>1. PICK g : KeepSteps(g, n)
      BY <1>2
    <2> DEFINE s == g[n] \o Keeps(n + 1)
               e == [k \in 0..(n + 1) |-> IF k = n + 1 THEN s ELSE g[k]]
    <2>2. e = [k \in 0..(n + 1) |-> e[k]]
      OBVIOUS
    <2>3. e[0] = <<>>
      BY <1>2, <2>1 DEF KeepSteps
    <2>4. ASSUME NEW k \in 1..(n + 1)  PROVE e[k] = e[k - 1] \o Keeps(k)
      <3> HIDE DEF s
      <3>1. k - 1 \in 0..(n + 1) /\ k - 1 # n + 1 /\ k \in 0..(n + 1)
        BY <1>2
      <3>2. e[k - 1] = g[k - 1]
        BY <3>1
      <3>3. CASE k = n + 1
        <4>1. e[k] = s /\ k - 1 = n
          BY <1>2, <3>1, <3>3
        <4> QED  BY <3>2, <3>3, <4>1 DEF s
      <3>4. CASE k # n + 1
        <4>1. e[k] = g[k] /\ k \in 1..n
          BY <1>2, <3>1, <3>4
        <4> QED  BY <2>1, <3>2, <4>1 DEF KeepSteps
      <3> QED  BY <3>3, <3>4
    <2> HIDE DEF e
    <2> QED  BY <2>2, <2>3, <2>4 DEF KeepSteps
  <1> HIDE DEF Ok
  <1>3. ASSUME Bad # {}  PROVE FALSE
    <2>1. PICK m \in Bad : \A n \in Bad : m <= n
      <3>1. Bad \in SUBSET Nat
        OBVIOUS
      <3> HIDE DEF Bad
      <3> QED  BY <1>3, <3>1, NatMin
    <2>2. m # 0
      BY <1>1, <2>1
    <2>3. m - 1 \in 0..(N - 1) /\ m - 1 \in 0..N /\ ~(m <= m - 1) /\ (m - 1) + 1 = m
      BY <2>1, <2>2
    <2>4. Ok(m - 1)
      BY <2>1, <2>3
    <2> QED  BY <1>2, <2>1, <2>3, <2>4
  <1> QED  BY <1>3 DEF Ok

LEMMA CompactedFacts ==
    ASSUME Types, LogMarked
    PROVE  /\ InTurn(Compacted(file))
           /\ \A rec : rec \in RecsOf(Compacted(file)) <=>
                    \E i \in RowsIn(file) : rec \in RecsOf(Kept(file, i))
  <1> DEFINE n == Len(file)
             Step1(g) == [j \in 0..n |-> IF j = 0 THEN <<>> ELSE g[j - 1] \o
                                (IF j \in RowsIn(file) THEN Kept(file, j) ELSE <<>>)]
             f == CHOOSE g : g = Step1(g)
  <1>1. n \in Nat /\ 0 \in 0..n /\ n \in 0..n
    BY LenProperties DEF Types
  <1>2. Compacted(file) = f[n]
    BY DEF Compacted
  <1>3. PICK g : KeepSteps(g, n)
    BY <1>1, KeepStepsExist
  <1>4. g = Step1(g)
    <2>1. g = [k \in 0..n |-> g[k]]
      BY <1>3 DEF KeepSteps
    <2>2. \A k \in 0..n : k = 0 \/ k \in 1..n
      BY <1>1
    <2>3. \A k \in 0..n : g[k] = IF k = 0 THEN <<>> ELSE g[k - 1] \o
                                (IF k \in RowsIn(file) THEN Kept(file, k) ELSE <<>>)
      BY <1>3, <2>2 DEF KeepSteps, Keeps
    <2> QED  BY <2>1, <2>3, Zenon
  <1>5. f = Step1(f)
    BY <1>4
  <1> HIDE DEF f
  <1>6. \A k \in 0..n : f[k] = IF k = 0 THEN <<>> ELSE f[k - 1] \o Keeps(k)
    BY <1>5 DEF Keeps
  <1> DEFINE Upto(k, rec) == \E i \in RowsIn(file) : i <= k /\ rec \in RecsOf(Kept(file, i))
             Good(k) == InTurn(f[k]) /\ \A rec : rec \in RecsOf(f[k]) <=> Upto(k, rec)
             Bad == {k \in 0..n : ~Good(k)}
  <1>7. \A i \in RowsIn(file) : i \in 1..n /\ i <= n
    <2>1. \A i \in RowsIn(file) : i \in 1..n
      BY RowsInFacts, RecordsFacts
    <2> QED  BY <1>1, <2>1
  <1> HIDE DEF n
  <1>8. Good(0)
    <2>1. f[0] = <<>>
      BY <1>1, <1>6
    <2>2. \A i \in RowsIn(file) : ~(i <= 0)
      BY <1>7
    <2> QED  BY <2>1, <2>2, InTurnNone
  <1>9. ASSUME NEW m \in 1..n, Good(m - 1)  PROVE Good(m)
    <2>1. f[m] = f[m - 1] \o Keeps(m)
      <3>1. m \in 0..n /\ m # 0
        BY <1>1
      <3> QED  BY <1>6, <3>1
    <2>2. \A i \in RowsIn(file) : i <= m <=> i <= m - 1 \/ i = m
      BY <1>1, <1>7
    <2>3. InTurn(Keeps(m))
          /\ \A rec : rec \in RecsOf(Keeps(m)) <=> m \in RowsIn(file) /\ rec \in RecsOf(Kept(file, m))
      BY KeptInTurn, InTurnNone DEF Keeps
    <2>4. PICK s, w : s = f[m - 1] /\ w = Keeps(m)
      OBVIOUS
    <2>5. InTurn(s) /\ InTurn(w)
      BY <1>9, <2>3, <2>4
    <2>6. /\ InTurn(s \o w)
          /\ \A rec : rec \in RecsOf(s \o w) <=> rec \in RecsOf(s) \/ rec \in RecsOf(w)
      BY <2>5, InTurnConcat
    <2>7. f[m] = s \o w
      BY <2>1, <2>4
    <2>8. \A rec : rec \in RecsOf(s) <=> Upto(m - 1, rec)
      BY <1>9, <2>4
    <2>9. \A rec : rec \in RecsOf(f[m]) <=> Upto(m, rec)
      BY <2>2, <2>3, <2>4, <2>6, <2>7, <2>8
    <2> QED  BY <2>6, <2>7, <2>9
  <1>10. ASSUME Bad # {}  PROVE FALSE
    <2> HIDE DEF Good
    <2>1. PICK m \in Bad : \A k \in Bad : m <= k
      <3>1. Bad \in SUBSET Nat
        BY <1>1
      <3> HIDE DEF Bad
      <3> QED  BY <1>10, <3>1, NatMin
    <2>2. m # 0
      BY <1>8, <2>1
    <2>3. m \in 1..n /\ m - 1 \in 0..n /\ ~(m <= m - 1)
      BY <1>1, <2>1, <2>2
    <2>4. Good(m - 1)
      BY <2>1, <2>3
    <2> QED  BY <1>9, <2>1, <2>3, <2>4
  <1>11. Good(n)
    BY <1>1, <1>10
  <1>12. \A rec : Upto(n, rec) <=> \E i \in RowsIn(file) : rec \in RecsOf(Kept(file, i))
    BY <1>7
  <1> QED  BY <1>2, <1>11, <1>12

LEMMA CompactionLemma ==
    ASSUME Types, LogMarked
    PROVE  RowsOf(Contents(Compacted(file))) = RowsOf({y \in Contents(file) : Compactable(y)})
  <1> DEFINE Plain(r) == \E i \in RowsIn(file) :
                    /\ Unmarked(i) /\ Walked(Rec(file, i))
                    /\ \E k \in DOMAIN Rec(file, i).rows : r = Rec(file, i).rows[k]
             Updated(r) == \E d \in TombsIn(file) : \E i \in RowsIn(file) :
                    Updates(d, i) /\ r = Rec(file, d).rows[1] /\ r.text \notin Mistaken
  <1>1. PICK s : s = Compacted(file)
    OBVIOUS
  <1>2. InTurn(s) /\ \A rec : rec \in RecsOf(s) <=>
            \E i \in RowsIn(file) :
                \/ Unmarked(i) /\ rec = Rec(file, i) /\ rec.op \in {"row", "batch"}
                \/ \E d \in TombsIn(file) : Updates(d, i) /\ rec = RowRec(Rec(file, d).rows[1])
    BY <1>1, CompactedFacts, KeptInTurn
  <1>3. /\ \A x : DOMAIN RowRec(x).rows = {1} /\ RowRec(x).rows[1] = x
        /\ \A x : Garbled(RowRec(x)) <=> x.text \in Mistaken
    <2>1. \A x : RowRec(x).op = "row" /\ DOMAIN RowRec(x).rows = {1} /\ RowRec(x).rows[1] = x
      BY SeqOne DEF RowRec
    <2> QED  BY <2>1 DEF Garbled
  <1>4. \A i \in RowsIn(file) : /\ Rec(file, i).op \in {"row", "batch", "wide", "huge"}
                                /\ Walked(Rec(file, i)) <=> /\ Rec(file, i).op \in {"row", "batch"}
                                                            /\ ~Garbled(Rec(file, i))
    <2>1. \A i \in RowsIn(file) : Rec(file, i).op \in {"row", "batch", "wide", "huge"}
      BY RowsInFacts DEF RowOps, Batches
    <2> QED  BY <2>1 DEF Walked
  <1>5. ASSUME NEW r  PROVE r \in RowsOf(Contents(s)) <=> Plain(r) \/ Updated(r)
    <2>1. r \in RowsOf(Contents(s)) <=>
                \E rec \in RecsOf(s) :
                    ~Garbled(rec) /\ \E k \in DOMAIN rec.rows : r = rec.rows[k]
      BY <1>2, InTurnYields
    <2>2. ASSUME NEW rec \in RecsOf(s), ~Garbled(rec), NEW k \in DOMAIN rec.rows, r = rec.rows[k]
          PROVE  Plain(r) \/ Updated(r)
      <3>1. PICK i \in RowsIn(file) :
                \/ Unmarked(i) /\ rec = Rec(file, i) /\ rec.op \in {"row", "batch"}
                \/ \E d \in TombsIn(file) : Updates(d, i) /\ rec = RowRec(Rec(file, d).rows[1])
        BY <1>2
      <3>2. ASSUME NEW d \in TombsIn(file), Updates(d, i), rec = RowRec(Rec(file, d).rows[1])
            PROVE  Updated(r)
        <4>1. k = 1
          BY <1>3, <2>2, <3>2
        <4>2. r = Rec(file, d).rows[1] /\ r.text \notin Mistaken
          BY <1>3, <2>2, <3>2, <4>1
        <4> QED  BY <3>2, <4>2
      <3>3. ASSUME Unmarked(i), rec = Rec(file, i), rec.op \in {"row", "batch"}
            PROVE  Plain(r)
        BY <1>4, <2>2, <3>3
      <3> QED  BY <3>1, <3>2, <3>3
    <2>3. ASSUME Plain(r)
          PROVE  \E rec \in RecsOf(s) :
                    ~Garbled(rec) /\ \E m \in DOMAIN rec.rows : r = rec.rows[m]
      BY <1>2, <1>4, <2>3
    <2>4. ASSUME Updated(r)
          PROVE  \E rec \in RecsOf(s) :
                    ~Garbled(rec) /\ \E m \in DOMAIN rec.rows : r = rec.rows[m]
      <3>1. PICK d \in TombsIn(file), i \in RowsIn(file) :
                Updates(d, i) /\ r = Rec(file, d).rows[1] /\ r.text \notin Mistaken
        BY <2>4
      <3>2. PICK rec : rec = RowRec(Rec(file, d).rows[1])
        OBVIOUS
      <3>3. rec \in RecsOf(s)
        BY <1>2, <3>1, <3>2
      <3>4. 1 \in DOMAIN rec.rows /\ rec.rows[1] = r /\ ~Garbled(rec)
        BY <1>3, <3>1, <3>2
      <3> QED  BY <3>3, <3>4
    <2> HIDE DEF Plain, Updated
    <2> QED  BY <2>1, <2>2, <2>3, <2>4
  <1>6. ASSUME NEW r
        PROVE  r \in RowsOf({y \in Contents(file) : Compactable(y)}) <=> Plain(r) \/ Updated(r)
    <2>1. \A i, k, x : At(i, k, x).row = x /\ At(i, k, x).rec = i
      BY DEF At
    <2>2. \A y : y \in Contents(file) <=> y \in Stored(file) /\ Loaded(Rec(file, y.rec))
      BY ContentsOfStored
    <2>3. \A y : y \in Stored(file) <=>
            \/ \E i \in RowsIn(file) : /\ Unmarked(i)
                                       /\ \E k \in DOMAIN Rec(file, i).rows :
                                            y = At(i, k, Rec(file, i).rows[k])
            \/ \E d \in TombsIn(file) : \E i \in RowsIn(file) :
                    Updates(d, i) /\ y = At(i, 1, Rec(file, d).rows[1])
      BY StoredForm
    <2>4. ASSUME NEW i \in RowsIn(file), NEW k \in DOMAIN Rec(file, i).rows, NEW y,
                 y = At(i, k, Rec(file, i).rows[k])
          PROVE  Loaded(Rec(file, y.rec)) /\ Compactable(y) <=> Walked(Rec(file, i))
      <3>1. y.rec = i /\ y.row = Rec(file, i).rows[k]
        BY <2>1, <2>4
      <3>2. CASE Rec(file, i).op = "row"
        <4>1. Len(Rec(file, i).rows) = 1 /\ Rec(file, i).rows \in Seq(Row)
          BY <3>2, RowsInFacts, RecordsFacts, RecordFields
        <4>2. k = 1
          BY <4>1, LenProperties
        <4> QED  BY <3>1, <3>2, <4>2 DEF Loaded, Compactable, Walked, Garbled
      <3>3. CASE Rec(file, i).op # "row"
        BY <1>4, <3>1, <3>3 DEF Loaded, Compactable, Walked, Garbled
      <3> QED  BY <3>2, <3>3
    <2>5. ASSUME NEW d \in TombsIn(file), NEW i \in RowsIn(file), Updates(d, i), NEW y,
                 y = At(i, 1, Rec(file, d).rows[1])
          PROVE  Loaded(Rec(file, y.rec)) /\ Compactable(y) <=> y.row.text \notin Mistaken
      <3>1. y.rec = i /\ y.row = Rec(file, d).rows[1]
        BY <2>1, <2>5
      <3>2. Rec(file, i).op = "row" /\ Walked(Rec(file, i))
        BY <2>5 DEF Updates, LogMarked
      <3> QED  BY <3>1, <3>2 DEF Loaded, Compactable, Walked
    <2>6. ASSUME NEW y \in Contents(file), Compactable(y), r = y.row
          PROVE  Plain(r) \/ Updated(r)
      <3>1. y \in Stored(file) /\ Loaded(Rec(file, y.rec))
        BY <2>2
      <3>2. ASSUME NEW i \in RowsIn(file), Unmarked(i), NEW k \in DOMAIN Rec(file, i).rows,
                   y = At(i, k, Rec(file, i).rows[k])
            PROVE  Plain(r)
        BY <2>1, <2>4, <2>6, <3>1, <3>2
      <3>3. ASSUME NEW d \in TombsIn(file), NEW i \in RowsIn(file), Updates(d, i),
                   y = At(i, 1, Rec(file, d).rows[1])
            PROVE  Updated(r)
        BY <2>1, <2>5, <2>6, <3>1, <3>3
      <3> HIDE DEF Plain, Updated
      <3> QED  BY <2>3, <3>1, <3>2, <3>3
    <2>7. ASSUME Plain(r)  PROVE \E y \in Contents(file) : Compactable(y) /\ r = y.row
      <3>0. PICK i \in RowsIn(file) :
                /\ Unmarked(i) /\ Walked(Rec(file, i))
                /\ \E k \in DOMAIN Rec(file, i).rows : r = Rec(file, i).rows[k]
        BY <2>7
      <3>1. PICK k \in DOMAIN Rec(file, i).rows : r = Rec(file, i).rows[k]
        BY <3>0
      <3>2. PICK y : y = At(i, k, Rec(file, i).rows[k])
        OBVIOUS
      <3>3. y \in Stored(file)
        BY <2>3, <3>0, <3>2
      <3>4. Loaded(Rec(file, y.rec)) /\ Compactable(y)
        BY <2>4, <3>0, <3>2
      <3>5. y.row = r
        BY <2>1, <3>1, <3>2
      <3> QED  BY <2>2, <3>3, <3>4, <3>5
    <2>8. ASSUME Updated(r)  PROVE \E y \in Contents(file) : Compactable(y) /\ r = y.row
      <3>1. PICK d \in TombsIn(file), i \in RowsIn(file) :
                Updates(d, i) /\ r = Rec(file, d).rows[1] /\ r.text \notin Mistaken
        BY <2>8
      <3>2. PICK y : y = At(i, 1, Rec(file, d).rows[1])
        OBVIOUS
      <3>3. y \in Stored(file)
        BY <2>3, <3>1, <3>2
      <3>4. y.row = r
        BY <2>1, <3>1, <3>2
      <3>5. Loaded(Rec(file, y.rec)) /\ Compactable(y)
        BY <2>5, <3>1, <3>2, <3>4
      <3> QED  BY <2>2, <3>3, <3>4, <3>5
    <2> HIDE DEF Plain, Updated
    <2> QED  BY <2>6, <2>7, <2>8 DEF RowsOf
  <1> HIDE DEF Plain, Updated
  <1>7. \A r : r \in RowsOf(Contents(s)) <=>
                r \in RowsOf({y \in Contents(file) : Compactable(y)})
    BY <1>5, <1>6
  <1> QED  BY <1>1, <1>7

(* What is read as the rows of records that no DML wrote, and of the others. *)
LEMMA TextsFollow ==
    ASSUME Types, Worded, LogMarked
    PROVE  TextsAsFarAsPrinted
  <1> SUFFICES ASSUME NEW y \in Contents(file)
               PROVE  y.row.text \in IF WrittenAgain(y) THEN Rewritings(TextOf[y.row.id])
                                     ELSE {TextOf[y.row.id]}
    BY DEF TextsAsFarAsPrinted
  <1>1. y \in Stored(file)
    BY ContentsOfStored
  <1>2. \A i, k, x : At(i, k, x).row = x /\ At(i, k, x).rec = i
    BY DEF At
  <1>3. ASSUME NEW i \in RowsIn(file), Unmarked(i), NEW k \in DOMAIN Rec(file, i).rows,
               y = At(i, k, Rec(file, i).rows[k])
        PROVE  y.row.text \in IF WrittenAgain(y) THEN Rewritings(TextOf[y.row.id])
                              ELSE {TextOf[y.row.id]}
    <2>1. IsWorded(Rec(file, i), build) /\ Rec(file, i) \in LogRec
      BY EntryIsWorded
    <2>2. k \in 1..Len(Rec(file, i).rows)
      BY <2>1, RecordFields, LenProperties
    <2>3. y.rec = i /\ y.row = Rec(file, i).rows[k]
      BY <1>2, <1>3
    <2>4. y.row.text \in Rewritings(TextOf[y.row.id])
      BY <2>1, <2>2, <2>3 DEF IsWorded, AsPrinted
    <2>5. ASSUME ~WrittenAgain(y)  PROVE y.row.text = TextOf[y.row.id]
      <3>1. build = "debug" \/ Rec(file, i).op # "row"
        BY <2>3, <2>5 DEF WrittenAgain, Types
      <3>2. Rec(file, i).op \in Batches \/ (Rec(file, i).op = "row" /\ build = "debug")
        BY <3>1, RowsInFacts DEF RowOps
      <3> QED  BY <2>1, <2>2, <2>3, <3>2 DEF IsWorded, AsGiven
    <2> QED  BY <2>4, <2>5
  <1>4. ASSUME NEW d \in TombsIn(file), NEW i \in RowsIn(file), Updates(d, i),
               y = At(i, 1, Rec(file, d).rows[1])
        PROVE  WrittenAgain(y) /\ y.row.text \in Rewritings(TextOf[y.row.id])
    <2>1. y.rec = i /\ y.row = Rec(file, d).rows[1]
      BY <1>2, <1>4
    <2>2. WrittenAgain(y)
      BY <1>4, <2>1 DEF WrittenAgain, OfRecord, Updates
    <2>3. Written(d + 1) /\ Rec(file, d) = file[d + 1].rec /\ Rec(file, d) \in LogRec
      BY TombsInFacts, RecordsFacts
    <2>4. IsWorded(Rec(file, d), build)
      BY <2>3 DEF Worded
    <2>5. Len(Rec(file, d).rows) = 1
      BY <1>4, <2>3, RecordFields DEF Updates
    <2>6. y.row.text \in Rewritings(TextOf[y.row.id])
      BY <2>1, <2>4, <2>5 DEF IsWorded, AsPrinted
    <2> QED  BY <2>2, <2>6
  <1> QED  BY <1>1, <1>3, <1>4, StoredForm

(* The log as a table: with no statement under way every row that was not    *)
(* deleted is stored once, with the value of the last statement that was     *)
(* answered for it (api.c:3184-3487, 1594-1730), and reads as it was         *)
(* ingested, or as its unquoted cells do once a DML printed it; and of the   *)
(* compacted log a query would return the rows it returns, but for those of  *)
(* records that compaction's buffer does not hold (storage.c:399-504).  In   *)
(* either build, while the log is not torn, nothing crashed and no two DMLs  *)
(* overlapped on a row or a batch.                                           *)
THEOREM TableAnswers == Spec => []TableIsWhatWasAnswered
  <1>1. ASSUME LogInv, Marking, AnsweredOnce, Quiet, crashes = 0, Sound(file), ~raced
        PROVE  /\ {<<y.row.id, y.row.v>> : y \in Stored(file)} = RowsAnswered
               /\ \A id \in Ids : Times(Stored(file), id) <= 1
    BY <1>1, QuietAnswers DEF LogInv, Marking, AnsweredOnce
  <1>2. ASSUME LogInv, Marking, ~raced
        PROVE  TextsAsFarAsPrinted
    BY <1>2, MarkingOfLog, TextsFollow DEF LogInv, Marking
  <1>3. ASSUME LogInv, Marking, ~raced
        PROVE  RowsOf(Contents(Compacted(file))) = RowsOf({y \in Contents(file) : Compactable(y)})
    BY <1>3, MarkingOfLog, CompactionLemma DEF LogInv, Marking
  <1>4. LogInv /\ Marking /\ AnsweredOnce => TableIsWhatWasAnswered
    BY <1>1, <1>2, <1>3 DEF TableIsWhatWasAnswered, CompactionKeepsRows
  <1> QED  BY <1>4, LogInvHolds, MarkingHolds, AnsweredHolds, PTL
=============================================================================
