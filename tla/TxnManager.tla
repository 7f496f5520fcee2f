------------------------------ MODULE TxnManager ------------------------------
(***************************************************************************)
(* lib/storage/txn.c: the fixed pool of transactions, and the handlers of  *)
(* src/gateway/api.c that drive it (POST /api/tables/query with BEGIN,     *)
(* COMMIT, ROLLBACK and DML, POST /api/ingest/<table>).                    *)
(*                                                                         *)
(* Every operation but COMMIT runs in one critical section of tm->mu and   *)
(* is one action here.  txn_commit releases the mutex while it applies the *)
(* buffered entries through a pointer into the slot, so it is a small      *)
(* program of the committing connection thread: Commit, then ReadEntry and *)
(* WriteEntry for each entry, then Cleanup.                                *)
(*                                                                         *)
(* An operation's payload is abstracted to who buffered it, where it       *)
(* stands in that transaction and the table it names.                      *)
(***************************************************************************)
EXTENDS Integers, Sequences, FiniteSets, SequencesExt

CONSTANTS
    NSlots,         \* TXN_MAX_ACTIVE
    MaxEntries,     \* TXN_MAX_ENTRIES
    MaxTxn,         \* bound: ids given out by one run of the gateway
    Threads,        \* connection threads that may be inside txn_commit
    Tables,         \* names of engine tables
    NoTable,        \* the empty name a zeroed entry holds
    TimeoutTicker,  \* does anything call txn_manager_timeout_check?
    GaugeFloor      \* bound: how far below zero the model lets txn_active run

ASSUME PoolAssumption ==
    /\ NSlots \in Nat \ {0}
    /\ MaxEntries \in Nat \ {0}
    /\ MaxTxn \in Nat
    /\ TimeoutTicker \in BOOLEAN
    /\ GaugeFloor \in Nat
    /\ NoTable \notin Tables

VARIABLES
    txns,       \* TxnManager.txns: the slots
    next_id,    \* TxnManager.next_id
    tables,     \* g_app.tables: the names hm_get finds
    committer,  \* the local state of txn_commit in each thread
    txn_active, \* metrics->txn_active
    fate,       \* history: what became of each id
    buffered,   \* history: the entries accepted for each id, in order
    applied,    \* history: what each id's COMMIT applied, in order
    exposed,    \* history: ids that exposed a slot or lost a table inside a commit
    dropped     \* history: ids with an acknowledged operation never buffered

vars == <<txns, next_id, tables, committer, txn_active,
          fate, buffered, applied, exposed, dropped>>
history == <<fate, buffered, applied, exposed, dropped>>

NoId == 0                            \* TXN_ID_NONE
Slots == 1..NSlots
TxnIds == 1..MaxTxn
Status == {"ACTIVE", "COMMITTED", "ABORTED"}
Fates == {"unborn", "open", "committing", "ok", "failed", "rolledback", "timedout"}

Entry == [txn : TxnIds, n : 1..MaxEntries, table : Tables]
ZeroEntry == [txn |-> NoId, n |-> 0, table |-> NoTable]
Garbage == [txn |-> NoId, n |-> 1, table |-> NoTable]  \* bytes of a freed arena

(* A slot after memset(slot, 0, sizeof(Txn)): TXN_ACTIVE is 0. *)
EmptyEntries == [i \in 1..MaxEntries |-> ZeroEntry]
ZeroSlot == [id |-> NoId, status |-> "ACTIVE", nentries |-> 0,
             entries |-> EmptyEntries, arena |-> NoId]
FreshSlot(id) == [id |-> id, status |-> "ACTIVE", nentries |-> 0,
                  entries |-> EmptyEntries, arena |-> id]

Idle == [pc |-> "idle", id |-> NoId, slot |-> 0, nentries |-> 0, i |-> 0,
         e |-> ZeroEntry, table_open |-> TRUE, rc |-> 0]

Init ==
    /\ txns = [s \in Slots |-> ZeroSlot]
    /\ next_id = 1
    /\ tables = Tables
    /\ committer = [t \in Threads |-> Idle]
    /\ txn_active = 0
    /\ fate = [x \in TxnIds |-> "unborn"]
    /\ buffered = [x \in TxnIds |-> <<>>]
    /\ applied = [x \in TxnIds |-> <<>>]
    /\ exposed = {}
    /\ dropped = {}

-----------------------------------------------------------------------------
(* Helpers *)

(* The slots find_slot can return for id (ids are never reused: one at most). *)
FindSlotIgnoresStatus(id) == {s \in Slots : txns[s].id = id}     \* mutant
FindSlot(id) == {s \in Slots : txns[s].id = id /\ txns[s].status = "ACTIVE"}

(* The candidates of find_free_slot; it takes the first in index order. *)
FreeSlotsIgnoresActive == Slots                                  \* mutant
FreeSlots == {s \in Slots : txns[s].id = NoId \/ txns[s].status # "ACTIVE"}
FirstFree(s) == s \in FreeSlots /\ \A r \in FreeSlots : s <= r

Issued == 1..(next_id - 1)           \* ids a client can name in X-Txn-Id

(* Threads whose txn_commit still points into slot s. *)
CommittersOn(s) == {t \in Threads : committer[t].pc # "idle" /\ committer[t].slot = s}

(* What txn_rollback, the timeout check and txn_commit's clean-up do to a    *)
(* slot: destroy the arena, zero nentries, give the id back.                 *)
FreedSlot(slot, status) ==
    [id |-> NoId, status |-> status, nentries |-> 0, entries |-> slot.entries, arena |-> NoId]

-----------------------------------------------------------------------------
(* Operations under tm->mu *)

(* txn_begin, called for BEGIN: a fresh id and a fresh arena in the first    *)
(* slot that is empty or not ACTIVE.                                         *)
Begin ==
    \E s \in Slots :
        /\ next_id <= MaxTxn
        /\ FirstFree(s)
        /\ txns' = [txns EXCEPT ![s] = FreshSlot(next_id)]
        /\ next_id' = next_id + 1
        /\ txn_active' = txn_active + 1
        /\ fate' = [fate EXCEPT ![next_id] = "open"]
        /\ exposed' = IF CommittersOn(s) = {} THEN exposed
                     ELSE exposed \union {next_id}
                                 \union {committer[t].id : t \in CommittersOn(s)}
        /\ UNCHANGED <<tables, committer, buffered, applied, dropped>>

(* The slot with one more entry; the guard of the three txn_buffer_*.        *)
HasRoom(s) == txns[s].nentries < MaxEntries
WithEntry(slot, id, tb) ==
    LET e == [txn |-> id, n |-> slot.nentries + 1, table |-> tb] IN
    [id |-> slot.id, status |-> slot.status, nentries |-> slot.nentries + 1,
     entries |-> [slot.entries EXCEPT ![slot.nentries + 1] = e], arena |-> slot.arena]

Buffer(id, tb) ==
    \E s \in FindSlot(id) :
        /\ HasRoom(s)
        /\ txns' = [txns EXCEPT ![s] = WithEntry(txns[s], id, tb)]
        /\ buffered' = [buffered EXCEPT ![id] =
                            Append(@, [txn |-> id, n |-> txns[s].nentries + 1, table |-> tb])]

CannotBuffer(id) == \A s \in FindSlot(id) : ~HasRoom(s)

(* POST /api/ingest under a transaction: the table is created when missing,  *)
(* whatever txn_buffer_insert then answers; a refusal is a 500.              *)
Ingest(id, tb) ==
    /\ tables' = tables \union {tb}
    /\ \/ Buffer(id, tb)
       \/ CannotBuffer(id) /\ tb \notin tables /\ UNCHANGED <<txns, buffered>>
    /\ UNCHANGED <<next_id, committer, txn_active, fate, applied, exposed, dropped>>

(* DELETE / UPDATE under a transaction: exec_stmt ignores what               *)
(* txn_buffer_delete / txn_buffer_update return and counts the row.          *)
Dml(id, tb) ==
    /\ tb \in tables
    /\ \/ Buffer(id, tb) /\ UNCHANGED dropped
       \/ CannotBuffer(id) /\ dropped' = dropped \union {id} /\ UNCHANGED <<txns, buffered>>
    /\ UNCHANGED <<next_id, tables, committer, txn_active, fate, applied, exposed>>

(* ROLLBACK: the handler ignores txn_rollback's answer and always lowers the *)
(* gauge.                                                                    *)
Rollback(id) ==
    /\ txn_active > -GaugeFloor
    /\ txn_active' = txn_active - 1
    /\ \/ \E s \in FindSlot(id) :
            /\ txns' = [txns EXCEPT ![s] = FreedSlot(txns[s], "ABORTED")]
            /\ fate' = [fate EXCEPT ![id] = "rolledback"]
       \/ FindSlot(id) = {} /\ UNCHANGED <<txns, fate>>
    /\ UNCHANGED <<next_id, tables, committer, buffered, applied, exposed, dropped>>

(* txn_manager_timeout_check: begin_ts grows with the id, so the old ones    *)
(* are the ACTIVE ones up to some id.  Nothing in the gateway calls it.      *)
Expired(h) == {s \in Slots : txns[s].status = "ACTIVE" /\ txns[s].id \in 1..h}

TimeoutCheck(h) ==
    LET out == Expired(h) IN
    /\ TimeoutTicker
    /\ out # {}
    /\ txns' = [s \in Slots |-> IF s \in out THEN FreedSlot(txns[s], "ABORTED") ELSE txns[s]]
    /\ fate' = [x \in TxnIds |-> IF \E s \in out : txns[s].id = x
                                 THEN "timedout" ELSE fate[x]]
    /\ UNCHANGED <<next_id, tables, committer, txn_active, buffered, applied, exposed, dropped>>

(* DELETE /api/tables/<name>: the table is closed and leaves g_app.tables.   *)
(* A commit that had looked it up goes on with the closed one.               *)
Writing(tb) == {t \in Threads : committer[t].pc = "write" /\ committer[t].e.table = tb}

DropTable(tb) ==
    /\ tb \in tables
    /\ tables' = tables \ {tb}
    /\ committer' = [t \in Threads |-> IF t \in Writing(tb)
                                       THEN [committer[t] EXCEPT !.table_open = FALSE]
                                       ELSE committer[t]]
    /\ exposed' = exposed \union {committer[t].id : t \in Writing(tb)}
    /\ UNCHANGED <<txns, next_id, txn_active, fate, buffered, applied, dropped>>

-----------------------------------------------------------------------------
(* txn_commit, one connection thread *)

(* The head of for (i = 0; i < nentries && rc == 0; i++), with i from 1.      *)
LoopHeadStopsEarly(id, s, n, i) ==                                \* mutant
    [pc |-> IF i >= n THEN "cleanup" ELSE "read", id |-> id, slot |-> s,
     nentries |-> n, i |-> i, e |-> ZeroEntry, table_open |-> TRUE, rc |-> 0]
LoopHead(id, s, n, i) ==
    [pc |-> IF i > n THEN "cleanup" ELSE "read", id |-> id, slot |-> s,
     nentries |-> n, i |-> i, e |-> ZeroEntry, table_open |-> TRUE, rc |-> 0]
Failed(c) == [c EXCEPT !.rc = -1, !.pc = "cleanup"]

(* Its first critical section: the slot is marked COMMITTED; nentries is     *)
(* copied, the entries are not (a pointer to them is kept).                  *)
Commit(t, id) ==
    \E s \in FindSlot(id) :
        /\ committer[t].pc = "idle"
        /\ txns' = [txns EXCEPT ![s].status = "COMMITTED"]
        /\ committer' = [committer EXCEPT ![t] = LoopHead(id, s, txns[s].nentries, 1)]
        /\ fate' = [fate EXCEPT ![id] = "committing"]
        /\ UNCHANGED <<next_id, tables, txn_active, buffered, applied, exposed, dropped>>

(* The call of apply_txn_entry: entries[i] is read through the pointer, and  *)
(* an unknown table (the empty one of a zeroed entry, too) is rc = -1.       *)
ReadEntry(t) ==
    LET c == committer[t]
        e == txns[c.slot].entries[c.i]
        d == IF e.table \in tables THEN [c EXCEPT !.e = e, !.pc = "write"]
             ELSE Failed(c) IN
    /\ c.pc = "read"
    /\ committer' = [committer EXCEPT ![t] = d]
    /\ UNCHANGED <<txns, next_id, tables, txn_active, history>>

(* table_append / table_delete / table_update: reads the payload in the      *)
(* arena (anything at all if that arena or the Table is gone), and may fail. *)
PayloadsRead(t) ==
    LET c == committer[t] IN
    IF txns[c.slot].arena = c.e.txn /\ c.table_open THEN {c.e} ELSE {c.e, Garbage}

WriteEntry(t) ==
    LET c == committer[t] IN
    /\ c.pc = "write"
    /\ \/ \E v \in PayloadsRead(t) :
            /\ applied' = [applied EXCEPT ![c.id] = Append(@, v)]
            /\ committer' = [committer EXCEPT ![t] = LoopHead(c.id, c.slot, c.nentries, c.i + 1)]
       \/ /\ committer' = [committer EXCEPT ![t] = Failed(c)]
          /\ UNCHANGED applied
    /\ UNCHANGED <<txns, next_id, tables, txn_active, fate, buffered, exposed, dropped>>

(* The second critical section, on the slot it was given, whoever has it     *)
(* now; then the handler lowers the gauge, on success only.                  *)
Cleanup(t) ==
    LET c == committer[t] IN
    /\ c.pc = "cleanup"
    /\ txns' = [txns EXCEPT ![c.slot] = FreedSlot(@, @.status)]
    /\ committer' = [committer EXCEPT ![t] = Idle]
    /\ fate' = [fate EXCEPT ![c.id] = IF c.rc = 0 THEN "ok" ELSE "failed"]
    /\ txn_active' = IF c.rc = 0 THEN txn_active - 1 ELSE txn_active
    /\ UNCHANGED <<next_id, tables, buffered, applied, exposed, dropped>>

CommitStep(t) == ReadEntry(t) \/ WriteEntry(t) \/ Cleanup(t)

Next ==
    \/ Begin
    \/ \E id \in Issued :
        \/ Rollback(id)
        \/ \E tb \in Tables : Ingest(id, tb) \/ Dml(id, tb)
        \/ \E t \in Threads : Commit(t, id)
    \/ \E h \in TxnIds : TimeoutCheck(h)
    \/ \E tb \in Tables : DropTable(tb)
    \/ \E t \in Threads : CommitStep(t)

(* A thread inside txn_commit is not stopped by anything; a ticker, if there *)
(* were one, would come back.                                                *)
Fairness ==
    /\ \A t \in Threads : WF_vars(CommitStep(t))
    /\ \A h \in TxnIds : WF_vars(TimeoutCheck(h))

Spec == Init /\ [][Next]_vars
FairSpec == Spec /\ Fairness

-----------------------------------------------------------------------------
(* Properties *)

(* Types of the state: nentries never passes the array (txn.c:204).          *)
SlotType == [id : TxnIds \union {NoId}, status : Status, nentries : 0..MaxEntries,
             entries : [1..MaxEntries -> Entry \union {ZeroEntry}],
             arena : TxnIds \union {NoId}]
CommitterType == [pc : {"idle", "read", "write", "cleanup"}, id : TxnIds \union {NoId},
                  slot : Slots \union {0}, nentries : 0..MaxEntries, i : 0..(MaxEntries + 1),
                  e : Entry \union {ZeroEntry}, table_open : BOOLEAN, rc : {0, -1}]
TypeOK ==
    /\ txns \in [Slots -> SlotType]
    /\ next_id \in 1..(MaxTxn + 1)
    /\ tables \subseteq Tables
    /\ committer \in [Threads -> CommitterType]
    /\ txn_active \in Int
    /\ fate \in [TxnIds -> Fates]
    /\ buffered \in [TxnIds -> Seq(Entry)]
    /\ applied \in [TxnIds -> Seq(Entry \union {ZeroEntry, Garbage})]
    /\ exposed \subseteq TxnIds
    /\ dropped \subseteq TxnIds

(* Two COMMITs of one id (a client retrying, two connections with the same   *)
(* X-Txn-Id): one thread at most is ever applying it, and never one that is  *)
(* over (find_slot requires ACTIVE, txn.c:20).                               *)
OneCommitter ==
    \A t \in Threads : committer[t].pc # "idle" =>
        /\ fate[committer[t].id] = "committing"
        /\ \A u \in Threads \ {t} : committer[u].pc # "idle" =>
                committer[u].id # committer[t].id

(* What a transaction buffered is settled when its COMMIT starts ("no new    *)
(* operations can be buffered", txn.c:162) or when it is over.               *)
NoBufferingAfterCommit ==
    [][\A id \in TxnIds : fate[id] # "open" => buffered'[id] = buffered[id]]_vars

(* As long as no other transaction was put in its slot and no table was      *)
(* dropped under it, a COMMIT applies a prefix of what was buffered, in      *)
(* order, each entry once, and answers success for the whole of it only.     *)
CommitAppliesWhatWasBuffered ==
    \A id \in TxnIds \ exposed :
        /\ IsPrefix(applied[id], buffered[id])
        /\ fate[id] = "ok" => applied[id] = buffered[id]

(* With the same proviso for every transaction involved: what was rolled     *)
(* back or timed out stays so (no retried COMMIT revives it, txn.c:20), and  *)
(* none of its operations reaches a table, whoever's COMMIT would carry it.  *)
DiscardedNeverApplied ==
    [][\A id \in TxnIds \ exposed' :
        /\ fate[id] \in {"rolledback", "timedout"} => fate'[id] = fate[id]
        /\ fate'[id] \in {"rolledback", "timedout"} =>
            \A by \in TxnIds \ exposed' : \A i \in 1..Len(applied'[by]) :
                applied'[by][i].txn # id]_vars

(* With the same proviso, an open transaction is found in its slot with all  *)
(* it buffered and a live arena: no other session's BEGIN, ROLLBACK, COMMIT  *)
(* or time-out takes it away (txn.h:52).                                     *)
OpenTxnIsKept ==
    \A id \in TxnIds \ exposed : fate[id] = "open" =>
        \E s \in FindSlot(id) :
            /\ txns[s].arena = id
            /\ SubSeq(txns[s].entries, 1, txns[s].nentries) = buffered[id]

-----------------------------------------------------------------------------
(* What comments promise and the code does not keep: the run TxnSharedSlot    *)
(* shows the first.                                                          *)

(* "Make local copy of entries so we can release the mutex during I/O"       *)
(* (txn.c:165): what a COMMIT applies is what its own client buffered.       *)
CommitUsesItsOwnCopy ==
    \A id \in TxnIds : \A i \in 1..Len(applied[id]) : applied[id][i].txn = id

(* The arena "lives from BEGIN to COMMIT/ROLLBACK" (txn.h:52).               *)
ArenaLivesWhileOpen ==
    \A id \in TxnIds : fate[id] = "open" => \E s \in Slots : txns[s].arena = id

(* Operations are applied "atomically on COMMIT" (txn.h:4-6, in Russian).    *)
CommitIsAtomic ==
    \A id \in TxnIds : fate[id] = "failed" => applied[id] = <<>>

(* dfo_txn_active is "Currently open transactions" (api.c:8060).             *)
GaugeCountsOpen ==
    (\A t \in Threads : committer[t].pc = "idle") =>
        txn_active = Cardinality({id \in TxnIds : fate[id] = "open"})

(* "Called periodically" (txn.c:261, in Russian): a transaction its       *)
(* client forgot does not hold a slot for ever.  True under FairSpec with    *)
(* TimeoutTicker, which the gateway does not have.                           *)
ForgottenTxnFreesSlot ==
    \A s \in Slots, id \in TxnIds :
        (txns[s].id = id /\ txns[s].status = "ACTIVE")
            ~> ~(txns[s].id = id /\ txns[s].status = "ACTIVE")

(* A DELETE / UPDATE answers "the number of affected rows" (api.c:3108): a   *)
(* row it counted was buffered.                                              *)
CountedRowsAreBuffered == dropped = {}

=============================================================================
