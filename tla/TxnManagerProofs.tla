--------------------------- MODULE TxnManagerProofs ---------------------------
(***************************************************************************)
(* Theorems about TxnManager for any number of slots, threads, entries and *)
(* transactions.  First types, at most one COMMIT per transaction id, and  *)
(* no buffering once a COMMIT has started.  Then what COMMIT applies and   *)
(* what an open transaction keeps: the invariant ties together the three   *)
(* places that hold a transaction, its slot, the local state of the thread *)
(* that commits it, and the history of what was buffered and applied.      *)
(***************************************************************************)
EXTENDS TxnManager, SequenceTheorems, TLAPS

USE PoolAssumption DEF PoolAssumption

(* A slot that is emptied or gets an entry is a slot.                       *)
LEMMA FreedSlotType ==
    ASSUME NEW slot \in SlotType, NEW st \in Status
    PROVE  /\ FreedSlot(slot, st) \in SlotType
           /\ FreedSlot(slot, st).id = NoId
           /\ FreedSlot(slot, st).status = st
  BY DEF FreedSlot, SlotType, Status, NoId

LEMMA WithEntryType ==
    ASSUME NEW slot \in SlotType, slot.nentries < MaxEntries,
           NEW id \in TxnIds, NEW tb \in Tables
    PROVE  /\ WithEntry(slot, id, tb) \in SlotType
           /\ WithEntry(slot, id, tb).id = slot.id
           /\ WithEntry(slot, id, tb).status = slot.status
           /\ [txn |-> id, n |-> slot.nentries + 1, table |-> tb] \in Entry
  <1>1. slot.nentries \in 0..MaxEntries /\ slot.nentries + 1 \in 1..MaxEntries
    BY DEF SlotType
  <1>2. [txn |-> id, n |-> slot.nentries + 1, table |-> tb] \in Entry
    BY <1>1 DEF Entry
  <1>3. [slot.entries EXCEPT ![slot.nentries + 1] =
            [txn |-> id, n |-> slot.nentries + 1, table |-> tb]]
                \in [1..MaxEntries -> Entry \union {ZeroEntry}]
    BY <1>2 DEF SlotType
  <1> QED  BY <1>1, <1>2, <1>3 DEF WithEntry, SlotType

(* The records txn_commit keeps at the head of its loop and after a failure. *)
LEMMA LoopHeadType ==
    ASSUME NEW id \in TxnIds, NEW s \in Slots, NEW n \in 0..MaxEntries,
           NEW i \in 1..(MaxEntries + 1)
    PROVE  /\ LoopHead(id, s, n, i) \in CommitterType
           /\ LoopHead(id, s, n, i).id = id /\ LoopHead(id, s, n, i).slot = s
           /\ LoopHead(id, s, n, i).pc \in {"read", "cleanup"}
           /\ LoopHead(id, s, n, i).pc = "read" =>
                LoopHead(id, s, n, i).i \in 1..LoopHead(id, s, n, i).nentries
  BY DEF LoopHead, CommitterType

LEMMA FailedType ==
    ASSUME NEW c \in CommitterType
    PROVE  /\ Failed(c) \in CommitterType
           /\ Failed(c).pc = "cleanup"
           /\ Failed(c).id = c.id /\ Failed(c).slot = c.slot
  BY DEF Failed, CommitterType

(* Where a commit that is not over stands: inside a slot, inside its array. *)
CommitterInRange ==
    \A t \in Threads : committer[t].pc # "idle" =>
        /\ committer[t].id \in TxnIds
        /\ committer[t].slot \in Slots
        /\ committer[t].pc \in {"read", "write"} => committer[t].i \in 1..committer[t].nentries
        /\ committer[t].pc = "write" => committer[t].e \in Entry

TypeInv == TypeOK /\ CommitterInRange

-----------------------------------------------------------------------------
(* Types.                                                                   *)

LEMMA TypeInit == Init => TypeInv
  <1> SUFFICES ASSUME Init PROVE TypeInv
    OBVIOUS
  <1>1. ZeroSlot \in SlotType
    BY DEF ZeroSlot, EmptyEntries, SlotType, Status, NoId
  <1>2. Idle \in CommitterType /\ Idle.pc = "idle"
    BY DEF Idle, CommitterType, NoId
  <1>3. TypeOK
    BY <1>1, <1>2 DEF Init, TypeOK, Fates
  <1>4. CommitterInRange
    BY <1>2 DEF Init, CommitterInRange
  <1> QED  BY <1>3, <1>4 DEF TypeInv

LEMMA TypeNext == TypeInv /\ [Next]_vars => TypeInv'
  <1> SUFFICES ASSUME TypeInv, [Next]_vars PROVE TypeInv'
    OBVIOUS
  <1> USE DEF TypeInv
  <1>1. \A s \in Slots : txns[s] \in SlotType
    BY DEF TypeOK
  <1>2. \A t \in Threads : committer[t] \in CommitterType
    BY DEF TypeOK
  <1>3. CASE Begin
    <2> PICK s \in Slots : Begin!(s)
      BY <1>3 DEF Begin
    <2>1. next_id \in TxnIds /\ next_id + 1 \in 1..(MaxTxn + 1)
      BY DEF TypeOK, TxnIds
    <2>2. FreshSlot(next_id) \in SlotType
      BY <2>1 DEF FreshSlot, EmptyEntries, SlotType, Status
    <2>3. exposed' \subseteq TxnIds
      <3>1. \A t \in CommittersOn(s) : committer[t].id \in TxnIds
        BY DEF CommittersOn, CommitterInRange
      <3> QED  BY <2>1, <3>1 DEF TypeOK
    <2>4. TypeOK'
      BY <2>1, <2>2, <2>3 DEF TypeOK, Fates
    <2>5. CommitterInRange'
      BY DEF CommitterInRange
    <2> QED  BY <2>4, <2>5
  <1>4. ASSUME NEW id \in Issued, NEW tb \in Tables, Buffer(id, tb)
        PROVE  /\ txns' \in [Slots -> SlotType]
               /\ buffered' \in [TxnIds -> Seq(Entry)]
    <2>1. id \in TxnIds
      BY DEF Issued, TxnIds, TypeOK
    <2>2. PICK s \in FindSlot(id) : Buffer(id, tb)!(s)
      BY <1>4 DEF Buffer
    <2>3. s \in Slots /\ txns[s] \in SlotType /\ txns[s].nentries < MaxEntries
      BY <2>2, <1>1 DEF FindSlot, HasRoom, SlotType
    <2>4. /\ WithEntry(txns[s], id, tb) \in SlotType
          /\ [txn |-> id, n |-> txns[s].nentries + 1, table |-> tb] \in Entry
      BY <2>1, <2>3, WithEntryType
    <2> QED  BY <2>1, <2>2, <2>3, <2>4 DEF TypeOK
  <1>5. ASSUME NEW id \in Issued, NEW tb \in Tables, Ingest(id, tb)
        PROVE  TypeInv'
    <2>1. txns' \in [Slots -> SlotType] /\ buffered' \in [TxnIds -> Seq(Entry)]
      BY <1>4, <1>5 DEF Ingest, TypeOK
    <2> QED  BY <1>5, <2>1 DEF Ingest, TypeOK, CommitterInRange
  <1>6. ASSUME NEW id \in Issued, NEW tb \in Tables, Dml(id, tb)
        PROVE  TypeInv'
    <2>1. txns' \in [Slots -> SlotType] /\ buffered' \in [TxnIds -> Seq(Entry)]
      BY <1>4, <1>6 DEF Dml, TypeOK
    <2>2. id \in TxnIds
      BY DEF Issued, TxnIds, TypeOK
    <2> QED  BY <1>6, <2>1, <2>2 DEF Dml, TypeOK, CommitterInRange
  <1>7. ASSUME NEW id \in Issued, Rollback(id) PROVE TypeInv'
    <2>1. \A s \in Slots : FreedSlot(txns[s], "ABORTED") \in SlotType
      BY <1>1, FreedSlotType DEF Status
    <2>2. txns' \in [Slots -> SlotType] /\ fate' \in [TxnIds -> Fates]
      <3>1. CASE FindSlot(id) = {} /\ UNCHANGED <<txns, fate>>
        BY <3>1 DEF TypeOK
      <3>2. ASSUME NEW s \in FindSlot(id),
                   txns' = [txns EXCEPT ![s] = FreedSlot(txns[s], "ABORTED")],
                   fate' = [fate EXCEPT ![id] = "rolledback"]
            PROVE  txns' \in [Slots -> SlotType] /\ fate' \in [TxnIds -> Fates]
        BY <2>1, <3>2 DEF TypeOK, Fates, FindSlot
      <3> QED  BY <1>7, <3>1, <3>2 DEF Rollback
    <2>3. txn_active' \in Int
      BY <1>7 DEF Rollback, TypeOK
    <2> QED  BY <1>7, <2>2, <2>3 DEF Rollback, TypeOK, CommitterInRange
  <1>8. ASSUME NEW h \in TxnIds, TimeoutCheck(h) PROVE TypeInv'
    <2>1. \A s \in Slots : FreedSlot(txns[s], "ABORTED") \in SlotType
      BY <1>1, FreedSlotType DEF Status
    <2>2. txns' \in [Slots -> SlotType]
      BY <1>1, <1>8, <2>1 DEF TimeoutCheck
    <2>3. fate' \in [TxnIds -> Fates]
      BY <1>8 DEF TimeoutCheck, TypeOK, Fates
    <2> QED  BY <1>8, <2>2, <2>3 DEF TimeoutCheck, TypeOK, CommitterInRange
  <1>9. ASSUME NEW tb \in Tables, DropTable(tb) PROVE TypeInv'
    <2>1. \A t \in Threads : [committer[t] EXCEPT !.table_open = FALSE] \in CommitterType
      BY <1>2 DEF CommitterType
    <2>2. committer' \in [Threads -> CommitterType]
      BY <1>2, <1>9, <2>1 DEF DropTable
    <2>3. exposed' \subseteq TxnIds
      BY <1>9 DEF DropTable, Writing, CommitterInRange, TypeOK
    <2>4. CommitterInRange'
      <3>1. \A t \in Threads : /\ committer'[t].pc = committer[t].pc
                               /\ committer'[t].id = committer[t].id
                               /\ committer'[t].slot = committer[t].slot
                               /\ committer'[t].i = committer[t].i
                               /\ committer'[t].nentries = committer[t].nentries
                               /\ committer'[t].e = committer[t].e
        BY <1>2, <1>9 DEF DropTable, CommitterType
      <3> QED  BY <3>1 DEF CommitterInRange
    <2> QED  BY <1>9, <2>2, <2>3, <2>4 DEF DropTable, TypeOK
  <1>10. ASSUME NEW t \in Threads, NEW id \in Issued, Commit(t, id) PROVE TypeInv'
    <2> PICK s \in FindSlot(id) : Commit(t, id)!(s)
      BY <1>10 DEF Commit
    <2>1. s \in Slots /\ id \in TxnIds /\ txns[s] \in SlotType
      BY <1>1 DEF FindSlot, Issued, TxnIds, TypeOK
    <2>2. [txns[s] EXCEPT !.status = "COMMITTED"] \in SlotType
      BY <2>1 DEF SlotType, Status
    <2>3. txns[s].nentries \in 0..MaxEntries /\ 1 \in 1..(MaxEntries + 1)
      BY <2>1 DEF SlotType
    <2> DEFINE c == LoopHead(id, s, txns[s].nentries, 1)
    <2>4. /\ c \in CommitterType /\ c.id = id /\ c.slot = s /\ c.pc \in {"read", "cleanup"}
          /\ c.pc = "read" => c.i \in 1..c.nentries
      BY <2>1, <2>3, LoopHeadType
    <2> HIDE DEF c
    <2>5. committer' = [committer EXCEPT ![t] = c]
      BY DEF c
    <2>6. TypeOK'
      BY <2>1, <2>2, <2>4, <2>5 DEF TypeOK, Fates
    <2>7. CommitterInRange'
      BY <2>1, <2>4, <2>5 DEF CommitterInRange, TypeOK
    <2> QED  BY <2>6, <2>7
  <1>11. ASSUME NEW t \in Threads, ReadEntry(t) PROVE TypeInv'
    <2> DEFINE c == committer[t]
               e == txns[c.slot].entries[c.i]
    <2>1. c \in CommitterType /\ c.slot \in Slots /\ c.i \in 1..MaxEntries
      BY <1>2, <1>11 DEF ReadEntry, CommitterInRange, CommitterType
    <2>2. e \in Entry \union {ZeroEntry}
      BY <1>1, <2>1 DEF SlotType
    <2>3. e.table \in tables => e \in Entry
      BY <2>2 DEF ZeroEntry, TypeOK
    <2>4. CASE e.table \in tables
      <3>1. committer' = [committer EXCEPT ![t] = [c EXCEPT !.e = e, !.pc = "write"]]
        BY <1>11, <2>4 DEF ReadEntry
      <3>2. e \in Entry
        BY <2>3, <2>4
      <3> HIDE DEF e
      <3>3. [c EXCEPT !.e = e, !.pc = "write"] \in CommitterType
        BY <2>1, <3>2 DEF CommitterType
      <3>4. /\ [c EXCEPT !.e = e, !.pc = "write"].id = c.id
            /\ [c EXCEPT !.e = e, !.pc = "write"].slot = c.slot
            /\ [c EXCEPT !.e = e, !.pc = "write"].i = c.i
            /\ [c EXCEPT !.e = e, !.pc = "write"].nentries = c.nentries
            /\ [c EXCEPT !.e = e, !.pc = "write"].e = e
        BY <2>1 DEF CommitterType
      <3>5. TypeOK'
        BY <1>11, <3>1, <3>3 DEF ReadEntry, TypeOK, history
      <3>6. c.pc = "read"
        BY <1>11 DEF ReadEntry
      <3>7. CommitterInRange'
        BY <2>1, <3>1, <3>2, <3>4, <3>6 DEF CommitterInRange, TypeOK
      <3> QED  BY <3>5, <3>7
    <2>5. CASE e.table \notin tables
      <3>1. committer' = [committer EXCEPT ![t] = Failed(c)]
        BY <1>11, <2>5 DEF ReadEntry
      <3>2. Failed(c) \in CommitterType /\ Failed(c).pc = "cleanup"
            /\ Failed(c).id = c.id /\ Failed(c).slot = c.slot
        BY <2>1, FailedType
      <3>3. TypeOK'
        BY <1>11, <3>1, <3>2 DEF ReadEntry, TypeOK, history
      <3>4. c.pc = "read"
        BY <1>11 DEF ReadEntry
      <3>5. CommitterInRange'
        BY <2>1, <3>1, <3>2, <3>4 DEF CommitterInRange, TypeOK
      <3> QED  BY <3>3, <3>5
    <2> QED  BY <2>4, <2>5
  <1>12. ASSUME NEW t \in Threads, WriteEntry(t) PROVE TypeInv'
    <2> DEFINE c == committer[t]
    <2>1. /\ c \in CommitterType /\ c.pc = "write" /\ c.id \in TxnIds /\ c.slot \in Slots
          /\ c.i \in 1..MaxEntries /\ c.e \in Entry /\ c.nentries \in 0..MaxEntries
      BY <1>2, <1>12 DEF WriteEntry, CommitterInRange, CommitterType
    <2>2. CASE committer' = [committer EXCEPT ![t] = Failed(c)] /\ UNCHANGED applied
      <3>1. Failed(c) \in CommitterType /\ Failed(c).pc = "cleanup"
            /\ Failed(c).id = c.id /\ Failed(c).slot = c.slot
        BY <2>1, FailedType
      <3>2. TypeOK'
        BY <1>12, <2>2, <3>1 DEF WriteEntry, TypeOK
      <3>3. CommitterInRange'
        BY <2>1, <2>2, <3>1 DEF CommitterInRange, TypeOK
      <3> QED  BY <3>2, <3>3
    <2>3. ASSUME NEW v \in PayloadsRead(t),
                 applied' = [applied EXCEPT ![c.id] = Append(@, v)],
                 committer' = [committer EXCEPT ![t] =
                                  LoopHead(c.id, c.slot, c.nentries, c.i + 1)]
          PROVE  TypeInv'
      <3> DEFINE d == LoopHead(c.id, c.slot, c.nentries, c.i + 1)
      <3>1. /\ d \in CommitterType /\ d.id = c.id /\ d.slot = c.slot
            /\ d.pc \in {"read", "cleanup"}
            /\ d.pc = "read" => d.i \in 1..d.nentries
        BY <2>1, LoopHeadType
      <3> HIDE DEF d
      <3>2. committer' = [committer EXCEPT ![t] = d]
        BY <2>3 DEF d
      <3>3. v \in Entry \union {ZeroEntry, Garbage}
        BY <2>1 DEF PayloadsRead
      <3>4. applied' \in [TxnIds -> Seq(Entry \union {ZeroEntry, Garbage})]
        BY <2>1, <2>3, <3>3 DEF TypeOK
      <3>5. TypeOK'
        BY <1>12, <3>1, <3>2, <3>4 DEF WriteEntry, TypeOK
      <3>6. CommitterInRange'
        BY <2>1, <3>1, <3>2 DEF CommitterInRange, TypeOK
      <3> QED  BY <3>5, <3>6
    <2> QED  BY <1>12, <2>2, <2>3 DEF WriteEntry
  <1>13. ASSUME NEW t \in Threads, Cleanup(t) PROVE TypeInv'
    <2> DEFINE c == committer[t]
    <2>1. c \in CommitterType /\ c.slot \in Slots /\ c.id \in TxnIds /\ c.pc = "cleanup"
      BY <1>2, <1>13 DEF Cleanup, CommitterInRange, CommitterType
    <2>2. FreedSlot(txns[c.slot], txns[c.slot].status) \in SlotType
      BY <1>1, <2>1, FreedSlotType DEF SlotType
    <2>3. Idle \in CommitterType /\ Idle.pc = "idle"
      BY DEF Idle, CommitterType, NoId
    <2>4. TypeOK'
      BY <1>13, <2>1, <2>2, <2>3 DEF Cleanup, TypeOK, Fates
    <2>5. CommitterInRange'
      BY <1>13, <2>3 DEF Cleanup, CommitterInRange, TypeOK
    <2> QED  BY <2>4, <2>5
  <1>14. CASE UNCHANGED vars
    BY <1>14 DEF vars, TypeOK, CommitterInRange
  <1> QED
    BY <1>3, <1>5, <1>6, <1>7, <1>8, <1>9, <1>10, <1>11, <1>12, <1>13, <1>14
    DEF Next, CommitStep

(* The state keeps its types; in particular a commit that is under way       *)
(* always points into the pool and inside the entries array (txn.c:169).     *)
THEOREM TypeCorrect == Spec => []TypeOK
  <1>1. Spec => []TypeInv
    BY TypeInit, TypeNext, PTL DEF Spec
  <1> QED  BY <1>1, PTL DEF TypeInv

-----------------------------------------------------------------------------
(* At most one COMMIT per id.  OneCommitter alone is not inductive: it needs *)
(* that an id names one slot, that an ACTIVE slot belongs to an open         *)
(* transaction, and that ids are fresh.                                      *)

IdHasOneSlot ==
    \A r, s \in Slots : txns[r].id # NoId /\ txns[r].id = txns[s].id => r = s
ActiveIsOpen ==
    \A s \in Slots : txns[s].id # NoId /\ txns[s].status = "ACTIVE" => fate[txns[s].id] = "open"
IdsAreFresh ==
    /\ \A s \in Slots : txns[s].id < next_id
    /\ \A x \in TxnIds : x >= next_id => fate[x] = "unborn"

CommitInv == TypeInv /\ IdHasOneSlot /\ ActiveIsOpen /\ IdsAreFresh /\ OneCommitter

LEMMA CommitInit == Init => CommitInv
  <1> SUFFICES ASSUME Init PROVE CommitInv
    OBVIOUS
  <1>1. TypeInv
    BY TypeInit
  <1>2. \A s \in Slots : txns[s].id = NoId
    BY DEF Init, ZeroSlot
  <1>3. \A t \in Threads : committer[t].pc = "idle"
    BY DEF Init, Idle
  <1>4. IdHasOneSlot /\ ActiveIsOpen
    BY <1>2 DEF IdHasOneSlot, ActiveIsOpen
  <1>5. IdsAreFresh
    BY <1>2 DEF IdsAreFresh, NoId, Init
  <1>6. OneCommitter
    BY <1>3 DEF OneCommitter
  <1> QED  BY <1>1, <1>4, <1>5, <1>6 DEF CommitInv

(* What find_slot finds belongs to an open transaction, and is one slot.    *)
LEMMA FoundIsOpen ==
    ASSUME CommitInv, NEW id \in Issued, NEW s \in FindSlot(id)
    PROVE  /\ s \in Slots /\ id \in TxnIds /\ id # NoId
           /\ txns[s].id = id /\ txns[s].status = "ACTIVE" /\ txns[s] \in SlotType
           /\ fate[id] = "open"
           /\ \A r \in Slots : txns[r].id = id => r = s
           /\ \A t \in Threads : committer[t].pc # "idle" => committer[t].id # id
  <1>1. s \in Slots /\ txns[s].id = id /\ txns[s].status = "ACTIVE"
    BY DEF FindSlot
  <1>2. id \in TxnIds /\ id # NoId
    BY DEF CommitInv, TypeInv, TypeOK, Issued, TxnIds, NoId
  <1>3. fate[id] = "open"
    BY <1>1, <1>2 DEF CommitInv, ActiveIsOpen
  <1>4. \A t \in Threads : committer[t].pc # "idle" => committer[t].id # id
    BY <1>3 DEF CommitInv, OneCommitter
  <1>5. \A r \in Slots : txns[r].id = id => r = s
    BY <1>1, <1>2 DEF CommitInv, IdHasOneSlot
  <1>6. txns[s] \in SlotType
    BY <1>1 DEF CommitInv, TypeInv, TypeOK
  <1> QED  BY <1>1, <1>2, <1>3, <1>4, <1>5, <1>6

LEMMA CommitNext == CommitInv /\ [Next]_vars => CommitInv'
  <1> SUFFICES ASSUME CommitInv, [Next]_vars PROVE CommitInv'
    OBVIOUS
  <1>0. TypeInv /\ TypeInv'
    BY TypeNext DEF CommitInv
  <1>T. /\ next_id \in 1..(MaxTxn + 1)
        /\ \A s \in Slots : txns[s] \in SlotType /\ txns[s].id \in TxnIds \union {NoId}
        /\ \A t \in Threads : committer[t] \in CommitterType
        /\ fate \in [TxnIds -> Fates]
    BY <1>0 DEF TypeInv, TypeOK, SlotType
  <1>1. CASE Begin
    <2> PICK s \in Slots : Begin!(s)
      BY <1>1 DEF Begin
    <2>1. next_id \in TxnIds /\ next_id # NoId
      BY <1>T DEF TxnIds, NoId
    <2>2. \A r \in Slots : txns'[r] = IF r = s THEN FreshSlot(next_id) ELSE txns[r]
      BY <1>T, <1>0 DEF TypeInv, TypeOK
    <2>3. /\ FreshSlot(next_id).id = next_id /\ FreshSlot(next_id).status = "ACTIVE"
      BY DEF FreshSlot
    <2>4. \A r \in Slots : txns[r].id # next_id
      BY <1>T, <2>1 DEF CommitInv, IdsAreFresh, TxnIds
    <2>5. IdHasOneSlot'
      BY <2>2, <2>3, <2>4 DEF CommitInv, IdHasOneSlot
    <2>6. \A x \in TxnIds : fate'[x] = IF x = next_id THEN "open" ELSE fate[x]
      BY <1>T
    <2>7. ActiveIsOpen'
      BY <1>T, <2>1, <2>2, <2>3, <2>4, <2>6 DEF CommitInv, ActiveIsOpen
    <2>8. IdsAreFresh'
      BY <1>T, <2>1, <2>2, <2>3, <2>6 DEF CommitInv, IdsAreFresh, TxnIds, NoId
    <2>9. fate[next_id] = "unborn"
      BY <2>1 DEF CommitInv, IdsAreFresh, TxnIds
    <2>10. OneCommitter'
      BY <1>0, <2>1, <2>6, <2>9 DEF CommitInv, OneCommitter, TypeInv, CommitterInRange
    <2> QED  BY <1>0, <2>5, <2>7, <2>8, <2>10 DEF CommitInv
  <1>2. ASSUME NEW id \in Issued, NEW tb \in Tables, Buffer(id, tb), UNCHANGED <<next_id, fate, committer>>
        PROVE  CommitInv'
    <2> PICK s \in FindSlot(id) : Buffer(id, tb)!(s)
      BY <1>2 DEF Buffer
    <2>1. s \in Slots
      BY FoundIsOpen
    <2>2. WithEntry(txns[s], id, tb).id = txns[s].id
          /\ WithEntry(txns[s], id, tb).status = txns[s].status
      BY DEF WithEntry
    <2>3. \A r \in Slots : txns'[r].id = txns[r].id /\ txns'[r].status = txns[r].status
      BY <1>0, <2>1, <2>2 DEF TypeInv, TypeOK
    <2> QED  BY <1>0, <1>2, <2>3 DEF CommitInv, IdHasOneSlot, ActiveIsOpen, IdsAreFresh, OneCommitter
  <1>3. ASSUME UNCHANGED <<txns, next_id, fate, committer>>
        PROVE  CommitInv'
    BY <1>0, <1>3 DEF CommitInv, IdHasOneSlot, ActiveIsOpen, IdsAreFresh, OneCommitter
  <1>4. ASSUME NEW id \in Issued, Rollback(id) PROVE CommitInv'
    <2>1. CASE FindSlot(id) = {} /\ UNCHANGED <<txns, fate>>
      BY <1>3, <1>4, <2>1 DEF Rollback
    <2>2. ASSUME NEW s \in FindSlot(id),
                 txns' = [txns EXCEPT ![s] = FreedSlot(txns[s], "ABORTED")],
                 fate' = [fate EXCEPT ![id] = "rolledback"]
          PROVE  CommitInv'
      <3>1. s \in Slots /\ id \in TxnIds /\ txns[s].id = id
            /\ \A r \in Slots : txns[r].id = id => r = s
            /\ \A t \in Threads : committer[t].pc # "idle" => committer[t].id # id
        BY FoundIsOpen
      <3>2. \A r \in Slots : IF r = s THEN txns'[r].id = NoId ELSE txns'[r] = txns[r]
        BY <1>0, <2>2, <3>1 DEF TypeInv, TypeOK, FreedSlot
      <3>3. \A x \in TxnIds : x # id => fate'[x] = fate[x]
        BY <2>2, <1>T
      <3>4. id < next_id /\ NoId < next_id
        BY <1>T DEF Issued, NoId
      <3>5. IdHasOneSlot' /\ ActiveIsOpen'
        BY <1>T, <3>1, <3>2, <3>3 DEF CommitInv, IdHasOneSlot, ActiveIsOpen
      <3>6. IdsAreFresh'
        BY <1>4, <1>T, <3>2, <3>3, <3>4 DEF Rollback, CommitInv, IdsAreFresh, TxnIds
      <3>7. OneCommitter'
        BY <1>0, <1>4, <3>1, <3>3 DEF Rollback, CommitInv, OneCommitter, TypeInv, CommitterInRange
      <3> QED  BY <1>0, <3>5, <3>6, <3>7 DEF CommitInv
    <2> QED  BY <1>4, <2>1, <2>2 DEF Rollback
  <1>5. ASSUME NEW h \in TxnIds, TimeoutCheck(h) PROVE CommitInv'
    <2> DEFINE out == Expired(h)
    <2>1. \A r \in Slots : IF r \in out THEN txns'[r].id = NoId ELSE txns'[r] = txns[r]
      BY <1>5 DEF TimeoutCheck, FreedSlot
    <2>2. \A s \in out : s \in Slots /\ txns[s].status = "ACTIVE" /\ txns[s].id # NoId
                         /\ txns[s].id \in TxnIds
      BY <1>T DEF Expired, NoId
    <2>3. \A s \in out : fate[txns[s].id] = "open"
      BY <2>2 DEF CommitInv, ActiveIsOpen
    <2>4. \A x \in TxnIds : fate'[x] = IF \E s \in out : txns[s].id = x
                                       THEN "timedout" ELSE fate[x]
      BY <1>5 DEF TimeoutCheck
    <2>5. \A x \in TxnIds : fate[x] # "open" => fate'[x] = fate[x]
      BY <2>3, <2>4
    <2>6. UNCHANGED <<next_id, committer>>
      BY <1>5 DEF TimeoutCheck
    <2>7. IdHasOneSlot'
      BY <2>1 DEF CommitInv, IdHasOneSlot
    <2>8. ASSUME NEW r \in Slots, txns'[r].id # NoId, txns'[r].status = "ACTIVE"
          PROVE  fate'[txns'[r].id] = "open"
      <3>1. r \notin out /\ txns'[r] = txns[r]
        BY <2>1, <2>8
      <3>2. \A s \in out : txns[s].id # txns[r].id
        BY <2>2, <2>8, <3>1 DEF CommitInv, IdHasOneSlot
      <3> QED  BY <1>T, <2>4, <2>8, <3>1, <3>2 DEF CommitInv, ActiveIsOpen
    <2>9. IdsAreFresh'
      BY <1>T, <2>1, <2>5, <2>6 DEF CommitInv, IdsAreFresh, TxnIds, NoId
    <2>10. OneCommitter'
      BY <1>0, <2>5, <2>6 DEF CommitInv, OneCommitter, TypeInv, CommitterInRange
    <2>11. ActiveIsOpen'
      BY <2>8 DEF ActiveIsOpen
    <2> QED  BY <1>0, <2>7, <2>9, <2>10, <2>11 DEF CommitInv
  <1>6. ASSUME UNCHANGED <<txns, next_id, fate>>,
               \A t \in Threads : /\ committer'[t].id = committer[t].id
                                  /\ committer'[t].pc # "idle" => committer[t].pc # "idle"
        PROVE  CommitInv'
    BY <1>0, <1>6 DEF CommitInv, IdHasOneSlot, ActiveIsOpen, IdsAreFresh, OneCommitter
  <1>7. ASSUME NEW tb \in Tables, DropTable(tb) PROVE CommitInv'
    <2>1. \A t \in Threads : /\ committer'[t].id = committer[t].id
                             /\ committer'[t].pc = committer[t].pc
      BY <1>T, <1>7 DEF DropTable, CommitterType
    <2> QED  BY <1>6, <1>7, <2>1 DEF DropTable
  <1>8. ASSUME NEW t \in Threads, NEW id \in Issued, Commit(t, id) PROVE CommitInv'
    <2> PICK s \in FindSlot(id) : Commit(t, id)!(s)
      BY <1>8 DEF Commit
    <2>1. s \in Slots /\ id \in TxnIds /\ txns[s].id = id /\ txns[s] \in SlotType
          /\ fate[id] = "open"
          /\ (\A r \in Slots : txns[r].id = id => r = s)
          /\ (\A u \in Threads : committer[u].pc # "idle" => committer[u].id # id)
      BY FoundIsOpen
    <2>2. \A r \in Slots : /\ txns'[r].id = txns[r].id
                           /\ r # s => txns'[r].status = txns[r].status
                           /\ r = s => txns'[r].status = "COMMITTED"
      BY <1>T, <1>0, <2>1 DEF TypeInv, TypeOK, SlotType
    <2>3. \A x \in TxnIds : fate'[x] = IF x = id THEN "committing" ELSE fate[x]
      BY <1>T
    <2>4. IdHasOneSlot'
      BY <2>2 DEF CommitInv, IdHasOneSlot
    <2>5. ActiveIsOpen'
      BY <1>T, <2>1, <2>2, <2>3 DEF CommitInv, ActiveIsOpen
    <2>6. IdsAreFresh'
      BY <1>T, <2>1, <2>2, <2>3 DEF CommitInv, IdsAreFresh, TxnIds
    <2>7. committer'[t].id = id
      BY <1>0 DEF LoopHead, TypeInv, TypeOK
    <2>8. \A u \in Threads : u # t => committer'[u] = committer[u]
      BY <1>0 DEF TypeInv, TypeOK
    <2>9. OneCommitter'
      BY <1>0, <2>1, <2>3, <2>7, <2>8 DEF CommitInv, OneCommitter, TypeInv, CommitterInRange
    <2> QED  BY <1>0, <2>4, <2>5, <2>6, <2>9 DEF CommitInv
  <1>9. ASSUME NEW t \in Threads, ReadEntry(t) PROVE CommitInv'
    <2>1. \A u \in Threads : /\ committer'[u].id = committer[u].id
                             /\ committer'[u].pc # "idle" => committer[u].pc # "idle"
      <3> DEFINE c == committer[t]
                 e == txns[c.slot].entries[c.i]
                 r == [c EXCEPT !.e = e, !.pc = "write"]
                 d == IF e.table \in tables THEN r ELSE Failed(c)
      <3>1. committer \in [Threads -> CommitterType] /\ c \in CommitterType /\ c.pc = "read"
        BY <1>0, <1>9 DEF ReadEntry, TypeInv, TypeOK
      <3>2. committer' = [committer EXCEPT ![t] = d]
        BY <1>9 DEF ReadEntry
      <3>3. r.id = c.id /\ Failed(c).id = c.id
        BY <3>1 DEF Failed, CommitterType
      <3> HIDE DEF r, e
      <3>4. d.id = c.id
        BY <3>3
      <3> HIDE DEF d
      <3>5. committer'[t] = d /\ \A u \in Threads \ {t} : committer'[u] = committer[u]
        BY <3>1, <3>2
      <3> QED  BY <3>1, <3>4, <3>5
    <2> QED  BY <1>6, <1>9, <2>1 DEF ReadEntry, history
  <1>10. ASSUME NEW t \in Threads, WriteEntry(t) PROVE CommitInv'
    <2> DEFINE c == committer[t]
    <2>1. c.pc # "idle" /\ \A u \in Threads : u # t => committer'[u] = committer[u]
      BY <1>0, <1>10 DEF WriteEntry, TypeInv, TypeOK
    <2>2. committer'[t] = Failed(c) \/ committer'[t] = LoopHead(c.id, c.slot, c.nentries, c.i + 1)
      BY <1>0, <1>10 DEF WriteEntry, TypeInv, TypeOK
    <2>3. committer'[t].id = c.id
      BY <1>T, <2>2, FailedType DEF LoopHead
    <2> QED  BY <1>6, <1>10, <2>1, <2>3 DEF WriteEntry
  <1>11. ASSUME NEW t \in Threads, Cleanup(t) PROVE CommitInv'
    <2> DEFINE c == committer[t]
    <2>1. c.pc # "idle" /\ c.slot \in Slots /\ c.id \in TxnIds
      BY <1>0, <1>11 DEF Cleanup, TypeInv, CommitterInRange
    <2>2. fate[c.id] = "committing"
      BY <2>1 DEF CommitInv, OneCommitter
    <2>3. \A r \in Slots : IF r = c.slot THEN txns'[r].id = NoId ELSE txns'[r] = txns[r]
      BY <1>0, <1>11, <2>1 DEF Cleanup, FreedSlot, TypeInv, TypeOK
    <2>4. \A x \in TxnIds : x # c.id => fate'[x] = fate[x]
      BY <1>11, <1>T DEF Cleanup
    <2>5. \A u \in Threads : IF u = t THEN committer'[u].pc = "idle"
                             ELSE committer'[u] = committer[u]
      BY <1>0, <1>11 DEF Cleanup, Idle, TypeInv, TypeOK
    <2>6. next_id' = next_id
      BY <1>11 DEF Cleanup
    <2>7. IdHasOneSlot' /\ ActiveIsOpen'
      BY <1>T, <2>1, <2>2, <2>3, <2>4 DEF CommitInv, IdHasOneSlot, ActiveIsOpen
    <2>8. c.id < next_id
      BY <1>T, <2>1, <2>2 DEF CommitInv, IdsAreFresh, TxnIds
    <2>9. IdsAreFresh'
      BY <1>T, <2>3, <2>4, <2>6, <2>8 DEF CommitInv, IdsAreFresh, TxnIds, NoId
    <2>10. OneCommitter'
      BY <1>0, <2>1, <2>4, <2>5 DEF CommitInv, OneCommitter, TypeInv, CommitterInRange
    <2> QED  BY <1>0, <2>7, <2>9, <2>10 DEF CommitInv
  <1>12. ASSUME NEW id \in Issued, NEW tb \in Tables, Ingest(id, tb) \/ Dml(id, tb)
         PROVE  CommitInv'
    BY <1>2, <1>3, <1>12 DEF Ingest, Dml
  <1>13. CASE UNCHANGED vars
    BY <1>3, <1>13 DEF vars
  <1> QED
    BY <1>1, <1>4, <1>5, <1>7, <1>8, <1>9, <1>10, <1>11, <1>12, <1>13 DEF Next, CommitStep

LEMMA CommitInvariant == Spec => []CommitInv
  BY CommitInit, CommitNext, PTL DEF Spec

(* Whatever clients do with a transaction id, two threads never apply it at  *)
(* once, and a COMMIT under way is of a transaction not yet decided          *)
(* (txn_commit's find_slot and its COMMITTED mark, txn.c:159-163).           *)
THEOREM OneCommitterHolds == Spec => []OneCommitter
  BY CommitInvariant, PTL DEF CommitInv

(* Once COMMIT, ROLLBACK or a time-out has taken a transaction, nothing is   *)
(* added to what it buffered (txn.c:162).                                    *)
THEOREM NothingBufferedAfterCommit == Spec => NoBufferingAfterCommit
  <1>1. ASSUME CommitInv, [Next]_vars, NEW x \in TxnIds, fate[x] # "open"
        PROVE  buffered'[x] = buffered[x]
    <2>1. ASSUME NEW id \in Issued, NEW tb \in Tables, Buffer(id, tb)
          PROVE  buffered'[x] = buffered[x]
      <3> PICK s \in FindSlot(id) : Buffer(id, tb)!(s)
        BY <2>1 DEF Buffer
      <3>1. fate[id] = "open"
        BY <1>1, FoundIsOpen
      <3> QED  BY <1>1, <3>1 DEF CommitInv, TypeInv, TypeOK
    <2>2. CASE UNCHANGED buffered
      BY <2>2
    <2>3. ASSUME NEW id \in Issued, NEW tb \in Tables, Ingest(id, tb) \/ Dml(id, tb)
          PROVE  buffered'[x] = buffered[x]
      BY <2>1, <2>2, <2>3 DEF Ingest, Dml
    <2>4. ASSUME NEW id \in Issued, NEW t \in Threads, Commit(t, id)
          PROVE  UNCHANGED buffered
      BY <2>4 DEF Commit
    <2>5. ASSUME NEW t \in Threads, CommitStep(t)
          PROVE  UNCHANGED buffered
      BY <2>5 DEF CommitStep, ReadEntry, WriteEntry, Cleanup, history
    <2>6. ASSUME NEW id \in Issued, Rollback(id) PROVE UNCHANGED buffered
      BY <2>6 DEF Rollback
    <2>7. ASSUME NEW h \in TxnIds, TimeoutCheck(h) PROVE UNCHANGED buffered
      BY <2>7 DEF TimeoutCheck
    <2>8. ASSUME NEW tb \in Tables, DropTable(tb) PROVE UNCHANGED buffered
      BY <2>8 DEF DropTable
    <2>9. CASE Begin
      BY <2>9 DEF Begin
    <2>10. CASE UNCHANGED vars
      BY <2>10 DEF vars
    <2> QED
      BY <1>1, <2>2, <2>3, <2>4, <2>5, <2>6, <2>7, <2>8, <2>9, <2>10 DEF Next
  <1>2. CommitInv /\ [Next]_vars =>
            [\A id \in TxnIds : fate[id] # "open" => buffered'[id] = buffered[id]]_vars
    BY <1>1
  <1> QED  BY <1>2, CommitInvariant, PTL DEF Spec, NoBufferingAfterCommit

-----------------------------------------------------------------------------
(* What a COMMIT applies                                                     *)

(* Slot s holds transaction id with all it buffered.                        *)
Holds(s, id) ==
    /\ txns[s].id = id /\ txns[s].arena = id
    /\ txns[s].nentries = Len(buffered[id])
    /\ \A i \in 1..Len(buffered[id]) : txns[s].entries[i] = buffered[id][i]

OpenIsHeld ==
    \A id \in TxnIds \ exposed : fate[id] = "open" =>
        \E s \in Slots : Holds(s, id) /\ txns[s].status = "ACTIVE"

(* The slot of a commit under way holds its transaction; where another was  *)
(* put into it, both are exposed.                                           *)
CommitterHolds ==
    \A t \in Threads : committer[t].pc # "idle" =>
        IF committer[t].id \in exposed
        THEN txns[committer[t].slot].id \in exposed \union {NoId}
        ELSE /\ Holds(committer[t].slot, committer[t].id)
             /\ txns[committer[t].slot].status = "COMMITTED"

(* How far a commit c has come that buffered b and has applied a so far.    *)
HasCome(c, b, a) ==
    /\ c.nentries = Len(b)
    /\ c.pc \in {"read", "write"} => c.rc = 0 /\ c.table_open /\ Len(a) = c.i - 1
    /\ c.pc = "write" => c.e = b[c.i]
    /\ c.pc = "cleanup" /\ c.rc = 0 => Len(a) = c.nentries
Progress ==
    \A t \in Threads : (committer[t].pc # "idle" /\ committer[t].id \notin exposed) =>
        HasCome(committer[t], buffered[committer[t].id], applied[committer[t].id])

OwnEntries == \A id \in TxnIds : \A i \in 1..Len(buffered[id]) : buffered[id][i].txn = id
NotYetApplied ==
    \A id \in TxnIds : /\ fate[id] \in {"unborn", "open", "rolledback", "timedout"} =>
                            applied[id] = <<>>
                       /\ fate[id] = "unborn" => buffered[id] = <<>>
AppliedIsPrefix ==
    \A id \in TxnIds \ exposed :
        /\ Len(applied[id]) <= Len(buffered[id])
        /\ \A i \in 1..Len(applied[id]) : applied[id][i] = buffered[id][i]
        /\ fate[id] = "ok" => Len(applied[id]) = Len(buffered[id])

KeptInv == /\ CommitInv
           /\ OpenIsHeld /\ CommitterHolds /\ Progress
           /\ OwnEntries /\ NotYetApplied /\ AppliedIsPrefix

LEMMA KeptInit == Init => KeptInv
  <1> SUFFICES ASSUME Init PROVE KeptInv
    OBVIOUS
  <1>1. CommitInv
    BY CommitInit
  <1>2. \A t \in Threads : committer[t].pc = "idle"
    BY DEF Init, Idle
  <1>3. \A id \in TxnIds : fate[id] = "unborn" /\ buffered[id] = <<>> /\ applied[id] = <<>>
    BY DEF Init
  <1>4. OpenIsHeld /\ CommitterHolds /\ Progress
    BY <1>2, <1>3 DEF OpenIsHeld, CommitterHolds, Progress
  <1>5. OwnEntries /\ NotYetApplied /\ AppliedIsPrefix
    BY <1>3 DEF OwnEntries, NotYetApplied, AppliedIsPrefix
  <1> QED  BY <1>1, <1>4, <1>5 DEF KeptInv

(* What every step can use: the types, one COMMIT per id, no id is NoId.    *)
LEMMA KeptFacts ==
    ASSUME KeptInv
    PROVE  /\ CommitInv /\ TypeOK
           /\ OpenIsHeld /\ CommitterHolds /\ Progress
           /\ OwnEntries /\ NotYetApplied /\ AppliedIsPrefix
           /\ NoId \notin TxnIds
           /\ \A s \in Slots : txns[s] \in SlotType
           /\ \A x \in TxnIds : buffered[x] \in Seq(Entry)
                                /\ applied[x] \in Seq(Entry \union {ZeroEntry, Garbage})
           /\ \A t \in Threads : committer[t] \in CommitterType
           /\ \A t \in Threads : committer[t].pc # "idle" =>
                /\ committer[t].id \in TxnIds /\ committer[t].slot \in Slots
                /\ fate[committer[t].id] = "committing"
                /\ committer[t].pc \in {"read", "write"} =>
                        committer[t].i \in 1..committer[t].nentries
                /\ \A u \in Threads \ {t} : committer[u].pc # "idle" =>
                        committer[u].id # committer[t].id
  <1>1. CommitInv /\ TypeOK /\ CommitterInRange /\ OneCommitter
    BY DEF KeptInv, CommitInv, TypeInv
  <1>2. NoId \notin TxnIds
    BY DEF NoId, TxnIds
  <1>3. /\ \A s \in Slots : txns[s] \in SlotType
        /\ \A x \in TxnIds : buffered[x] \in Seq(Entry)
                             /\ applied[x] \in Seq(Entry \union {ZeroEntry, Garbage})
        /\ \A t \in Threads : committer[t] \in CommitterType
    BY <1>1 DEF TypeOK
  <1>4. ASSUME NEW t \in Threads, committer[t].pc # "idle"
        PROVE  /\ committer[t].id \in TxnIds /\ committer[t].slot \in Slots
               /\ fate[committer[t].id] = "committing"
               /\ committer[t].pc \in {"read", "write"} =>
                        committer[t].i \in 1..committer[t].nentries
               /\ \A u \in Threads \ {t} : committer[u].pc # "idle" =>
                        committer[u].id # committer[t].id
    BY <1>1, <1>4 DEF CommitterInRange, OneCommitter
  <1> QED  BY <1>1, <1>2, <1>3, <1>4 DEF KeptInv

-----------------------------------------------------------------------------
(* One lemma for each action.                                               *)

LEMMA BeginKeeps ==
    ASSUME KeptInv, CommitInv', Begin
    PROVE  KeptInv'
  <1> PICK s \in Slots : Begin!(s)
    BY DEF Begin
  <1> USE KeptFacts
  <1>1. next_id \in TxnIds /\ fate[next_id] = "unborn"
    BY DEF TypeOK, TxnIds, CommitInv, IdsAreFresh
  <1>2. \A r \in Slots : txns'[r] = IF r = s THEN FreshSlot(next_id) ELSE txns[r]
    BY DEF TypeOK
  <1>3. \A x \in TxnIds : fate'[x] = IF x = next_id THEN "open" ELSE fate[x]
    BY DEF TypeOK
  <1>4. /\ exposed \subseteq exposed'
        /\ \A t \in CommittersOn(s) : next_id \in exposed' /\ committer[t].id \in exposed'
    OBVIOUS
  <1>5. UNCHANGED <<committer, buffered, applied>>
    OBVIOUS
  <1>6. buffered[next_id] = <<>> /\ applied[next_id] = <<>>
    BY <1>1 DEF NotYetApplied
  <1>7. OpenIsHeld'
    <2> SUFFICES ASSUME NEW id \in TxnIds, id \notin exposed', fate'[id] = "open"
                 PROVE  \E r \in Slots : Holds(r, id)' /\ txns'[r].status = "ACTIVE"
      BY DEF OpenIsHeld
    <2>1. CASE id = next_id
      <3>1. Holds(s, id)' /\ txns'[s].status = "ACTIVE"
        BY <1>2, <1>5, <1>6, <2>1 DEF Holds, FreshSlot
      <3> QED  BY <3>1
    <2>2. CASE id # next_id
      <3>1. PICK r \in Slots : Holds(r, id) /\ txns[r].status = "ACTIVE"
        BY <1>3, <1>4, <2>2 DEF OpenIsHeld
      <3>2. r # s
        BY <3>1 DEF Holds, FirstFree, FreeSlots
      <3>3. Holds(r, id)' /\ txns'[r].status = "ACTIVE"
        BY <1>2, <1>5, <3>1, <3>2 DEF Holds
      <3> QED  BY <3>3
    <2> QED  BY <2>1, <2>2
  <1>8. CommitterHolds'
    <2> SUFFICES ASSUME NEW t \in Threads, committer[t].pc # "idle"
                 PROVE  IF committer[t].id \in exposed'
                        THEN txns'[committer[t].slot].id \in exposed' \union {NoId}
                        ELSE /\ Holds(committer[t].slot, committer[t].id)'
                             /\ txns'[committer[t].slot].status = "COMMITTED"
      BY <1>5 DEF CommitterHolds
    <2>1. CASE committer[t].slot = s
      BY <1>2, <1>4, <2>1 DEF CommittersOn, FreshSlot
    <2>2. CASE committer[t].slot # s
      <3>1. txns'[committer[t].slot] = txns[committer[t].slot]
        BY <1>2, <2>2
      <3> QED  BY <1>4, <1>5, <3>1 DEF CommitterHolds, Holds
    <2> QED  BY <2>1, <2>2
  <1>9. Progress' /\ OwnEntries'
    BY <1>4, <1>5 DEF Progress, HasCome, OwnEntries
  <1>10. NotYetApplied' /\ AppliedIsPrefix'
    BY <1>3, <1>4, <1>5, <1>6 DEF NotYetApplied, AppliedIsPrefix
  <1> QED  BY <1>7, <1>8, <1>9, <1>10 DEF KeptInv

LEMMA BufferKeeps ==
    ASSUME KeptInv, CommitInv', NEW id \in Issued, NEW tb \in Tables, Buffer(id, tb),
           UNCHANGED <<fate, committer, applied, exposed>>
    PROVE  KeptInv'
  <1> PICK s \in FindSlot(id) : Buffer(id, tb)!(s)
    BY DEF Buffer
  <1> USE KeptFacts
  <1> DEFINE e == [txn |-> id, n |-> txns[s].nentries + 1, table |-> tb]
  <1>1. /\ s \in Slots /\ id \in TxnIds /\ txns[s].id = id /\ txns[s].status = "ACTIVE"
        /\ fate[id] = "open"
        /\ \A r \in Slots : txns[r].id = id => r = s
        /\ \A t \in Threads : committer[t].pc # "idle" => committer[t].id # id
    BY FoundIsOpen
  <1>2. \A r \in Slots : txns'[r] = IF r = s THEN WithEntry(txns[s], id, tb) ELSE txns[r]
    BY <1>1 DEF TypeOK
  <1>3. \A x \in TxnIds : buffered'[x] = IF x = id THEN Append(buffered[id], e) ELSE buffered[x]
    BY <1>1 DEF TypeOK
  <1>4. /\ e \in Entry /\ txns[s].nentries \in 0..MaxEntries /\ txns[s].nentries < MaxEntries
        /\ DOMAIN txns[s].entries = 1..MaxEntries
    BY <1>1, WithEntryType DEF HasRoom, SlotType
  <1> HIDE DEF e
  <1>5. /\ Len(buffered'[id]) = Len(buffered[id]) + 1
        /\ buffered'[id][Len(buffered[id]) + 1] = e
        /\ \A i \in 1..Len(buffered[id]) : buffered'[id][i] = buffered[id][i]
    <2>1. buffered[id] \in Seq(Entry) /\ e \in Entry
      BY <1>1, <1>4
    <2>2. buffered'[id] = Append(buffered[id], e)
      BY <1>1, <1>3
    <2> HIDE KeptFacts
    <2> QED  BY <2>1, <2>2, AppendProperties
  <1>6. OpenIsHeld'
    <2> SUFFICES ASSUME NEW x \in TxnIds, x \notin exposed, fate[x] = "open"
                 PROVE  \E r \in Slots : Holds(r, x)' /\ txns'[r].status = "ACTIVE"
      BY DEF OpenIsHeld
    <2>1. PICK r \in Slots : Holds(r, x) /\ txns[r].status = "ACTIVE"
      BY DEF OpenIsHeld
    <2>2. CASE x = id
      <3>1. r = s
        BY <1>1, <2>1, <2>2 DEF Holds
      <3>2. /\ txns'[s].id = id /\ txns'[s].status = "ACTIVE" /\ txns'[s].arena = id
            /\ txns'[s].nentries = txns[s].nentries + 1
            /\ txns'[s].entries = [txns[s].entries EXCEPT ![txns[s].nentries + 1] = e]
        BY <1>1, <1>2, <2>1, <2>2, <3>1 DEF WithEntry, Holds, e
      <3>3. txns[s].nentries = Len(buffered[id])
            /\ \A i \in 1..Len(buffered[id]) : txns[s].entries[i] = buffered[id][i]
        BY <2>1, <2>2, <3>1 DEF Holds
      <3>4. ASSUME NEW i \in 1..Len(buffered'[id])
            PROVE  txns'[s].entries[i] = buffered'[id][i]
        <4>1. CASE i = Len(buffered[id]) + 1
          BY <1>4, <1>5, <3>2, <3>3, <4>1
        <4>2. CASE i # Len(buffered[id]) + 1
          <5>1. i \in 1..Len(buffered[id]) /\ i \in 1..MaxEntries
            BY <1>1, <1>4, <1>5, <3>3, <4>2
          <5> QED  BY <1>4, <1>5, <3>2, <3>3, <4>2, <5>1
        <4> QED  BY <4>1, <4>2
      <3>5. Holds(s, id)'
        BY <1>5, <3>2, <3>3, <3>4 DEF Holds
      <3> QED  BY <1>1, <2>2, <3>2, <3>5
    <2>3. CASE x # id
      <3>1. r # s /\ buffered'[x] = buffered[x]
        BY <1>1, <1>3, <2>1, <2>3 DEF Holds
      <3>2. Holds(r, x)' /\ txns'[r].status = "ACTIVE"
        BY <1>2, <2>1, <3>1 DEF Holds
      <3> QED  BY <3>2
    <2> QED  BY <2>2, <2>3
  <1>7. CommitterHolds'
    <2> SUFFICES ASSUME NEW t \in Threads, committer[t].pc # "idle"
                 PROVE  IF committer[t].id \in exposed
                        THEN txns'[committer[t].slot].id \in exposed \union {NoId}
                        ELSE /\ Holds(committer[t].slot, committer[t].id)'
                             /\ txns'[committer[t].slot].status = "COMMITTED"
      BY DEF CommitterHolds
    <2>1. \A r \in Slots : txns'[r].id = txns[r].id
      BY <1>1, <1>2 DEF WithEntry
    <2>2. buffered'[committer[t].id] = buffered[committer[t].id]
      BY <1>1, <1>3
    <2>3. CASE committer[t].id \in exposed
      BY <2>1, <2>3 DEF CommitterHolds
    <2>4. CASE committer[t].id \notin exposed
      <3>1. Holds(committer[t].slot, committer[t].id)
            /\ txns[committer[t].slot].status = "COMMITTED"
        BY <2>4 DEF CommitterHolds
      <3>2. txns'[committer[t].slot] = txns[committer[t].slot]
        BY <1>1, <1>2, <3>1
      <3>3. Holds(committer[t].slot, committer[t].id)'
        <4> HIDE KeptFacts
        <4> QED  BY <2>2, <3>1, <3>2 DEF Holds
      <3> QED  BY <2>4, <3>1, <3>2, <3>3
    <2> QED  BY <2>3, <2>4
  <1>8. Progress'
    BY <1>1, <1>3 DEF Progress, HasCome
  <1>9. OwnEntries'
    <2> SUFFICES ASSUME NEW x \in TxnIds, NEW i \in 1..Len(buffered'[x])
                 PROVE  buffered'[x][i].txn = x
      BY DEF OwnEntries
    <2>1. CASE x # id
      BY <1>3, <2>1 DEF OwnEntries
    <2>2. CASE x = id /\ i = Len(buffered[id]) + 1
      BY <1>5, <2>2 DEF e
    <2>3. CASE x = id /\ i # Len(buffered[id]) + 1
      <3>1. i \in 1..Len(buffered[id])
        BY <1>1, <1>5, <2>3
      <3> QED  BY <1>5, <2>3, <3>1 DEF OwnEntries
    <2> QED  BY <2>1, <2>2, <2>3
  <1>10. NotYetApplied'
    BY <1>1, <1>3 DEF NotYetApplied
  <1>11. AppliedIsPrefix'
    <2>1. applied[id] = <<>>
      BY <1>1 DEF NotYetApplied
    <2>2. Len(applied[id]) = 0 /\ Len(buffered'[id]) \in Nat
      BY <1>1, <1>5, <2>1
    <2>3. \A x \in TxnIds \ {id} : buffered'[x] = buffered[x]
      BY <1>3
    <2> QED  BY <1>1, <2>2, <2>3 DEF AppliedIsPrefix
  <1> QED  BY <1>6, <1>7, <1>8, <1>9, <1>10, <1>11 DEF KeptInv

(* ROLLBACK and the time-out check: some ACTIVE slots are emptied.          *)
LEMMA DiscardKeeps ==
    ASSUME KeptInv, CommitInv', NEW out \in SUBSET Slots, NEW d \in {"rolledback", "timedout"},
           \A s \in out : txns[s].status = "ACTIVE",
           \A r \in Slots : txns'[r] = IF r \in out THEN FreedSlot(txns[r], "ABORTED") ELSE txns[r],
           \A x \in TxnIds : fate'[x] = IF \E s \in out : txns[s].id = x THEN d ELSE fate[x],
           UNCHANGED <<committer, buffered, applied, exposed>>
    PROVE  KeptInv'
  <1> USE KeptFacts
  <1>1. \A x \in TxnIds : fate'[x] \in {"unborn", "open", "ok"} => fate'[x] = fate[x]
    OBVIOUS
  <1>2. OpenIsHeld'
    <2> SUFFICES ASSUME NEW x \in TxnIds, x \notin exposed, fate'[x] = "open"
                 PROVE  \E r \in Slots : Holds(r, x)' /\ txns'[r].status = "ACTIVE"
      BY DEF OpenIsHeld
    <2>1. PICK r \in Slots : Holds(r, x) /\ txns[r].status = "ACTIVE"
      BY <1>1 DEF OpenIsHeld
    <2>2. r \notin out
      BY <2>1 DEF Holds
    <2>3. Holds(r, x)' /\ txns'[r].status = "ACTIVE"
      BY <2>1, <2>2 DEF Holds
    <2> QED  BY <2>3
  <1>3. CommitterHolds'
    <2> SUFFICES ASSUME NEW t \in Threads, committer[t].pc # "idle"
                 PROVE  IF committer[t].id \in exposed
                        THEN txns'[committer[t].slot].id \in exposed \union {NoId}
                        ELSE /\ Holds(committer[t].slot, committer[t].id)'
                             /\ txns'[committer[t].slot].status = "COMMITTED"
      BY DEF CommitterHolds
    <2>1. CASE committer[t].id \in exposed
      <3>1. txns[committer[t].slot].id \in exposed \union {NoId} /\ committer[t].slot \in Slots
        BY <2>1 DEF CommitterHolds
      <3>2. txns'[committer[t].slot].id \in {txns[committer[t].slot].id, NoId}
        <4>1. \A r \in Slots : FreedSlot(txns[r], "ABORTED").id = NoId
          BY DEF FreedSlot
        <4>2. \A r \in Slots : txns'[r] = txns[r] \/ txns'[r].id = NoId
          BY <4>1
        <4> HIDE KeptFacts
        <4> QED  BY <3>1, <4>2
      <3> QED  BY <2>1, <3>1, <3>2
    <2>2. CASE committer[t].id \notin exposed
      <3>1. Holds(committer[t].slot, committer[t].id)
            /\ txns[committer[t].slot].status = "COMMITTED"
        BY <2>2 DEF CommitterHolds
      <3>2. committer[t].slot \notin out
        BY <3>1
      <3> QED  BY <2>2, <3>1, <3>2 DEF Holds
    <2> QED  BY <2>1, <2>2
  <1>4. Progress' /\ OwnEntries'
    BY DEF Progress, HasCome, OwnEntries
  <1>5. AppliedIsPrefix'
    BY <1>1 DEF AppliedIsPrefix
  <1>6. NotYetApplied'
    <2>1. \A s \in out : txns[s].id \in TxnIds => fate[txns[s].id] = "open"
      BY DEF CommitInv, ActiveIsOpen
    <2> QED  BY <2>1 DEF NotYetApplied
  <1> QED  BY <1>2, <1>3, <1>4, <1>5, <1>6 DEF KeptInv

LEMMA RollbackKeeps ==
    ASSUME KeptInv, CommitInv', NEW id \in Issued, Rollback(id)
    PROVE  KeptInv'
  <1> USE KeptFacts
  <1>1. CASE FindSlot(id) = {} /\ UNCHANGED <<txns, fate>>
    <2>1. \A r \in Slots : txns'[r] = IF r \in {} THEN FreedSlot(txns[r], "ABORTED") ELSE txns[r]
      BY <1>1
    <2>2. \A x \in TxnIds : fate'[x] = IF \E s \in {} : txns[s].id = x THEN "timedout" ELSE fate[x]
      BY <1>1
    <2>3. UNCHANGED <<committer, buffered, applied, exposed>>
      BY DEF Rollback
    <2>4. {} \in SUBSET Slots /\ \A s \in {} : txns[s].status = "ACTIVE"
      OBVIOUS
    <2> HIDE KeptFacts
    <2> QED  BY <2>1, <2>2, <2>3, <2>4, DiscardKeeps
  <1>2. ASSUME NEW s \in FindSlot(id),
               txns' = [txns EXCEPT ![s] = FreedSlot(txns[s], "ABORTED")],
               fate' = [fate EXCEPT ![id] = "rolledback"]
        PROVE  KeptInv'
    <2>1. s \in Slots /\ id \in TxnIds /\ txns[s].id = id /\ txns[s].status = "ACTIVE"
      BY FoundIsOpen
    <2>2. \A r \in Slots : txns'[r] = IF r \in {s} THEN FreedSlot(txns[r], "ABORTED") ELSE txns[r]
      BY <1>2, <2>1 DEF TypeOK
    <2>3. \A x \in TxnIds : fate'[x] = IF \E r \in {s} : txns[r].id = x THEN "rolledback" ELSE fate[x]
      BY <1>2, <2>1 DEF TypeOK
    <2>4. UNCHANGED <<committer, buffered, applied, exposed>>
      BY DEF Rollback
    <2>5. {s} \in SUBSET Slots /\ \A r \in {s} : txns[r].status = "ACTIVE"
      BY <2>1
    <2> HIDE KeptFacts
    <2> QED  BY <2>2, <2>3, <2>4, <2>5, DiscardKeeps
  <1> QED  BY <1>1, <1>2 DEF Rollback

LEMMA TimeoutKeeps ==
    ASSUME KeptInv, CommitInv', NEW h \in TxnIds, TimeoutCheck(h)
    PROVE  KeptInv'
  <1>1. Expired(h) \in SUBSET Slots /\ \A s \in Expired(h) : txns[s].status = "ACTIVE"
    BY DEF Expired
  <1>2. \A r \in Slots : txns'[r] = IF r \in Expired(h) THEN FreedSlot(txns[r], "ABORTED")
                                    ELSE txns[r]
    BY DEF TimeoutCheck
  <1>3. \A x \in TxnIds : fate'[x] = IF \E s \in Expired(h) : txns[s].id = x
                                     THEN "timedout" ELSE fate[x]
    BY DEF TimeoutCheck
  <1>4. UNCHANGED <<committer, buffered, applied, exposed>>
    BY DEF TimeoutCheck
  <1> QED  BY <1>1, <1>2, <1>3, <1>4, DiscardKeeps

LEMMA DropTableKeeps ==
    ASSUME KeptInv, CommitInv', NEW tb \in Tables, DropTable(tb)
    PROVE  KeptInv'
  <1> USE KeptFacts
  <1>1. UNCHANGED <<txns, fate, buffered, applied>> /\ exposed \subseteq exposed'
    BY DEF DropTable
  <1>2. \A t \in Threads : /\ committer'[t].pc = committer[t].pc
                           /\ committer'[t].id = committer[t].id
                           /\ committer'[t].slot = committer[t].slot
                           /\ committer[t].id \in exposed' \/ committer'[t] = committer[t]
    BY DEF DropTable, CommitterType
  <1>3. OpenIsHeld' /\ OwnEntries' /\ NotYetApplied' /\ AppliedIsPrefix'
    BY <1>1 DEF OpenIsHeld, Holds, OwnEntries, NotYetApplied, AppliedIsPrefix
  <1>4. CommitterHolds'
    <2> SUFFICES ASSUME NEW t \in Threads, committer[t].pc # "idle"
                 PROVE  IF committer[t].id \in exposed'
                        THEN txns[committer[t].slot].id \in exposed' \union {NoId}
                        ELSE /\ Holds(committer[t].slot, committer[t].id)
                             /\ txns[committer[t].slot].status = "COMMITTED"
      BY <1>1, <1>2 DEF CommitterHolds, Holds
    <2> QED  BY <1>1 DEF CommitterHolds, Holds
  <1>5. Progress'
    BY <1>1, <1>2 DEF Progress, HasCome
  <1> QED  BY <1>3, <1>4, <1>5 DEF KeptInv

LEMMA CommitKeeps ==
    ASSUME KeptInv, CommitInv', NEW t \in Threads, NEW id \in Issued, Commit(t, id)
    PROVE  KeptInv'
  <1> PICK s \in FindSlot(id) : Commit(t, id)!(s)
    BY DEF Commit
  <1> USE KeptFacts
  <1> DEFINE c == LoopHead(id, s, txns[s].nentries, 1)
  <1>1. /\ s \in Slots /\ id \in TxnIds /\ txns[s].id = id /\ txns[s].status = "ACTIVE"
        /\ fate[id] = "open"
        /\ \A r \in Slots : txns[r].id = id => r = s
    BY FoundIsOpen
  <1>2. \A r \in Slots : txns'[r] = IF r = s THEN [txns[s] EXCEPT !.status = "COMMITTED"] ELSE txns[r]
    BY <1>1 DEF TypeOK
  <1>3. \A x \in TxnIds : fate'[x] = IF x = id THEN "committing" ELSE fate[x]
    BY <1>1 DEF TypeOK
  <1>4. \A u \in Threads : committer'[u] = IF u = t THEN c ELSE committer[u]
    BY DEF TypeOK
  <1>5. /\ c.id = id /\ c.slot = s /\ c.pc # "idle" /\ c.rc = 0 /\ c.table_open /\ c.i = 1
        /\ c.nentries = txns[s].nentries
        /\ c.pc = IF 1 > txns[s].nentries THEN "cleanup" ELSE "read"
    BY DEF LoopHead
  <1> HIDE DEF c
  <1>6. UNCHANGED <<buffered, applied, exposed>>
    OBVIOUS
  <1>7. /\ txns'[s].id = id /\ txns'[s].status = "COMMITTED" /\ txns'[s].arena = txns[s].arena
        /\ txns'[s].nentries = txns[s].nentries /\ txns'[s].entries = txns[s].entries
    BY <1>1, <1>2 DEF SlotType
  <1>8. id \notin exposed => Holds(s, id)
    BY <1>1 DEF OpenIsHeld, Holds
  <1>9. OpenIsHeld'
    <2> SUFFICES ASSUME NEW x \in TxnIds, x \notin exposed, fate'[x] = "open"
                 PROVE  \E r \in Slots : Holds(r, x)' /\ txns'[r].status = "ACTIVE"
      BY <1>6 DEF OpenIsHeld
    <2>1. x # id /\ fate[x] = "open"
      BY <1>3
    <2>2. PICK r \in Slots : Holds(r, x) /\ txns[r].status = "ACTIVE"
      BY <2>1 DEF OpenIsHeld
    <2>3. r # s
      BY <1>1, <2>1, <2>2 DEF Holds
    <2>4. Holds(r, x)' /\ txns'[r].status = "ACTIVE"
      BY <1>2, <1>6, <2>2, <2>3 DEF Holds
    <2> QED  BY <2>4
  <1>10. CommitterHolds'
    <2> SUFFICES ASSUME NEW u \in Threads, committer'[u].pc # "idle"
                 PROVE  IF committer'[u].id \in exposed
                        THEN txns'[committer'[u].slot].id \in exposed \union {NoId}
                        ELSE /\ Holds(committer[u].slot, committer[u].id)'
                             /\ txns'[committer'[u].slot].status = "COMMITTED"
      BY <1>6 DEF CommitterHolds
    <2>1. CASE u = t
      <3>1. committer'[u].id = id /\ committer'[u].slot = s
        BY <1>4, <1>5, <2>1
      <3>2. id \notin exposed => Holds(s, id)'
        BY <1>6, <1>7, <1>8 DEF Holds
      <3>3. id \notin exposed => Holds(committer[u].slot, committer[u].id)'
        BY <3>1, <3>2 DEF Holds
      <3> QED  BY <1>7, <3>1, <3>3
    <2>2. CASE u # t
      <3>1. committer'[u] = committer[u] /\ committer[u].pc # "idle"
        BY <1>4, <2>2
      <3>2. CASE committer[u].id \in exposed
        <4>1. txns'[committer[u].slot].id = txns[committer[u].slot].id
          BY <1>1, <1>2, <1>7, <3>1
        <4> QED  BY <3>1, <3>2, <4>1 DEF CommitterHolds
      <3>3. CASE committer[u].id \notin exposed
        <4>1. Holds(committer[u].slot, committer[u].id)
              /\ txns[committer[u].slot].status = "COMMITTED"
          BY <3>1, <3>3 DEF CommitterHolds
        <4>2. txns'[committer[u].slot] = txns[committer[u].slot]
          BY <1>1, <1>2, <3>1, <4>1
        <4> QED  BY <1>6, <3>1, <3>3, <4>1, <4>2 DEF Holds
      <3> QED  BY <3>2, <3>3
    <2> QED  BY <2>1, <2>2
  <1>11. Progress'
    <2> SUFFICES ASSUME NEW u \in Threads, committer'[u].pc # "idle", committer'[u].id \notin exposed
                 PROVE  HasCome(committer[u], buffered[committer[u].id], applied[committer[u].id])'
      BY <1>6 DEF Progress
    <2>1. CASE u = t
      <3>1. committer'[u] = c /\ txns[s].nentries = Len(buffered[id]) /\ applied[id] = <<>>
        BY <1>1, <1>4, <1>5, <1>8, <2>1 DEF Holds, NotYetApplied
      <3>2. Len(applied[id]) = 0 /\ Len(buffered[id]) \in Nat
        BY <1>1, <3>1
      <3> QED  BY <1>5, <1>6, <3>1, <3>2 DEF HasCome
    <2>2. CASE u # t
      BY <1>4, <1>6, <2>2 DEF Progress, HasCome
    <2> QED  BY <2>1, <2>2
  <1>12. OwnEntries' /\ NotYetApplied' /\ AppliedIsPrefix'
    BY <1>3, <1>6 DEF OwnEntries, NotYetApplied, AppliedIsPrefix
  <1> QED  BY <1>9, <1>10, <1>11, <1>12 DEF KeptInv

(* A step inside a COMMIT that leaves slots, fates and buffers alone: what   *)
(* remains to be shown is how far the thread has come.                       *)
LEMMA StepKeeps ==
    ASSUME KeptInv, CommitInv', NEW t \in Threads, committer[t].pc # "idle",
           UNCHANGED <<txns, fate, buffered, exposed>>,
           NEW d, d.id = committer[t].id, d.slot = committer[t].slot, d.pc # "idle",
           committer' = [committer EXCEPT ![t] = d],
           \A x \in TxnIds : x # committer[t].id => applied'[x] = applied[x],
           d.id \notin exposed => HasCome(d, buffered[d.id], applied'[d.id]),
           d.id \notin exposed => /\ Len(applied'[d.id]) <= Len(buffered[d.id])
                                  /\ \A i \in 1..Len(applied'[d.id]) :
                                        applied'[d.id][i] = buffered[d.id][i]
    PROVE  KeptInv'
  <1> USE KeptFacts
  <1>1. \A u \in Threads : committer'[u] = IF u = t THEN d ELSE committer[u]
    BY DEF TypeOK
  <1>2. \A u \in Threads : /\ committer'[u].id = committer[u].id
                           /\ committer'[u].slot = committer[u].slot
                           /\ committer'[u].pc # "idle" => committer[u].pc # "idle"
    BY <1>1
  <1>3. OpenIsHeld' /\ OwnEntries'
    BY DEF OpenIsHeld, Holds, OwnEntries
  <1>4. CommitterHolds'
    BY <1>2 DEF CommitterHolds, Holds
  <1>5. Progress'
    <2> SUFFICES ASSUME NEW u \in Threads, committer'[u].pc # "idle", committer'[u].id \notin exposed
                 PROVE  HasCome(committer[u], buffered[committer[u].id], applied[committer[u].id])'
      BY DEF Progress
    <2>1. CASE u = t
      BY <1>1, <2>1 DEF HasCome
    <2>2. CASE u # t
      <3>1. committer'[u] = committer[u] /\ committer[u].id \in TxnIds
            /\ committer[u].id # committer[t].id
        BY <1>1, <2>2
      <3> QED  BY <3>1 DEF Progress, HasCome
    <2> QED  BY <2>1, <2>2
  <1>6. NotYetApplied'
    BY DEF NotYetApplied
  <1>7. AppliedIsPrefix'
    BY DEF AppliedIsPrefix
  <1> QED  BY <1>3, <1>4, <1>5, <1>6, <1>7 DEF KeptInv

LEMMA ReadEntryKeeps ==
    ASSUME KeptInv, CommitInv', NEW t \in Threads, ReadEntry(t)
    PROVE  KeptInv'
  <1> USE KeptFacts
  <1> DEFINE c == committer[t]
             e == txns[c.slot].entries[c.i]
             r == [c EXCEPT !.e = e, !.pc = "write"]
             d == IF e.table \in tables THEN r ELSE Failed(c)
  <1>1. /\ c \in CommitterType /\ c.pc = "read" /\ c.id \in TxnIds /\ c.slot \in Slots
        /\ c.i \in 1..c.nentries
    BY DEF ReadEntry
  <1>2. UNCHANGED <<txns, fate, buffered, exposed, applied>> /\ committer' = [committer EXCEPT ![t] = d]
    BY DEF ReadEntry, history
  <1>3. Failed(c).id = c.id /\ Failed(c).slot = c.slot /\ Failed(c).pc = "cleanup"
        /\ Failed(c).rc = -1 /\ Failed(c).nentries = c.nentries
    BY <1>1 DEF Failed, CommitterType
  <1>4. /\ r.id = c.id /\ r.slot = c.slot /\ r.pc = "write" /\ r.e = e /\ r.i = c.i
        /\ r.rc = c.rc /\ r.nentries = c.nentries /\ r.table_open = c.table_open
    BY <1>1 DEF CommitterType
  <1>5. c.id \notin exposed => HasCome(c, buffered[c.id], applied[c.id]) /\ e = buffered[c.id][c.i]
    BY <1>1 DEF Progress, HasCome, CommitterHolds, Holds
  <1> HIDE DEF e, r
  <1>6. d.id = c.id /\ d.slot = c.slot /\ d.pc # "idle"
    BY <1>3, <1>4
  <1>7. c.id \notin exposed => HasCome(d, buffered[c.id], applied'[c.id])
    BY <1>1, <1>2, <1>3, <1>4, <1>5 DEF HasCome
  <1>8. c.id \notin exposed => /\ Len(applied'[c.id]) <= Len(buffered[c.id])
                               /\ \A i \in 1..Len(applied'[c.id]) :
                                    applied'[c.id][i] = buffered[c.id][i]
    BY <1>1, <1>2 DEF AppliedIsPrefix
  <1>9. c.pc # "idle" /\ \A x \in TxnIds : applied'[x] = applied[x]
    BY <1>1, <1>2
  <1>10. PICK D : D = d
    OBVIOUS
  <1> HIDE KeptFacts
  <1> HIDE DEF d
  <1>11. /\ D.id = committer[t].id /\ D.slot = committer[t].slot /\ D.pc # "idle"
         /\ committer' = [committer EXCEPT ![t] = D]
    BY <1>2, <1>6, <1>10
  <1>12. D.id \notin exposed => HasCome(D, buffered[D.id], applied'[D.id])
    BY <1>6, <1>7, <1>10
  <1>13. D.id \notin exposed => /\ Len(applied'[D.id]) <= Len(buffered[D.id])
                               /\ \A i \in 1..Len(applied'[D.id]) :
                                     applied'[D.id][i] = buffered[D.id][i]
    BY <1>6, <1>8, <1>10
  <1>14. \A x \in TxnIds : x # committer[t].id => applied'[x] = applied[x]
    BY <1>9
  <1> HIDE <1>10
  <1> QED  BY <1>2, <1>9, <1>11, <1>12, <1>13, <1>14, StepKeeps

LEMMA WriteEntryKeeps ==
    ASSUME KeptInv, CommitInv', NEW t \in Threads, WriteEntry(t)
    PROVE  KeptInv'
  <1> USE KeptFacts
  <1> DEFINE c == committer[t]
  <1>1. /\ c \in CommitterType /\ c.pc = "write" /\ c.id \in TxnIds /\ c.slot \in Slots
        /\ c.i \in 1..c.nentries /\ c.nentries \in 0..MaxEntries
    BY DEF WriteEntry, CommitterType
  <1>2. UNCHANGED <<txns, fate, buffered, exposed>>
    BY DEF WriteEntry
  <1>3. c.id \notin exposed =>
            /\ c.nentries = Len(buffered[c.id]) /\ c.rc = 0 /\ c.table_open
            /\ Len(applied[c.id]) = c.i - 1 /\ c.e = buffered[c.id][c.i]
            /\ c.e.txn = c.id /\ txns[c.slot].arena = c.id
    BY <1>1 DEF Progress, HasCome, CommitterHolds, Holds, OwnEntries
  <1>4. CASE committer' = [committer EXCEPT ![t] = Failed(c)] /\ UNCHANGED applied
    <2>1. Failed(c).id = c.id /\ Failed(c).slot = c.slot /\ Failed(c).pc = "cleanup"
          /\ Failed(c).rc = -1 /\ Failed(c).nentries = c.nentries
      BY <1>1 DEF Failed, CommitterType
    <2>2. c.id \notin exposed => HasCome(Failed(c), buffered[c.id], applied'[c.id])
      BY <1>2, <1>3, <2>1 DEF HasCome
    <2>3. c.id \notin exposed => /\ Len(applied'[c.id]) <= Len(buffered[c.id])
                                 /\ \A i \in 1..Len(applied'[c.id]) :
                                        applied'[c.id][i] = buffered[c.id][i]
      BY <1>1, <1>4 DEF AppliedIsPrefix
    <2>4. \A x \in TxnIds : x # c.id => applied'[x] = applied[x]
      BY <1>4
    <2> DEFINE d == Failed(c)
    <2> HIDE DEF d
    <2>5. /\ d.id = c.id /\ d.slot = c.slot /\ d.pc # "idle"
          /\ committer' = [committer EXCEPT ![t] = d]
          /\ c.id \notin exposed => HasCome(d, buffered[c.id], applied'[c.id])
      BY <1>4, <2>1, <2>2 DEF d
    <2>6. d.id \notin exposed =>
            /\ HasCome(d, buffered[d.id], applied'[d.id])
            /\ Len(applied'[d.id]) <= Len(buffered[d.id])
            /\ \A i \in 1..Len(applied'[d.id]) : applied'[d.id][i] = buffered[d.id][i]
      BY <2>3, <2>5
    <2> HIDE KeptFacts
    <2> QED  BY <1>1, <1>2, <2>4, <2>5, <2>6, StepKeeps
  <1>5. ASSUME NEW v \in PayloadsRead(t),
               applied' = [applied EXCEPT ![c.id] = Append(@, v)],
               committer' = [committer EXCEPT ![t] = LoopHead(c.id, c.slot, c.nentries, c.i + 1)]
        PROVE  KeptInv'
    <2> DEFINE d == LoopHead(c.id, c.slot, c.nentries, c.i + 1)
    <2>1. /\ d.id = c.id /\ d.slot = c.slot /\ d.pc \in {"read", "cleanup"} /\ d.rc = 0
          /\ d.table_open /\ d.nentries = c.nentries /\ d.i = c.i + 1
          /\ d.pc = IF c.i + 1 > c.nentries THEN "cleanup" ELSE "read"
      BY DEF LoopHead
    <2>2. committer' = [committer EXCEPT ![t] = d]
      BY <1>5
    <2> HIDE DEF d
    <2>3. \A x \in TxnIds : applied'[x] = IF x = c.id THEN Append(applied[x], v) ELSE applied[x]
      BY <1>1, <1>5 DEF TypeOK
    <2>4. /\ Len(applied'[c.id]) = Len(applied[c.id]) + 1
          /\ applied'[c.id][Len(applied[c.id]) + 1] = v
          /\ \A i \in 1..Len(applied[c.id]) : applied'[c.id][i] = applied[c.id][i]
      <3>1. c.e \in Entry \union {ZeroEntry}
        BY <1>1 DEF CommitterType
      <3>2. v \in Entry \union {ZeroEntry, Garbage}
        BY <1>5, <3>1 DEF PayloadsRead
      <3>3. applied[c.id] \in Seq(Entry \union {ZeroEntry, Garbage})
        BY <1>1
      <3>4. applied'[c.id] = Append(applied[c.id], v)
        BY <1>1, <2>3
      <3> HIDE KeptFacts
      <3> HIDE DEF c
      <3> QED  BY <3>2, <3>3, <3>4, AppendProperties
    <2>5. c.id \notin exposed => v = buffered[c.id][c.i]
      BY <1>3, <1>5 DEF PayloadsRead
    <2>6. c.id \notin exposed => HasCome(d, buffered[c.id], applied'[c.id])
      <3> SUFFICES ASSUME c.id \notin exposed
                   PROVE  HasCome(d, buffered[c.id], applied'[c.id])
        OBVIOUS
      <3>1. Len(applied'[c.id]) = c.i /\ c.i \in Int /\ c.i <= c.nentries
        BY <1>1, <1>3, <2>4
      <3>2. d.pc = "cleanup" => c.i = c.nentries
        BY <1>1, <2>1, <3>1
      <3> HIDE KeptFacts
      <3> HIDE DEF c
      <3> QED  BY <1>3, <2>1, <3>1, <3>2 DEF HasCome
    <2>7. c.id \notin exposed => /\ Len(applied'[c.id]) <= Len(buffered[c.id])
                                 /\ \A i \in 1..Len(applied'[c.id]) :
                                        applied'[c.id][i] = buffered[c.id][i]
      <3> SUFFICES ASSUME c.id \notin exposed
                   PROVE  /\ Len(applied'[c.id]) <= Len(buffered[c.id])
                          /\ \A i \in 1..Len(applied'[c.id]) :
                                applied'[c.id][i] = buffered[c.id][i]
        OBVIOUS
      <3>1. Len(applied'[c.id]) = c.i
        BY <1>1, <1>3, <2>4
      <3>2. ASSUME NEW i \in 1..c.i PROVE applied'[c.id][i] = buffered[c.id][i]
        <4>1. CASE i = c.i
          <5> HIDE KeptFacts
          <5> HIDE DEF c
          <5>1. c.i = Len(applied[c.id]) + 1
            BY <1>1, <1>3
          <5> QED  BY <2>4, <2>5, <4>1, <5>1
        <4>2. CASE i # c.i
          <5>1. i \in 1..Len(applied[c.id])
            BY <1>1, <1>3, <4>2
          <5> QED  BY <1>1, <2>4, <5>1 DEF AppliedIsPrefix
        <4> QED  BY <4>1, <4>2
      <3> QED  BY <1>1, <1>3, <3>1, <3>2
    <2>8. d.pc # "idle" /\ \A x \in TxnIds : x # c.id => applied'[x] = applied[x]
      BY <2>1, <2>3
    <2>9. d.id \notin exposed =>
            /\ HasCome(d, buffered[d.id], applied'[d.id])
            /\ Len(applied'[d.id]) <= Len(buffered[d.id])
            /\ \A i \in 1..Len(applied'[d.id]) : applied'[d.id][i] = buffered[d.id][i]
      BY <2>1, <2>6, <2>7
    <2> HIDE KeptFacts
    <2> QED  BY <1>1, <1>2, <2>1, <2>2, <2>8, <2>9, StepKeeps
  <1> QED  BY <1>4, <1>5 DEF WriteEntry

LEMMA CleanupKeeps ==
    ASSUME KeptInv, CommitInv', NEW t \in Threads, Cleanup(t)
    PROVE  KeptInv'
  <1> USE KeptFacts
  <1> DEFINE c == committer[t]
  <1>1. c.pc = "cleanup" /\ c.id \in TxnIds /\ c.slot \in Slots /\ fate[c.id] = "committing"
    BY DEF Cleanup
  <1>2. /\ \A r \in Slots : r # c.slot => txns'[r] = txns[r]
        /\ txns'[c.slot].id = NoId
    BY <1>1 DEF Cleanup, FreedSlot, TypeOK
  <1>3. \A x \in TxnIds : fate'[x] = IF x = c.id THEN (IF c.rc = 0 THEN "ok" ELSE "failed")
                                     ELSE fate[x]
    BY <1>1 DEF Cleanup, TypeOK
  <1>4. UNCHANGED <<buffered, applied, exposed>>
    BY DEF Cleanup
  <1>5. \A u \in Threads : IF u = t THEN committer'[u].pc = "idle" ELSE committer'[u] = committer[u]
    BY DEF Cleanup, Idle, TypeOK
  <1>6. OpenIsHeld'
    <2> SUFFICES ASSUME NEW x \in TxnIds, x \notin exposed, fate'[x] = "open"
                 PROVE  \E r \in Slots : Holds(r, x)' /\ txns'[r].status = "ACTIVE"
      BY <1>4 DEF OpenIsHeld
    <2>1. x # c.id /\ fate[x] = "open"
      BY <1>3
    <2>2. PICK r \in Slots : Holds(r, x) /\ txns[r].status = "ACTIVE"
      BY <2>1 DEF OpenIsHeld
    <2>3. r # c.slot
      BY <1>1, <2>2 DEF Holds, CommitterHolds
    <2>4. Holds(r, x)' /\ txns'[r].status = "ACTIVE"
      BY <1>2, <1>4, <2>2, <2>3 DEF Holds
    <2> QED  BY <2>4
  <1>7. CommitterHolds'
    <2> SUFFICES ASSUME NEW u \in Threads, committer'[u].pc # "idle"
                 PROVE  IF committer'[u].id \in exposed
                        THEN txns'[committer'[u].slot].id \in exposed \union {NoId}
                        ELSE /\ Holds(committer[u].slot, committer[u].id)'
                             /\ txns'[committer'[u].slot].status = "COMMITTED"
      BY <1>4 DEF CommitterHolds
    <2>1. u # t /\ committer'[u] = committer[u]
      BY <1>5
    <2>2. committer[u].id \in TxnIds /\ committer[u].slot \in Slots /\ committer[u].id # c.id
      BY <1>1, <2>1
    <2>3. CASE committer[u].id \in exposed
      BY <1>2, <2>1, <2>2, <2>3 DEF CommitterHolds
    <2>4. CASE committer[u].id \notin exposed
      <3>1. Holds(committer[u].slot, committer[u].id)
            /\ txns[committer[u].slot].status = "COMMITTED"
        BY <2>1, <2>4 DEF CommitterHolds
      <3>2. committer[u].slot # c.slot
        BY <1>1, <2>2, <2>4, <3>1 DEF Holds, CommitterHolds
      <3> QED  BY <1>2, <1>4, <2>1, <2>2, <2>4, <3>1, <3>2 DEF Holds
    <2> QED  BY <2>3, <2>4
  <1>8. Progress' /\ OwnEntries'
    BY <1>4, <1>5 DEF Progress, HasCome, OwnEntries
  <1>9. NotYetApplied'
    BY <1>3, <1>4 DEF NotYetApplied
  <1>10. AppliedIsPrefix'
    <2>1. c.id \notin exposed /\ c.rc = 0 => Len(applied[c.id]) = Len(buffered[c.id])
      BY <1>1 DEF Progress, HasCome
    <2> QED  BY <1>3, <1>4, <2>1 DEF AppliedIsPrefix
  <1> QED  BY <1>6, <1>7, <1>8, <1>9, <1>10 DEF KeptInv

LEMMA KeptNext == KeptInv /\ [Next]_vars => KeptInv'
  <1> SUFFICES ASSUME KeptInv, [Next]_vars PROVE KeptInv'
    OBVIOUS
  <1>0. CommitInv'
    BY CommitNext DEF KeptInv
  <1>1. ASSUME UNCHANGED <<txns, fate, buffered, committer, applied, exposed>> PROVE KeptInv'
    BY <1>0, <1>1 DEF KeptInv, OpenIsHeld, Holds, CommitterHolds, Progress, HasCome, OwnEntries,
                      NotYetApplied, AppliedIsPrefix
  <1>2. ASSUME NEW id \in Issued, NEW tb \in Tables, Ingest(id, tb) \/ Dml(id, tb)
        PROVE  KeptInv'
    <2>1. CASE Buffer(id, tb)
      <3>1. UNCHANGED <<fate, committer, applied, exposed>>
        BY <1>2 DEF Ingest, Dml
      <3> QED  BY <1>0, <2>1, <3>1, BufferKeeps
    <2>2. CASE ~Buffer(id, tb)
      BY <1>1, <1>2, <2>2 DEF Ingest, Dml
    <2> QED  BY <2>1, <2>2
  <1>3. CASE Begin
    BY <1>0, <1>3, BeginKeeps
  <1>4. ASSUME NEW id \in Issued, Rollback(id) PROVE KeptInv'
    BY <1>0, <1>4, RollbackKeeps
  <1>5. ASSUME NEW t \in Threads, NEW id \in Issued, Commit(t, id) PROVE KeptInv'
    BY <1>0, <1>5, CommitKeeps
  <1>6. ASSUME NEW h \in TxnIds, TimeoutCheck(h) PROVE KeptInv'
    BY <1>0, <1>6, TimeoutKeeps
  <1>7. ASSUME NEW tb \in Tables, DropTable(tb) PROVE KeptInv'
    BY <1>0, <1>7, DropTableKeeps
  <1>8. ASSUME NEW t \in Threads, CommitStep(t) PROVE KeptInv'
    BY <1>0, <1>8, ReadEntryKeeps, WriteEntryKeeps, CleanupKeeps DEF CommitStep
  <1>9. CASE UNCHANGED vars
    BY <1>1, <1>9 DEF vars
  <1> QED  BY <1>2, <1>3, <1>4, <1>5, <1>6, <1>7, <1>8, <1>9 DEF Next

LEMMA KeptInvariant == Spec => []KeptInv
  BY KeptInit, KeptNext, PTL DEF Spec

-----------------------------------------------------------------------------
(* An open transaction keeps its slot, its arena and all it buffered, unless  *)
(* it was put into a slot whose commit was still under way (find_free_slot    *)
(* never takes an ACTIVE slot, txn.c:29-31).                                  *)
THEOREM OpenTransactionIsKept == Spec => []OpenTxnIsKept
  <1>1. ASSUME KeptInv PROVE OpenTxnIsKept
    <2> USE KeptFacts, <1>1
    <2> SUFFICES ASSUME NEW id \in TxnIds \ exposed, fate[id] = "open"
                 PROVE  \E s \in FindSlot(id) :
                            /\ txns[s].arena = id
                            /\ SubSeq(txns[s].entries, 1, txns[s].nentries) = buffered[id]
      BY DEF OpenTxnIsKept
    <2>1. PICK s \in Slots : Holds(s, id) /\ txns[s].status = "ACTIVE"
      BY DEF OpenIsHeld
    <2> DEFINE es == txns[s].entries
               n == txns[s].nentries
    <2>2. n = Len(buffered[id]) /\ n \in Nat /\ \A i \in 1..n : es[i] = buffered[id][i]
      BY <2>1 DEF Holds, SlotType
    <2>3. buffered[id] \in Seq(Entry) /\ \A i \in 1..n : es[i] \in Entry
      BY <2>2
    <2>4. s \in FindSlot(id) /\ txns[s].arena = id
      BY <2>1 DEF Holds, FindSlot
    <2> HIDE DEF es, n
    <2> HIDE KeptFacts
    <2>5. /\ SubSeq(es, 1, n) \in Seq(Entry) /\ Len(SubSeq(es, 1, n)) = n
          /\ \A i \in 1..n : SubSeq(es, 1, n)[i] = es[i]
      BY <2>2, <2>3, SubSeqProperties
    <2>6. SubSeq(es, 1, n) = buffered[id]
      BY <2>2, <2>3, <2>5, SeqEqual
    <2> QED  BY <2>4, <2>6 DEF es, n
  <1> QED  BY <1>1, KeptInvariant, PTL

(* A COMMIT whose slot was not given away and whose tables stayed applies a   *)
(* prefix of what was buffered, in order and each entry once, and answers     *)
(* success for the whole of it only (txn.c:169-187).                          *)
THEOREM CommitAppliesItsBuffer == Spec => []CommitAppliesWhatWasBuffered
  <1>1. ASSUME KeptInv PROVE CommitAppliesWhatWasBuffered
    <2> USE KeptFacts, <1>1
    <2> SUFFICES ASSUME NEW id \in TxnIds \ exposed
                 PROVE  /\ IsPrefix(applied[id], buffered[id])
                        /\ fate[id] = "ok" => applied[id] = buffered[id]
      BY DEF CommitAppliesWhatWasBuffered
    <2> DEFINE a == applied[id]
               b == buffered[id]
               E == Entry \union {ZeroEntry, Garbage}
    <2>1. /\ a \in Seq(E) /\ b \in Seq(Entry) /\ Len(a) \in Nat /\ Len(b) \in Nat
      OBVIOUS
    <2>2. /\ Len(a) <= Len(b) /\ \A i \in 1..Len(a) : a[i] = b[i]
          /\ fate[id] = "ok" => Len(a) = Len(b)
      BY DEF AppliedIsPrefix
    <2>3. \A i \in 1..Len(b) : b[i] \in E
      BY <2>1
    <2>4. b \in Seq(E)
      BY <2>1
    <2> HIDE DEF a, b, E
    <2> HIDE KeptFacts
    <2>5. /\ SubSeq(b, 1, Len(a)) \in Seq(E) /\ Len(SubSeq(b, 1, Len(a))) = Len(a)
          /\ \A i \in 1..Len(a) : SubSeq(b, 1, Len(a))[i] = b[i]
      <3>1. \A i \in 1..Len(a) : b[i] \in E
        BY <2>1, <2>2, <2>3
      <3> QED  BY <2>1, <3>1, SubSeqProperties
    <2>6. SubSeq(b, 1, Len(a)) = a
      BY <2>1, <2>2, <2>5, SeqEqual
    <2>7. SubSeq(a, 1, Len(a)) = a
      BY <2>1, SubSeqFull
    <2>8. IsPrefix(a, b)
      BY <2>2, <2>6, <2>7 DEF IsPrefix
    <2>9. fate[id] = "ok" => a = b
      BY <2>1, <2>2, <2>4, SeqEqual
    <2> QED  BY <2>8, <2>9 DEF a, b
  <1> QED  BY <1>1, KeptInvariant, PTL

(* What was rolled back or timed out stays so, whoever retries a COMMIT        *)
(* (txn.c:20), and none of its operations reaches a table, not even through    *)
(* another's COMMIT, unless one of the two shared its slot.                    *)
THEOREM DiscardedStaysOut == Spec => DiscardedNeverApplied
  <1> DEFINE IsOver(id) == fate[id] \in {"rolledback", "timedout"}
  <1>1. ASSUME KeptInv, [Next]_vars, NEW x \in TxnIds, IsOver(x)
        PROVE  fate'[x] = fate[x]
    <2> USE <1>1, KeptFacts
    <2>1. ASSUME NEW id \in Issued, Rollback(id) PROVE fate'[x] = fate[x]
      <3>1. \A s \in FindSlot(id) : fate[id] = "open"
        BY FoundIsOpen
      <3> QED  BY <2>1, <3>1 DEF Rollback, TypeOK
    <2>2. ASSUME NEW id \in Issued, NEW t \in Threads, Commit(t, id) PROVE fate'[x] = fate[x]
      <3>1. \A s \in FindSlot(id) : fate[id] = "open"
        BY FoundIsOpen
      <3> QED  BY <2>2, <3>1 DEF Commit, TypeOK
    <2>3. ASSUME NEW h \in TxnIds, TimeoutCheck(h) PROVE fate'[x] = fate[x]
      <3>1. \A s \in Expired(h) : txns[s].id = x => fate[x] = "open"
        BY DEF Expired, CommitInv, ActiveIsOpen
      <3> QED  BY <2>3, <3>1 DEF TimeoutCheck
    <2>4. ASSUME NEW t \in Threads, CommitStep(t) PROVE fate'[x] = fate[x]
      BY <2>4 DEF CommitStep, ReadEntry, WriteEntry, Cleanup, history, TypeOK
    <2>5. CASE Begin
      <3>1. next_id \in TxnIds => fate[next_id] = "unborn"
        BY DEF CommitInv, IdsAreFresh, TxnIds, TypeOK
      <3> QED  BY <2>5, <3>1 DEF Begin, TypeOK
    <2>6. CASE UNCHANGED fate
      BY <2>6
    <2> QED
      BY <2>1, <2>2, <2>3, <2>4, <2>5, <2>6 DEF Next, Ingest, Dml, DropTable, vars
  <1>2. ASSUME KeptInv', NEW x \in TxnIds, IsOver(x)', NEW by \in TxnIds \ exposed',
               NEW i \in 1..Len(applied'[by])
        PROVE  applied'[by][i].txn # x
    <2>1. CommitInv' /\ OwnEntries' /\ NotYetApplied' /\ AppliedIsPrefix'
      BY <1>2 DEF KeptInv
    <2>2. applied'[by] \in Seq(Entry \union {ZeroEntry, Garbage}) /\ buffered'[by] \in Seq(Entry)
      BY <2>1 DEF CommitInv, TypeInv, TypeOK
    <2>3. by # x
      <3>1. applied'[x] = <<>>
        BY <1>2, <2>1 DEF NotYetApplied
      <3> QED  BY <3>1
    <2>4. i \in 1..Len(buffered'[by]) /\ applied'[by][i] = buffered'[by][i]
      BY <2>1, <2>2 DEF AppliedIsPrefix
    <2> QED  BY <2>1, <2>3, <2>4 DEF OwnEntries
  <1>3. KeptInv /\ KeptInv' /\ [Next]_vars =>
            [\A id \in TxnIds \ exposed' :
                /\ fate[id] \in {"rolledback", "timedout"} => fate'[id] = fate[id]
                /\ fate'[id] \in {"rolledback", "timedout"} =>
                    \A by \in TxnIds \ exposed' : \A i \in 1..Len(applied'[by]) :
                        applied'[by][i].txn # id]_vars
    BY <1>1, <1>2
  <1> QED  BY <1>3, KeptInvariant, PTL DEF Spec, DiscardedNeverApplied

=============================================================================
