----------------------------- MODULE Replication -----------------------------
(***************************************************************************)
(* Replication of a table's log: the queue and the worker of               *)
(* lib/cluster/replicator.c, the client of lib/cluster/storage_client.c    *)
(* over the messages of lib/cluster/proto.c, and the standby of            *)
(* src/storage_node/main.c.                                                *)
(*                                                                         *)
(* A record is its place in the stream of wal_append's callbacks.  The     *)
(* ring of REPL_QUEUE_CAP entries is a sequence of at most that length.    *)
(* A connection carries one message at a time, for the worker waits for    *)
(* the answer; but a standby runs a thread per connection, and the thread  *)
(* of one that broke, or whose leader is gone, may still have a message to *)
(* read while the next connection carries newer ones.                      *)
(***************************************************************************)
EXTENDS Integers, Sequences

CONSTANTS
    Writers,     \* threads of the gateway that append to the table
    nreplicas,   \* standbys, as entered with replicator_add_replica
    QueueCap,    \* REPL_QUEUE_CAP
    MaxRecords,  \* bound: records the leader appends
    MaxFaults    \* bound: crashes, restarts, disk errors, failed connections, re-creations

ASSUME ReplicationAssumption ==
    /\ QueueCap \in Nat \ {0} /\ {nreplicas, MaxRecords, MaxFaults} \subseteq Nat

Replicas == 1..nreplicas

VARIABLES
    file,      \* the leader's wal.bin: for each record its place in the stream, or NotShipped
    pending,   \* per writer: the record it has written and not yet handed to the callback
    stream,    \* history: per callback, the life of the leader and the record's place in file
    life,      \* how often the leader was started
    next_lsn,  \* the table's WAL
    queue,     \* r->queue from head to tail
    running,   \* r->running
    pc,        \* the worker: "ready", "asleep", "sending", "waiting", "exited"
    item,      \* the record in its hands
    to,        \* the replica it is at
    last_acked_lsn,
    conn,      \* per replica, the leader's end: "none", "up", "stale" (broken, unnoticed)
    wire,      \* per replica: messages its threads have not handled
    acked,     \* per replica: the answer to the worker's message is on its way
    up,        \* per replica: the process runs
    copy,      \* per replica: its log of the table
    g_last_lsn,
    faults,    \* bound
    dropped,   \* history: records the full queue did not take
    missed,    \* history: per replica, records that were not sent, got lost or were refused
    late       \* history: per replica, records given up when they were on the wire

mem == <<pending, next_lsn, queue, running, pc, item, to, last_acked_lsn, conn, acked>>
hist == <<faults, dropped, missed, late>>
vars == <<file, stream, life, wire, up, copy, g_last_lsn, mem, hist>>

NotShipped == 0
None == 0
Entry(i, lsn) == [rec |-> i, lsn |-> lsn]
NoItem == Entry(0, 0)

Init ==
    /\ file = <<>> /\ stream = <<>> /\ life = 1
    /\ pending = [w \in Writers |-> None]
    /\ next_lsn = 0 /\ queue = <<>> /\ running = TRUE
    /\ pc = "ready" /\ item = NoItem /\ to = 1 /\ last_acked_lsn = 0
    /\ conn = [r \in Replicas |-> "none"]
    /\ wire = [r \in Replicas |-> {}]
    /\ acked = [r \in Replicas |-> FALSE]
    /\ up = [r \in Replicas |-> TRUE]
    /\ copy = [r \in Replicas |-> <<>>]
    /\ g_last_lsn = [r \in Replicas |-> 0]
    /\ faults = 0 /\ dropped = {} /\ missed = [r \in Replicas |-> {}]
    /\ late = [r \in Replicas |-> {}]

Fault == faults < MaxFaults /\ faults' = faults + 1

-----------------------------------------------------------------------------
(* The leader's writers: wal_append writes the record, then fires the        *)
(* callback.  Nothing holds two writers of one table apart in between.       *)

WalAppend(w) ==
    /\ running /\ pending[w] = None /\ Len(file) < MaxRecords
    /\ file' = Append(file, NotShipped)
    /\ pending' = [pending EXCEPT ![w] = Len(file) + 1]
    /\ UNCHANGED <<stream, life, next_lsn, queue, running, pc, item, to, last_acked_lsn,
                   conn, acked, wire, up, copy, g_last_lsn, hist>>

(* Two writers between write and callback race for next_lsn++.               *)
LsnAfter(w) ==
    {next_lsn + 1} \union (IF \E v \in Writers \ {w} : pending[v] # None THEN {next_lsn} ELSE {})

NotWoken(p) == p                                                  \* mutant
Woken(p) == IF p = "asleep" THEN "ready" ELSE p
HasRoom == Len(queue) < QueueCap

ReplicatorEnqueue(w) ==
    /\ pending[w] # None
    /\ stream' = Append(stream, [life |-> life, at |-> pending[w]])
    /\ file' = [file EXCEPT ![pending[w]] = Len(stream) + 1]
    /\ next_lsn' \in LsnAfter(w)
    /\ pending' = [pending EXCEPT ![w] = None]
    /\ IF HasRoom
       THEN /\ queue' = Append(queue, Entry(Len(stream) + 1, next_lsn))
            /\ pc' = Woken(pc)
            /\ UNCHANGED dropped
       ELSE /\ dropped' = dropped \union {Len(stream) + 1}
            /\ UNCHANGED <<queue, pc>>
    /\ UNCHANGED <<life, running, item, to, last_acked_lsn, conn, acked, wire, up, copy,
                   g_last_lsn, faults, missed, late>>

-----------------------------------------------------------------------------
(* worker_fn                                                                 *)

Sleep ==
    /\ pc = "ready" /\ queue = <<>> /\ running
    /\ pc' = "asleep"
    /\ UNCHANGED <<file, stream, life, wire, up, copy, g_last_lsn, pending, next_lsn, queue,
                   running, item, to, last_acked_lsn, conn, acked, hist>>

ExitNow == ~running                                               \* mutant
MayExit == ~running /\ queue = <<>>
WorkerExits ==
    /\ pc = "ready" /\ MayExit
    /\ pc' = "exited"
    /\ UNCHANGED <<file, stream, life, wire, up, copy, g_last_lsn, pending, next_lsn, queue,
                   running, item, to, last_acked_lsn, conn, acked, hist>>

Rest == Tail(queue)
Take ==
    /\ pc = "ready" /\ queue # <<>> /\ ~MayExit
    /\ item' = Head(queue)
    /\ queue' = Rest
    /\ pc' = "sending" /\ to' = 1
    /\ UNCHANGED <<file, stream, life, wire, up, copy, g_last_lsn, pending, next_lsn,
                   running, last_acked_lsn, conn, acked, hist>>

Done ==
    /\ pc = "sending" /\ to > nreplicas
    /\ last_acked_lsn' = item.lsn
    /\ pc' = "ready" /\ item' = NoItem /\ to' = 1
    /\ UNCHANGED <<file, stream, life, wire, up, copy, g_last_lsn, pending, next_lsn, queue,
                   running, conn, acked, hist>>

At(r) == pc = "sending" /\ to = r

(* storage_client_connect is tried only when the client is not connected.    *)
Reconnect(r) ==
    /\ At(r) /\ conn[r] = "none" /\ up[r]
    /\ conn' = [conn EXCEPT ![r] = "up"]
    /\ UNCHANGED <<file, stream, life, wire, up, copy, g_last_lsn, pending, next_lsn, queue,
                   running, pc, item, to, last_acked_lsn, acked, hist>>

QueueRetried == IF HasRoom THEN Append(queue, item) ELSE queue     \* mutant
QueueAfterFailure == queue
GiveUp(r) ==
    /\ queue' = QueueAfterFailure
    /\ conn' = [conn EXCEPT ![r] = "none"]
    /\ to' = to + 1 /\ pc' = "sending"
    /\ acked' = [acked EXCEPT ![r] = FALSE]
    /\ UNCHANGED <<file, stream, life, wire, up, copy, g_last_lsn, pending, next_lsn,
                   running, item, last_acked_lsn, dropped>>
NeverSent(r) ==
    /\ missed' = [missed EXCEPT ![r] = @ \union {item.rec}]
    /\ UNCHANGED late
CannotConnect(r) ==
    /\ At(r) /\ conn[r] = "none"
    /\ IF up[r] THEN Fault ELSE UNCHANGED faults
    /\ NeverSent(r) /\ GiveUp(r)

ProtoSend(r) ==
    /\ At(r) /\ conn[r] = "up"
    /\ wire' = [wire EXCEPT ![r] = @ \union {item}]
    /\ pc' = "waiting"
    /\ UNCHANGED <<file, stream, life, up, copy, g_last_lsn, pending, next_lsn, queue,
                   running, item, to, last_acked_lsn, conn, acked, hist>>

(* Whatever the answer says, it only paces the worker.                       *)
ProtoRecv(r) ==
    /\ pc = "waiting" /\ to = r /\ acked[r]
    /\ acked' = [acked EXCEPT ![r] = FALSE]
    /\ to' = to + 1 /\ pc' = "sending"
    /\ UNCHANGED <<file, stream, life, wire, up, copy, g_last_lsn, pending, next_lsn, queue,
                   running, item, last_acked_lsn, conn, hist>>

(* The connection is broken: sending fails, or the answer does not come.     *)
(* The message may then be lost, applied, or still be read by the standby.   *)
OnTheWire(r) == {m.rec : m \in wire[r]}
SendFails(r) ==
    /\ conn[r] = "stale" /\ to = r
    /\ \/ pc = "sending" /\ NeverSent(r)
       \/ /\ pc = "waiting" /\ ~acked[r]
          /\ late' = [late EXCEPT ![r] = @ \union ({item.rec} \cap OnTheWire(r))]
          /\ UNCHANGED missed
    /\ UNCHANGED faults
    /\ GiveUp(r)

(* replicator_destroy: the worker is told and joined; it ships what is left. *)
ReplicatorDestroy ==
    /\ running /\ \A w \in Writers : pending[w] = None
    /\ running' = FALSE
    /\ pc' = Woken(pc)
    /\ UNCHANGED <<file, stream, life, wire, up, copy, g_last_lsn, pending, next_lsn, queue,
                   item, to, last_acked_lsn, conn, acked, hist>>

-----------------------------------------------------------------------------
(* The standby: client_thread_fn and handle_replicate.                       *)

HandleReplicate(r) ==
    \E m \in wire[r] :
        /\ up[r]
        /\ wire' = [wire EXCEPT ![r] = @ \ {m}]
        /\ \/ /\ copy' = [copy EXCEPT ![r] = Append(@, m.rec)]
              /\ g_last_lsn' = [g_last_lsn EXCEPT ![r] = m.lsn]
              /\ UNCHANGED <<faults, missed>>
           \/ /\ Fault                        \* result_code = -1, which nobody reads
              /\ missed' = [missed EXCEPT ![r] = @ \union {m.rec}]
              /\ UNCHANGED <<copy, g_last_lsn>>
        /\ acked' = IF pc = "waiting" /\ to = r /\ m = item /\ conn[r] = "up"
                    THEN [acked EXCEPT ![r] = TRUE] ELSE acked
        /\ UNCHANGED <<file, stream, life, up, pending, next_lsn, queue, running, pc, item, to,
                       last_acked_lsn, conn, dropped, late>>

(* A connection breaks while both processes live.  Its message is lost or    *)
(* left for the standby's thread, an answer on its way is lost or comes in.  *)
ConnectionBreaks(r) ==
    /\ conn[r] = "up" /\ Fault
    /\ conn' = [conn EXCEPT ![r] = "stale"]
    /\ \E lost \in SUBSET (wire[r] \cap {item}) :
        /\ wire' = [wire EXCEPT ![r] = @ \ lost]
        /\ missed' = [missed EXCEPT ![r] = @ \union {m.rec : m \in lost}]
    /\ acked' \in {acked, [acked EXCEPT ![r] = FALSE]}
    /\ UNCHANGED <<file, stream, life, up, copy, g_last_lsn, pending, next_lsn, queue, running,
                   pc, item, to, last_acked_lsn, dropped, late>>

NodeCrash(r) ==
    /\ up[r] /\ Fault
    /\ up' = [up EXCEPT ![r] = FALSE]
    /\ missed' = [missed EXCEPT ![r] = @ \union OnTheWire(r)]
    /\ wire' = [wire EXCEPT ![r] = {}]
    /\ conn' = [conn EXCEPT ![r] = IF @ = "up" THEN "stale" ELSE @]
    /\ g_last_lsn' = [g_last_lsn EXCEPT ![r] = 0]
    /\ UNCHANGED <<file, stream, life, copy, pending, next_lsn, queue, running, pc, item, to,
                   last_acked_lsn, acked, dropped, late>>
NodeRestart(r) ==
    /\ ~up[r]
    /\ up' = [up EXCEPT ![r] = TRUE]
    /\ UNCHANGED <<file, stream, life, wire, copy, g_last_lsn, mem, hist>>

(* The leader dies, or was stopped, and is started again: the queue is gone, *)
(* a record written and not yet handed to the callback is never shipped, and *)
(* the LSNs begin anew.  What it sent may still be read.                     *)
LeaderRestart ==
    /\ Fault
    /\ life' = life + 1
    /\ pending' = [w \in Writers |-> None]
    /\ next_lsn' = 0 /\ queue' = <<>> /\ running' = TRUE
    /\ pc' = "ready" /\ item' = NoItem /\ to' = 1 /\ last_acked_lsn' = 0
    /\ conn' = [r \in Replicas |-> "none"]
    /\ acked' = [r \in Replicas |-> FALSE]
    /\ UNCHANGED <<file, stream, wire, up, copy, g_last_lsn, dropped, missed, late>>

Worker == Sleep \/ WorkerExits \/ Take \/ Done
          \/ \E r \in Replicas : Reconnect(r) \/ CannotConnect(r) \/ ProtoSend(r)
                                 \/ ProtoRecv(r) \/ SendFails(r)
Next ==
    \/ \E w \in Writers : WalAppend(w) \/ ReplicatorEnqueue(w)
    \/ Worker
    \/ ReplicatorDestroy \/ LeaderRestart
    \/ \E r \in Replicas : HandleReplicate(r) \/ ConnectionBreaks(r)
                          \/ NodeCrash(r) \/ NodeRestart(r)

(* The worker and a standby's threads go on as long as their process runs;   *)
(* nothing promises that a standby which died is started again.              *)
Fairness == WF_vars(Worker) /\ \A r \in Replicas : WF_vars(HandleReplicate(r))

Spec == Init /\ [][Next]_vars
FairSpec == Spec /\ Fairness

-----------------------------------------------------------------------------
(* Properties *)

Records(q) == {q[k].rec : k \in DOMAIN q}

(* The queue never passes REPL_QUEUE_CAP, what is under way was emitted, and *)
(* a standby's answer is awaited only on a connection that was open.         *)
TypeOK ==
    /\ Len(queue) <= QueueCap /\ life \in 1..(faults + 1) /\ faults \in 0..MaxFaults
    /\ Records(queue) \union dropped \subseteq DOMAIN stream
    /\ pc \in {"ready", "asleep", "sending", "waiting", "exited"}
    /\ pc \in {"sending", "waiting"} <=> item # NoItem
    /\ pc = "asleep" => queue = <<>> /\ running
    /\ to \in 1..(nreplicas + 1)
    /\ \A r \in Replicas : acked[r] => pc = "waiting" /\ to = r /\ conn[r] # "none"

(* A standby never applies a record twice, nor, of one life of the leader, an *)
(* older record after a newer one, but for a record the worker gave up while  *)
(* it was still to be read from a broken connection: whatever is lost, broken *)
(* or restarted, a record that was not given up follows all it has            *)
(* (replicator.c:40-84, storage_node/main.c:211-220).                         *)
Shipping == INSTANCE AsyncShipping WITH
    Standbys <- Replicas, Lives <- 1..(MaxFaults + 1),
    stream <- [i \in DOMAIN stream |-> stream[i].life], got <- copy, late <- late
ShipsInOrder == Shipping!Spec

(* A record handed to the callback is applied by each standby or still on    *)
(* the way to it, unless the queue was full, it could not be sent, got lost  *)
(* or was refused on the way, or the leader died; and a stopped worker has   *)
(* left nothing (replicator.c:57-70).                                        *)
OnTheWay(r) ==
    Records(queue) \union OnTheWire(r)
    \union (IF to < r \/ (pc = "sending" /\ to = r) THEN {item.rec} ELSE {})
NothingVanishes ==
    /\ \A r \in Replicas : \A i \in DOMAIN stream :
        \/ stream[i].life < life
        \/ i \in {copy[r][k] : k \in DOMAIN copy[r]} \union dropped \union missed[r]
                 \union OnTheWay(r)
    /\ pc = "exited" => queue = <<>>

(* Tombstones name records by their offset: as long as a standby missed      *)
(* nothing, no record was given up on its way to it and the records came to  *)
(* the callback in the order of the file, its log is the beginning of the    *)
(* leader's (storage_node/main.c:98, "matching primary layout").             *)
Untroubled(r) ==
    /\ dropped = {} /\ missed[r] = {} /\ late[r] = {} /\ life = 1
    /\ \A i \in DOMAIN stream : stream[i].at = i
OffsetsMatch ==
    \A r \in Replicas : Untroubled(r) =>
        \A k \in DOMAIN copy[r] : k <= Len(file) /\ file[k] = copy[r][k]

(* What a standby has, and where (replicator.c:17-111).                      *)
StandbysFollow == NothingVanishes /\ OffsetsMatch

(* The worker always comes back to an empty queue: a record accepted while   *)
(* it falls asleep is not left lying, a dead standby does not stop it, and   *)
(* replicator_destroy's join returns (replicator.c:57-60, 107-111).          *)
WorkerCatchesUp ==
    /\ []<>(queue = <<>>)
    /\ ~running ~> (pc = "exited" \/ running)

-----------------------------------------------------------------------------
(* What comments and documents promise and the code does not keep.           *)

(* docs/CLUSTER.md:75-76: an overflow drops "the oldest entries".            *)
OverflowDropsTheOldest ==
    \A i \in dropped : \A r \in Replicas : \A k \in DOMAIN copy[r] : copy[r][k] < i =>
        stream[copy[r][k]].life < stream[i].life

(* replicator.c:7: lag_count is how far the replicas lag behind.             *)
LagTellsTheTruth ==
    (queue = <<>> /\ pc = "asleep") =>
        \A r \in Replicas : Len(copy[r]) = Len(stream)

(* storage_node/main.c:98: the standby's log has the primary's layout.       *)
LayoutMatches ==
    \A r \in Replicas : \A k \in DOMAIN copy[r] : k <= Len(file) /\ file[k] = copy[r][k]

(* docs/CLUSTER.md:73: "a standby may lag behind the leader"; its records    *)
(* may also come in another order, when a connection breaks.                 *)
OnlyLags ==
    \A r \in Replicas : \A j, k \in DOMAIN copy[r] :
        j < k /\ stream[copy[r][j]].life = stream[copy[r][k]].life => copy[r][j] < copy[r][k]

(* Across a restart of the leader, too, older records come first.            *)
OrderAcrossLives ==
    \A r \in Replicas : \A j, k \in DOMAIN copy[r] : j < k => copy[r][j] < copy[r][k]

=============================================================================
