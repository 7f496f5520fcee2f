--------------------------- MODULE ReplicationProofs ---------------------------
(***************************************************************************)
(* Theorems about Replication, for any number of writers, standbys, records *)
(* and faults: what a standby has and where (StandbysFollow), and the       *)
(* refinement of AsyncShipping (ShipsInOrder).                              *)
(***************************************************************************)
EXTENDS Replication, SequenceTheorems, TLAPS

LEMMA Bounds ==
    QueueCap \in Nat \ {0} /\ nreplicas \in Nat /\ MaxRecords \in Nat /\ MaxFaults \in Nat
  BY ReplicationAssumption DEF ReplicationAssumption
USE Bounds DEF Replicas

Emission == [life : Nat \ {0}, at : Nat]
Message == [rec : Nat, lsn : Nat]

Types ==
    /\ file \in Seq(Nat)
    /\ pending \in [Writers -> Nat]
    /\ stream \in Seq(Emission)
    /\ life \in Nat \ {0} /\ faults \in 0..MaxFaults /\ life <= faults + 1
    /\ next_lsn \in Nat
    /\ queue \in Seq(Message)
    /\ running \in BOOLEAN
    /\ pc \in {"ready", "asleep", "sending", "waiting", "exited"}
    /\ item \in Message /\ to \in 1..(nreplicas + 1)
    /\ last_acked_lsn \in Nat
    /\ conn \in [Replicas -> {"none", "up", "stale"}]
    /\ wire \in [Replicas -> SUBSET Message]
    /\ acked \in [Replicas -> BOOLEAN]
    /\ up \in [Replicas -> BOOLEAN]
    /\ copy \in [Replicas -> Seq(Nat)]
    /\ g_last_lsn \in [Replicas -> Nat]
    /\ missed \in [Replicas -> SUBSET Nat]
    /\ late \in [Replicas -> SUBSET Nat]

(* Record i was handed to the callback, in the life that is going on.        *)
Emitted(i) == i \in 1..Len(stream)
Current(i) == Emitted(i) /\ stream[i].life = life
Busy == pc \in {"sending", "waiting"}
(* The worker has the item for standby r still to send.                      *)
ToSend(r) == Busy /\ (to < r \/ (to = r /\ pc = "sending"))

(* What was handed to the callback stands in the file where stream says.     *)
Placed ==
    /\ \A i \in 1..Len(stream) :
        /\ stream[i].life <= life
        /\ stream[i].at \in 1..Len(file) /\ file[stream[i].at] = i
    /\ \A w \in Writers : pending[w] # None =>
        pending[w] \in 1..Len(file) /\ file[pending[w]] = NotShipped
    /\ \A v, w \in Writers : v # w /\ pending[v] = pending[w] => pending[w] = None

(* A stopped replicator has no writer between write and callback, and its    *)
(* worker leaves nothing.                                                    *)
Stopped ==
    /\ ~running => \A w \in Writers : pending[w] = None
    /\ pc = "exited" => ~running /\ queue = <<>>

(* Records leave the queue in their order, and all are of this life.         *)
Queued ==
    /\ \A k \in 1..Len(queue) : Current(queue[k].rec)
    /\ \A j, k \in 1..Len(queue) : j < k => queue[j].rec < queue[k].rec
    /\ Busy => /\ Current(item.rec)
               /\ \A k \in 1..Len(queue) : item.rec < queue[k].rec
    /\ ~Busy => to = 1

(* A message of this life on the wire is the one the worker waits for, or was *)
(* given up; of a life, one that was not given up is the newest.              *)
Wired ==
    \A r \in Replicas :
        /\ \A m \in wire[r] :
            /\ Emitted(m.rec)
            /\ stream[m.rec].life = life /\ m.rec \notin late[r] =>
                    pc = "waiting" /\ to = r /\ m = item
            /\ stream[m.rec].life = life /\ m = item => ~acked[r]
        /\ \A m, n \in wire[r] :
            /\ m.rec = n.rec => m = n
            /\ stream[m.rec].life = stream[n.rec].life /\ m.rec \notin late[r] => n.rec <= m.rec

(* What a standby applied is older than what of the same life is to come.    *)
CopiesEmitted == \A r \in Replicas : \A k \in 1..Len(copy[r]) : Emitted(copy[r][k])
WireIsNewer ==
    \A r \in Replicas : \A k \in 1..Len(copy[r]) : \A m \in wire[r] :
        /\ copy[r][k] # m.rec
        /\ stream[copy[r][k]].life = stream[m.rec].life /\ m.rec \notin late[r] => copy[r][k] < m.rec
(* What is still to be sent is newer than what was, applied or on a wire.    *)
BeforeRest(r, i) ==
    /\ \A j \in 1..Len(queue) : i < queue[j].rec
    /\ Busy => i <= item.rec
    /\ ToSend(r) => i < item.rec
RestIsNewer ==
    \A r \in Replicas : \A k \in 1..Len(copy[r]) :
        stream[copy[r][k]].life = life => BeforeRest(r, copy[r][k])
RestBehindWire ==
    \A r \in Replicas : \A m \in wire[r] :
        stream[m.rec].life = life => BeforeRest(r, m.rec)

(* NothingVanishes, record by record.                                        *)
Applied(r, i) == \E k \in 1..Len(copy[r]) : copy[r][k] = i
Awaited(r, i) ==
    \/ \E k \in 1..Len(queue) : queue[k].rec = i
    \/ \E m \in wire[r] : m.rec = i
    \/ ToSend(r) /\ item.rec = i
Accounted ==
    \A r \in Replicas : \A i \in 1..Len(stream) : stream[i].life = life =>
        Applied(r, i) \/ i \in dropped \/ i \in missed[r] \/ Awaited(r, i)

(* A standby that missed nothing has the stream's beginning.                 *)
Complete ==
    \A r \in Replicas : (dropped = {} /\ missed[r] = {} /\ late[r] = {} /\ life = 1) =>
        \A k \in 1..Len(copy[r]) : copy[r][k] = k

Acks == \A r \in Replicas : acked[r] => pc = "waiting" /\ to = r

Inv == /\ Types /\ Placed /\ Stopped /\ Queued /\ Acks /\ Wired
       /\ CopiesEmitted /\ WireIsNewer /\ RestIsNewer /\ RestBehindWire /\ Accounted /\ Complete

-----------------------------------------------------------------------------
LEMMA StreamType ==
    ASSUME Types, NEW i \in 1..Len(stream)
    PROVE  stream[i].life \in Nat \ {0}
  <1>1. stream \in Seq(Emission)
    BY DEF Types
  <1>2. stream[i] \in Emission
    BY <1>1
  <1> QED  BY <1>2 DEF Emission

LEMMA FaultType ==
    ASSUME Types, faults' = faults \/ Fault
    PROVE  faults' \in 0..MaxFaults /\ life <= faults' + 1
  <1>1. faults \in 0..MaxFaults /\ life \in Nat /\ life <= faults + 1
    BY DEF Types
  <1> QED  BY <1>1 DEF Fault

LEMMA CopyType ==
    ASSUME Types, NEW r \in Replicas, NEW k \in 1..Len(copy[r])
    PROVE  copy[r] \in Seq(Nat) /\ copy[r][k] \in Nat
  <1>1. copy[r] \in Seq(Nat)
    BY DEF Types
  <1> QED  BY <1>1

(* What a record's way looks like after a step that adds no record and ends  *)
(* no life: it is enough to follow those a standby still awaited.            *)
LEMMA AccountedKept ==
    ASSUME Accounted, UNCHANGED <<stream, life>>, dropped \subseteq dropped',
           \A r \in Replicas : missed[r] \subseteq missed'[r],
           \A r \in Replicas : \A i \in 1..Len(stream) : Applied(r, i) => Applied(r, i)',
           \A r \in Replicas : \A i \in 1..Len(stream) : Awaited(r, i) =>
               Awaited(r, i)' \/ Applied(r, i)' \/ i \in missed'[r]
    PROVE  Accounted'
  <1> SUFFICES ASSUME NEW r \in Replicas, NEW i \in 1..Len(stream), stream[i].life = life
               PROVE  Applied(r, i)' \/ i \in dropped' \/ i \in missed'[r] \/ Awaited(r, i)'
    BY DEF Accounted
  <1>1. CASE Applied(r, i)
    BY <1>1
  <1>2. CASE i \in dropped \/ i \in missed[r]
    BY <1>2
  <1>3. CASE Awaited(r, i)
    BY <1>3
  <1> QED  BY <1>1, <1>2, <1>3 DEF Accounted

(* Appending to the file moves nothing in it.                                *)
LEMMA WalAppendKeeps ==
    ASSUME Inv, NEW w \in Writers, WalAppend(w)
    PROVE  Inv'
  <1>1. /\ file \in Seq(Nat) /\ pending \in [Writers -> Nat] /\ NotShipped \in Nat
        /\ file' = Append(file, NotShipped) /\ pending' = [pending EXCEPT ![w] = Len(file) + 1]
        /\ UNCHANGED <<stream, life>>
    BY DEF Inv, Types, WalAppend, NotShipped
  <1>2. /\ file' \in Seq(Nat) /\ Len(file') = Len(file) + 1
        /\ \A i \in 1..Len(file) : file'[i] = file[i]
        /\ file'[Len(file) + 1] = NotShipped
    BY <1>1, AppendProperties
  <1>3. Types'
    <2>1. pending' \in [Writers -> Nat]
      BY <1>1
    <2>2. UNCHANGED <<stream, life, faults, next_lsn, queue, running, pc, item, to, last_acked_lsn,
                      conn, wire, acked, up, copy, g_last_lsn, missed, late>>
      BY DEF WalAppend, hist
    <2> QED  BY <1>2, <2>1, <2>2 DEF Inv, Types
  <1>4. Placed'
    <2>1. \A i \in 1..Len(stream') :
              /\ stream'[i].life <= life'
              /\ stream'[i].at \in 1..Len(file') /\ file'[stream'[i].at] = i
      <3>1. UNCHANGED <<stream, life>>
        BY DEF WalAppend, hist
      <3>2. \A i \in 1..Len(stream) :
                /\ stream[i].life <= life
                /\ stream[i].at \in 1..Len(file) /\ file[stream[i].at] = i
        BY DEF Inv, Placed
      <3>3. Len(file) \in Nat
        BY DEF Inv, Types
      <3> QED  BY <1>2, <3>1, <3>2, <3>3
    <2>2. \A v \in Writers : pending'[v] # None =>
              pending'[v] \in 1..Len(file') /\ file'[pending'[v]] = NotShipped
      BY <1>1, <1>2 DEF Inv, Placed
    <2>3. \A u, v \in Writers : u # v /\ pending'[u] = pending'[v] => pending'[v] = None
      BY <1>1 DEF Inv, Placed, None
    <2> QED  BY <2>1, <2>2, <2>3 DEF Placed
  <1>5. (Stopped /\ Queued /\ Acks)'
    BY DEF Inv, WalAppend, mem, hist, Stopped, Queued, Acks, Current, Emitted, Busy
  <1>6. (Wired /\ CopiesEmitted /\ WireIsNewer)'
    BY DEF Inv, WalAppend, mem, hist, Wired, CopiesEmitted, WireIsNewer, Emitted
  <1>7. (RestIsNewer /\ RestBehindWire /\ Complete)'
    BY DEF Inv, WalAppend, mem, hist, RestIsNewer, RestBehindWire, BeforeRest, Complete, Busy, ToSend
  <1>8. Accounted'
    BY DEF Inv, WalAppend, mem, hist, Accounted, Applied, Awaited, Busy, ToSend
  <1> QED  BY <1>3, <1>4, <1>5, <1>6, <1>7, <1>8 DEF Inv

(* The callback: the record has its place in the stream, and joins the queue *)
(* unless the queue is full.                                                 *)
LEMMA ReplicatorEnqueueKeeps ==
    ASSUME Inv, NEW w \in Writers, ReplicatorEnqueue(w)
    PROVE  Inv'
  <1> DEFINE n == Len(stream) + 1
             e == [life |-> life, at |-> pending[w]]
  <1>1. /\ file \in Seq(Nat) /\ pending[w] \in 1..Len(file) /\ file[pending[w]] = NotShipped
        /\ stream \in Seq(Emission) /\ e \in Emission
        /\ e.life = life /\ e.at = pending[w] /\ queue \in Seq(Message)
        /\ Entry(n, next_lsn) \in Message /\ Entry(n, next_lsn).rec = n
    BY DEF Inv, Types, Placed, ReplicatorEnqueue, Entry, Message, Emission
  <1>0. n = Len(stream) + 1 /\ Len(stream) \in Nat /\ Len(queue) \in Nat
    BY <1>1, LenProperties
  <1>2. /\ stream' \in Seq(Emission) /\ Len(stream') = n
        /\ \A i \in 1..Len(stream) : stream'[i] = stream[i]
        /\ stream'[n] = e
    <2>1. stream' = Append(stream, e)
      BY DEF ReplicatorEnqueue
    <2> QED  BY <1>1, <2>1, AppendProperties
  <1>3. /\ file' \in Seq(Nat) /\ Len(file') = Len(file)
        /\ \A k \in 1..Len(file) : file'[k] = IF k = pending[w] THEN n ELSE file[k]
    BY <1>1 DEF ReplicatorEnqueue
  <1>4. /\ queue' \in Seq(Message)
        /\ \/ queue' = queue /\ dropped' = dropped \union {n}
           \/ /\ Len(queue') = Len(queue) + 1 /\ queue'[Len(queue) + 1].rec = n
              /\ \A k \in 1..Len(queue) : queue'[k] = queue[k]
              /\ dropped' = dropped
    <2>1. CASE HasRoom
      <3>1. queue' = Append(queue, Entry(n, next_lsn)) /\ dropped' = dropped
        BY <2>1 DEF ReplicatorEnqueue
      <3> QED  BY <1>1, <3>1, AppendProperties
    <2>2. CASE ~HasRoom
      BY <1>1, <2>2 DEF ReplicatorEnqueue
    <2> QED  BY <2>1, <2>2
  <1> HIDE DEF n, e
  <1>5. /\ UNCHANGED <<life, running, item, to, conn, acked, wire, up, copy, missed, late, faults>>
        /\ pc' = pc \/ (pc = "asleep" /\ pc' = "ready")
        /\ pending' = [pending EXCEPT ![w] = None]
        /\ running
    BY DEF Inv, Stopped, ReplicatorEnqueue, Woken
  <1>n. /\ Len(stream') = n /\ stream'[n].life = life /\ stream'[n].at = pending[w]
        /\ \A i \in 1..Len(stream) : stream'[i] = stream[i]
    BY <1>1, <1>2
  <1>6. Types'
    <2>1. next_lsn' \in Nat
      BY DEF Inv, Types, ReplicatorEnqueue, LsnAfter
    <2>2. UNCHANGED <<last_acked_lsn, g_last_lsn>> /\ None \in Nat
      BY DEF ReplicatorEnqueue, None
    <2> QED  BY <1>2, <1>3, <1>4, <1>5, <2>1, <2>2 DEF Inv, Types
  <1>7. Placed'
    <2>1. \A i \in 1..Len(stream') :
              /\ stream'[i].life <= life'
              /\ stream'[i].at \in 1..Len(file') /\ file'[stream'[i].at] = i
      <3> SUFFICES ASSUME NEW i \in 1..n
                   PROVE  /\ stream'[i].life <= life
                          /\ stream'[i].at \in 1..Len(file) /\ file'[stream'[i].at] = i
        BY <1>2, <1>3, <1>5
      <3>1. CASE i = n
        BY <1>1, <1>2, <1>3, <3>1 DEF Inv, Types
      <3>2. CASE i # n
        <4>1. i \in 1..Len(stream) /\ stream'[i] = stream[i] /\ i # NotShipped
          BY <1>0, <1>n, <3>2 DEF NotShipped
        <4>2. /\ stream[i].life <= life /\ stream[i].at \in 1..Len(file)
              /\ file[stream[i].at] = i
          BY <4>1 DEF Inv, Placed
        <4> QED  BY <1>1, <1>3, <4>1, <4>2
      <3> QED  BY <3>1, <3>2
    <2>2. \A v \in Writers : pending'[v] # None =>
              pending'[v] \in 1..Len(file') /\ file'[pending'[v]] = NotShipped
      <3> SUFFICES ASSUME NEW v \in Writers, pending'[v] # None
                   PROVE  pending'[v] \in 1..Len(file) /\ file'[pending'[v]] = NotShipped
        BY <1>3
      <3>1. v # w /\ pending'[v] = pending[v]
        BY <1>5 DEF Inv, Types
      <3>2. /\ pending[v] \in 1..Len(file) /\ file[pending[v]] = NotShipped
            /\ pending[v] # pending[w]
        BY <3>1 DEF Inv, Placed
      <3> QED  BY <1>3, <3>1, <3>2
    <2>3. \A u, v \in Writers : u # v /\ pending'[u] = pending'[v] => pending'[v] = None
      BY <1>5 DEF Inv, Types, Placed, None
    <2> QED  BY <2>1, <2>2, <2>3 DEF Placed
  <1>8. Stopped' /\ Acks'
    BY <1>5 DEF Inv, Stopped, Acks
  <1>9. /\ \A i : Emitted(i) => Emitted(i)' /\ stream'[i] = stream[i] /\ i < n
        /\ Busy' <=> Busy
    BY <1>0, <1>n, <1>5 DEF Emitted, Busy
  <1>10. \A i : Current(i) => Current(i)' /\ i < n
    BY <1>5, <1>9 DEF Current
  <1>11. \A i : i = n => Current(i)'
    BY <1>0, <1>n, <1>5 DEF Current, Emitted
  <1>12. Queued'
    <2>1. (\A k \in 1..Len(queue) : Current(queue[k].rec))'
      <3> SUFFICES ASSUME NEW k \in 1..Len(queue')  PROVE  Current(queue[k].rec)'
        OBVIOUS
      <3>1. queue'[k].rec = n \/ Current(queue'[k].rec)
        BY <1>0, <1>4 DEF Inv, Queued
      <3> QED  BY <1>10, <1>11, <3>1
    <2>2. \A j, k \in 1..Len(queue') : j < k => queue'[j].rec < queue'[k].rec
      <3> SUFFICES ASSUME NEW j \in 1..Len(queue'), NEW k \in 1..Len(queue'), j < k
                   PROVE  queue'[j].rec < queue'[k].rec
        OBVIOUS
      <3>1. j \in 1..Len(queue) /\ queue'[j] = queue[j]
        BY <1>0, <1>4
      <3>2. queue[j].rec < n
        BY <1>10, <3>1 DEF Inv, Queued
      <3>3. CASE k \in 1..Len(queue) /\ queue'[k] = queue[k]
        BY <3>1, <3>3 DEF Inv, Queued
      <3>4. CASE queue'[k].rec = n
        BY <3>1, <3>2, <3>4
      <3> QED  BY <1>4, <3>3, <3>4
    <2>3. item' = item
      BY <1>5
    <2>4. Busy' => /\ Current(item.rec)'
                   /\ \A k \in 1..Len(queue') : item'.rec < queue'[k].rec
      BY <1>0, <1>4, <1>9, <1>10, <2>3 DEF Inv, Queued
    <2>5. ~Busy' => to' = 1
      BY <1>5, <1>9 DEF Inv, Queued
    <2> QED  BY <2>1, <2>2, <2>4, <2>5 DEF Queued
  <1>13. Wired'
    BY <1>5, <1>9 DEF Inv, Wired, Busy
  <1>14. CopiesEmitted' /\ WireIsNewer'
    BY <1>5, <1>9 DEF Inv, CopiesEmitted, WireIsNewer, Wired
  <1>15. RestIsNewer' /\ RestBehindWire'
    <2>1. ASSUME NEW r \in Replicas, NEW i, Emitted(i), BeforeRest(r, i)
          PROVE  /\ \A j \in 1..Len(queue') : i < queue'[j].rec
                 /\ Busy => i <= item.rec
                 /\ ToSend(r)' => i < item.rec
      <3>1. i < n
        BY <1>9, <2>1
      <3>2. ToSend(r)' => ToSend(r)
        BY <1>5, <1>9 DEF ToSend, Busy
      <3>3. \A j \in 1..Len(queue') :
                queue'[j].rec = n \/ (j \in 1..Len(queue) /\ queue'[j] = queue[j])
        BY <1>0, <1>4
      <3> QED  BY <2>1, <3>1, <3>2, <3>3 DEF BeforeRest
    <2>2. ASSUME NEW r \in Replicas, NEW k \in 1..Len(copy[r]), stream[copy[r][k]].life = life
          PROVE  Emitted(copy[r][k]) /\ BeforeRest(r, copy[r][k])
      BY <2>2 DEF Inv, CopiesEmitted, RestIsNewer
    <2>3. ASSUME NEW r \in Replicas, NEW m \in wire[r], stream[m.rec].life = life
          PROVE  Emitted(m.rec) /\ BeforeRest(r, m.rec)
      BY <2>3 DEF Inv, Wired, RestBehindWire
    <2>4. UNCHANGED <<copy, wire, life>> /\ item' = item
      BY <1>5
    <2>5. RestIsNewer'
      BY <1>9, <2>1, <2>2, <2>4 DEF Inv, CopiesEmitted, RestIsNewer, BeforeRest
    <2>6. RestBehindWire'
      BY <1>9, <2>1, <2>3, <2>4 DEF Inv, Wired, RestBehindWire, BeforeRest
    <2> QED  BY <2>5, <2>6
  <1>16. Accounted'
    <2> SUFFICES ASSUME NEW r \in Replicas, NEW i \in 1..n, stream'[i].life = life
                 PROVE  Applied(r, i) \/ i \in dropped' \/ i \in missed[r] \/ Awaited(r, i)'
      BY <1>2, <1>5 DEF Accounted, Applied
    <2>1. CASE i = n
      BY <1>0, <1>4, <2>1 DEF Awaited
    <2>2. CASE i # n
      <3>1. i \in 1..Len(stream) /\ stream[i].life = life
        BY <1>0, <1>n, <2>2
      <3>2. Awaited(r, i) => Awaited(r, i)'
        BY <1>0, <1>4, <1>5, <1>9 DEF Awaited, ToSend
      <3> QED  BY <1>4, <3>1, <3>2 DEF Inv, Accounted
    <2> QED  BY <2>1, <2>2
  <1>17. Complete'
    BY <1>4, <1>5 DEF Inv, Complete
  <1> QED  BY <1>6, <1>7, <1>8, <1>12, <1>13, <1>14, <1>15, <1>16, <1>17 DEF Inv

(* The worker between two items: it holds nothing, before and after.         *)
LEMMA SleepKeeps ==
    ASSUME Inv, Sleep \/ WorkerExits
    PROVE  Inv'
  <1>1. /\ UNCHANGED <<file, stream, life, wire, copy, pending, queue, running, item, to,
                       conn, acked, dropped, missed, late>>
        /\ ~Busy /\ ~Busy' /\ pc' # "waiting"
        /\ pc' = "exited" => ~running /\ queue = <<>>
    BY DEF Sleep, WorkerExits, MayExit, Busy, mem, hist
  <1>2. Types'
    BY DEF Inv, Types, Sleep, WorkerExits, mem, hist
  <1>3. (Placed /\ Stopped /\ Queued)'
    BY <1>1 DEF Inv, Placed, Stopped, Queued, Current, Emitted
  <1>4. (Acks /\ Wired)'
    BY <1>1 DEF Inv, Acks, Wired, Emitted, Busy
  <1>5. (CopiesEmitted /\ WireIsNewer /\ RestIsNewer /\ RestBehindWire /\ Complete)'
    BY <1>1 DEF Inv, CopiesEmitted, WireIsNewer, RestIsNewer, RestBehindWire, BeforeRest, Complete, Emitted, ToSend
  <1>6. Accounted'
    BY <1>1 DEF Inv, Accounted, Applied, Awaited, ToSend
  <1> QED  BY <1>2, <1>3, <1>4, <1>5, <1>6 DEF Inv

(* The head of the queue comes into the worker's hands: it is older than     *)
(* what stays, and newer than what a standby applied of this life.           *)
LEMMA TakeKeeps ==
    ASSUME Inv, Take
    PROVE  Inv'
  <1>1. /\ UNCHANGED <<file, stream, life, wire, copy, pending, running, conn, acked,
                       dropped, missed, late>>
        /\ pc = "ready" /\ ~Busy /\ pc' = "sending" /\ Busy' /\ to' = 1
    BY DEF Take, Busy, mem, hist
  <1>2. /\ queue' \in Seq(Message) /\ item' \in Message /\ Len(queue) \in Nat \ {0}
        /\ Len(queue') = Len(queue) - 1
        /\ \A k \in 1..Len(queue') : queue'[k] = queue[k + 1]
        /\ item' = queue[1]
    <2>1. queue \in Seq(Message) /\ queue # <<>> /\ queue' = Tail(queue) /\ item' = Head(queue)
      BY DEF Inv, Types, Take, Rest
    <2> QED  BY <2>1, HeadTailProperties, EmptySeq
  <1>3. /\ \A k \in 1..Len(queue') : k + 1 \in 1..Len(queue) /\ 1 < k + 1
        /\ 1 \in 1..Len(queue)
    BY <1>2
  <1>4. Types'
    BY <1>1, <1>2 DEF Inv, Types, Take, mem, hist
  <1>5. (Placed /\ Stopped /\ Acks)'
    BY <1>1 DEF Inv, Placed, Stopped, Acks
  <1>6. Queued'
    <2>1. \A i : Current(i)' <=> Current(i)
      BY <1>1 DEF Current, Emitted
    <2>2. (\A k \in 1..Len(queue) : Current(queue[k].rec))'
      BY <1>2, <1>3, <2>1 DEF Inv, Queued
    <2>3. \A j, k \in 1..Len(queue') : j < k => queue'[j].rec < queue'[k].rec
      <3> SUFFICES ASSUME NEW j \in 1..Len(queue'), NEW k \in 1..Len(queue'), j < k
                   PROVE  queue[j + 1].rec < queue[k + 1].rec
        BY <1>2
      <3> QED  BY <1>2, <1>3 DEF Inv, Queued
    <2>4. Current(item.rec)' /\ \A k \in 1..Len(queue') : item'.rec < queue'[k].rec
      BY <1>2, <1>3, <2>1 DEF Inv, Queued
    <2> QED  BY <1>1, <2>2, <2>3, <2>4 DEF Queued
  <1>7. Wired'
    <2>1. \A r \in Replicas : \A m \in wire[r] : stream[m.rec].life = life => m.rec \in late[r]
      BY <1>1 DEF Inv, Wired
    <2>2. \A r \in Replicas : ~acked[r]
      BY <1>1 DEF Inv, Acks
    <2> QED  BY <1>1, <2>1, <2>2 DEF Inv, Wired, Emitted
  <1>8. (CopiesEmitted /\ WireIsNewer /\ Complete)'
    BY <1>1 DEF Inv, CopiesEmitted, WireIsNewer, Complete, Emitted
  <1>9. RestIsNewer' /\ RestBehindWire'
    <2>1. ASSUME NEW r \in Replicas, NEW i \in Nat, BeforeRest(r, i)
          PROVE  /\ \A j \in 1..Len(queue') : i < queue'[j].rec
                 /\ i < item'.rec /\ i <= item'.rec
      <3>1. item'.rec = queue[1].rec /\ \A j \in 1..Len(queue') : queue'[j].rec = queue[j + 1].rec
        BY <1>2
      <3>2. item'.rec \in Nat
        BY <1>2 DEF Message
      <3>3. \A j \in 1..Len(queue) : i < queue[j].rec
        BY <2>1 DEF BeforeRest
      <3>4. i < item'.rec
        BY <1>3, <3>1, <3>3
      <3>5. i <= item'.rec
        BY <3>2, <3>4
      <3>6. ASSUME NEW j \in 1..Len(queue')  PROVE i < queue'[j].rec
        BY <1>3, <3>1, <3>3
      <3> QED  BY <3>4, <3>5, <3>6
    <2>2. ASSUME NEW r \in Replicas, NEW k \in 1..Len(copy[r]), stream[copy[r][k]].life = life
          PROVE  copy[r][k] \in Nat /\ BeforeRest(r, copy[r][k])
      BY <2>2, CopyType DEF Inv, RestIsNewer
    <2>3. ASSUME NEW r \in Replicas, NEW m \in wire[r], stream[m.rec].life = life
          PROVE  m.rec \in Nat /\ BeforeRest(r, m.rec)
      BY <2>3 DEF Inv, Wired, Emitted, RestBehindWire
    <2>4. RestIsNewer'
      BY <1>1, <2>1, <2>2 DEF RestIsNewer, BeforeRest
    <2>5. RestBehindWire'
      BY <1>1, <2>1, <2>3 DEF RestBehindWire, BeforeRest
    <2> QED  BY <2>4, <2>5
  <1>10. Accounted'
    <2>1. ASSUME NEW r \in Replicas, NEW i \in 1..Len(stream), Awaited(r, i)
          PROVE  Awaited(r, i)'
      <3>1. CASE \E k \in 1..Len(queue) : queue[k].rec = i
        <4>1. PICK k \in 1..Len(queue) : queue[k].rec = i
          BY <3>1
        <4>2. CASE k = 1
          BY <1>1, <1>2, <4>1, <4>2 DEF Awaited, ToSend
        <4>3. CASE k # 1
          <5>1. k - 1 \in 1..Len(queue') /\ queue'[k - 1].rec = i
            BY <1>2, <4>1, <4>3
          <5> QED  BY <5>1 DEF Awaited
        <4> QED  BY <4>2, <4>3
      <3>2. CASE \E m \in wire[r] : m.rec = i
        BY <1>1, <3>2 DEF Awaited
      <3> QED  BY <1>1, <2>1, <3>1, <3>2 DEF Awaited, ToSend
    <2>2. \A r \in Replicas : \A i \in 1..Len(stream) : Applied(r, i) => Applied(r, i)'
      BY <1>1 DEF Applied
    <2> QED  BY <1>1, <2>1, <2>2, AccountedKept DEF Inv
  <1> QED  BY <1>4, <1>5, <1>6, <1>7, <1>8, <1>9, <1>10 DEF Inv

(* Every standby had its turn.                                               *)
LEMMA DoneKeeps ==
    ASSUME Inv, Done
    PROVE  Inv'
  <1>1. /\ UNCHANGED <<file, stream, life, wire, copy, pending, queue, running, conn, acked,
                       dropped, missed, late>>
        /\ pc = "sending" /\ to > nreplicas /\ pc' = "ready" /\ ~Busy' /\ to' = 1
    BY DEF Done, Busy, mem, hist
  <1>2. Types'
    BY DEF Inv, Types, Done, mem, hist, NoItem, Entry, Message
  <1>3. (Placed /\ Stopped /\ Queued)'
    BY <1>1 DEF Inv, Placed, Stopped, Queued, Current, Emitted
  <1>4. (Acks /\ Wired)'
    BY <1>1 DEF Inv, Acks, Wired, Emitted
  <1>5. \A r \in Replicas : ~ToSend(r) /\ ~ToSend(r)'
    BY <1>1 DEF ToSend, Inv, Types
  <1>6. (CopiesEmitted /\ WireIsNewer /\ RestIsNewer /\ RestBehindWire /\ Complete)'
    BY <1>1, <1>5 DEF Inv, CopiesEmitted, WireIsNewer, RestIsNewer, RestBehindWire, BeforeRest, Complete, Emitted
  <1>7. Accounted'
    BY <1>1, <1>5 DEF Inv, Accounted, Applied, Awaited
  <1> QED  BY <1>2, <1>3, <1>4, <1>6, <1>7 DEF Inv

LEMMA ReconnectKeeps ==
    ASSUME Inv, NEW r \in Replicas, Reconnect(r)
    PROVE  Inv'
  <1>1. /\ UNCHANGED <<file, stream, life, wire, copy, pending, queue, running, pc, item, to,
                       acked, dropped, missed, late>>
        /\ pc = "sending"
    BY DEF Reconnect, At, mem, hist
  <1>2. Types'
    BY DEF Inv, Types, Reconnect, mem, hist
  <1>3. (Placed /\ Stopped /\ Queued)'
    BY <1>1 DEF Inv, Placed, Stopped, Queued, Current, Emitted, Busy
  <1>4. (Acks /\ Wired)'
    BY <1>1 DEF Inv, Acks, Wired, Emitted
  <1>5. \A q \in Replicas : /\ ToSend(q)' <=> ToSend(q)
                            /\ \A i : BeforeRest(q, i)' <=> BeforeRest(q, i)
    BY <1>1 DEF BeforeRest, ToSend, Busy
  <1>6. (CopiesEmitted /\ WireIsNewer /\ Complete)'
    BY <1>1 DEF Inv, CopiesEmitted, WireIsNewer, Complete, Emitted
  <1>7. (RestIsNewer /\ RestBehindWire)'
    BY <1>1, <1>5 DEF Inv, RestIsNewer, RestBehindWire
  <1>8. Accounted'
    BY <1>1, <1>5 DEF Inv, Accounted, Applied, Awaited
  <1> QED  BY <1>2, <1>3, <1>4, <1>6, <1>7, <1>8 DEF Inv

(* The worker passes over a standby: the record was not sent, or is given up *)
(* on its way, if it still is on the wire.                                   *)
LEMMA GiveUpKeeps ==
    ASSUME Inv, NEW r \in Replicas, GiveUp(r), Busy, to = r, faults' = faults \/ Fault,
           \/ pc = "sending" /\ NeverSent(r)
           \/ /\ pc = "waiting" /\ UNCHANGED missed
              /\ late' = [late EXCEPT ![r] = @ \union ({item.rec} \cap OnTheWire(r))]
    PROVE  Inv'
  <1>1. /\ UNCHANGED <<file, stream, life, wire, copy, pending, queue, running, item, dropped>>
        /\ conn' = [conn EXCEPT ![r] = "none"] /\ acked' = [acked EXCEPT ![r] = FALSE]
        /\ Busy /\ Busy' /\ pc' = "sending" /\ to' = to + 1 /\ to = r
    BY DEF GiveUp, QueueAfterFailure, Busy
  <1>2. /\ \A q \in Replicas : missed[q] \subseteq missed'[q] /\ late[q] \subseteq late'[q]
        /\ \A q \in Replicas : q # r => missed'[q] = missed[q] /\ late'[q] = late[q]
        /\ late'[r] \subseteq late[r] \union {item.rec}
        /\ pc = "sending" => item.rec \in missed'[r]
        /\ pc = "waiting" /\ item \in wire[r] => item.rec \in late'[r]
        /\ pc \in {"sending", "waiting"}
    <2>1. missed \in [Replicas -> SUBSET Nat] /\ late \in [Replicas -> SUBSET Nat]
      BY DEF Inv, Types
    <2>2. CASE pc = "sending" /\ NeverSent(r)
      BY <2>1, <2>2 DEF NeverSent
    <2>3. CASE /\ pc = "waiting" /\ UNCHANGED missed
               /\ late' = [late EXCEPT ![r] = @ \union ({item.rec} \cap OnTheWire(r))]
      <3>1. item \in wire[r] => item.rec \in OnTheWire(r)
        BY DEF OnTheWire
      <3> HIDE DEF OnTheWire
      <3> QED  BY <2>1, <2>3, <3>1
    <2> QED  BY <2>2, <2>3
  <1>3. Types'
    <2>1. faults' \in 0..MaxFaults /\ life' <= faults' + 1
      BY <1>1, FaultType DEF Inv
    <2>2. item.rec \in Nat /\ UNCHANGED <<up, g_last_lsn, last_acked_lsn, next_lsn>>
      BY DEF Inv, Types, Message, GiveUp
    <2>3. to' \in 1..(nreplicas + 1)
      BY <1>1 DEF Inv, Types
    <2>4. missed' \in [Replicas -> SUBSET Nat] /\ late' \in [Replicas -> SUBSET Nat]
      <3>1. missed \in [Replicas -> SUBSET Nat] /\ late \in [Replicas -> SUBSET Nat]
        BY DEF Inv, Types
      <3>2. \/ UNCHANGED late /\ missed' = [missed EXCEPT ![r] = @ \union {item.rec}]
            \/ /\ UNCHANGED missed
               /\ late' = [late EXCEPT ![r] = @ \union ({item.rec} \cap OnTheWire(r))]
        BY DEF NeverSent
      <3> QED  BY <2>2, <3>1, <3>2
    <2> QED  BY <1>1, <2>1, <2>2, <2>3, <2>4 DEF Inv, Types
  <1>4. (Placed /\ Stopped /\ Queued /\ CopiesEmitted)'
    BY <1>1 DEF Inv, Placed, Stopped, Queued, CopiesEmitted, Current, Emitted
  <1>5. \A q \in Replicas : ~acked'[q]
    BY <1>1 DEF Inv, Acks, Types
  <1>6. Acks'
    BY <1>5 DEF Acks
  <1>7. \A q \in Replicas : \A m \in wire[q] : stream[m.rec].life = life => m.rec \in late'[q]
    BY <1>1, <1>2 DEF Inv, Wired
  <1>8. Wired'
    BY <1>1, <1>2, <1>5, <1>7 DEF Inv, Wired, Emitted
  <1>9. WireIsNewer'
    BY <1>1, <1>2 DEF Inv, WireIsNewer
  <1>10. \A q \in Replicas : ToSend(q)' => ToSend(q) /\ q # r
    BY <1>1 DEF Inv, Types, ToSend
  <1>11. \A q \in Replicas : ToSend(q) /\ q # r => ToSend(q)'
    BY <1>1 DEF Inv, Types, ToSend
  <1>12. RestIsNewer' /\ RestBehindWire'
    BY <1>1, <1>10 DEF Inv, RestIsNewer, RestBehindWire, BeforeRest
  <1>13. Accounted'
    <2>1. ASSUME NEW q \in Replicas, NEW i \in 1..Len(stream), Awaited(q, i)
          PROVE  Awaited(q, i)' \/ Applied(q, i)' \/ i \in missed'[q]
      <3>1. CASE ToSend(q) /\ item.rec = i /\ q = r
        BY <1>1, <1>2, <3>1 DEF Inv, Types, ToSend
      <3> QED  BY <1>1, <1>11, <2>1, <3>1 DEF Awaited
    <2>2. \A q \in Replicas : \A i \in 1..Len(stream) : Applied(q, i) => Applied(q, i)'
      BY <1>1 DEF Applied
    <2> QED  BY <1>1, <1>2, <2>1, <2>2, AccountedKept DEF Inv
  <1>14. Complete'
    BY <1>1, <1>2 DEF Inv, Types, Complete
  <1> QED  BY <1>3, <1>4, <1>6, <1>8, <1>9, <1>12, <1>13, <1>14 DEF Inv

LEMMA CannotConnectKeeps ==
    ASSUME Inv, NEW r \in Replicas, CannotConnect(r)
    PROVE  Inv'
  BY GiveUpKeeps DEF CannotConnect, At, Busy

LEMMA SendFailsKeeps ==
    ASSUME Inv, NEW r \in Replicas, SendFails(r)
    PROVE  Inv'
  BY GiveUpKeeps DEF SendFails, Busy

(* The message goes out; whatever else is on this wire is of an earlier life  *)
(* or was given up.                                                          *)
LEMMA ProtoSendKeeps ==
    ASSUME Inv, NEW r \in Replicas, ProtoSend(r)
    PROVE  Inv'
  <1>1. /\ UNCHANGED <<file, stream, life, copy, pending, queue, running, item, to, conn, acked,
                       dropped, missed, late>>
        /\ wire' = [wire EXCEPT ![r] = @ \union {item}]
        /\ Busy /\ Busy' /\ pc = "sending" /\ pc' = "waiting" /\ to = r /\ conn[r] = "up"
    BY DEF ProtoSend, At, Busy, mem, hist
  <1>2. Types'
    BY <1>1 DEF Inv, Types, ProtoSend, mem, hist
  <1>3. (Placed /\ Stopped /\ Queued /\ CopiesEmitted /\ Complete)'
    BY <1>1 DEF Inv, Placed, Stopped, Queued, CopiesEmitted, Complete, Current, Emitted
  <1>4. Emitted(item.rec) /\ stream[item.rec].life = life
    BY <1>1 DEF Inv, Queued, Current
  <1>5. \A q \in Replicas : ~acked[q]
    BY <1>1 DEF Inv, Acks
  <1>6. \A q \in Replicas : \A m \in wire[q] :
            Emitted(m.rec) /\ (stream[m.rec].life = life => m.rec \in late[q])
    BY <1>1 DEF Inv, Wired
  <1>7. \A q \in Replicas : \A m \in wire'[q] : m \in wire[q] \/ (q = r /\ m = item)
    BY <1>1 DEF Inv, Types
  <1>8. \A q \in Replicas : ToSend(q)' => ToSend(q)
    BY <1>1 DEF ToSend
  <1>9. ToSend(r) /\ item.rec \in Nat
    BY <1>1 DEF Inv, Types, ToSend, Message
  <1>11. ASSUME NEW m \in wire[r], stream[m.rec].life = life
         PROVE  m.rec < item.rec /\ m.rec \in Nat
    BY <1>6, <1>9, <1>11 DEF Inv, RestBehindWire, BeforeRest, Emitted
  <1>12. Acks'
    BY <1>5, <1>1 DEF Acks
  <1>13. Wired'
    <2>1. \A q \in Replicas : \A m \in wire'[q] :
              /\ Emitted(m.rec)
              /\ stream[m.rec].life = life /\ m.rec \notin late[q] => q = r /\ m = item
      BY <1>4, <1>6, <1>7
    <2>2. ASSUME NEW q \in Replicas, NEW m \in wire'[q], NEW n \in wire'[q]
          PROVE  /\ m.rec = n.rec => m = n
                 /\ stream[m.rec].life = stream[n.rec].life /\ m.rec \notin late[q] => n.rec <= m.rec
      <3>1. CASE m \in wire[q] /\ n \in wire[q]
        BY <3>1 DEF Inv, Wired
      <3>2. CASE q = r /\ m = item
        <4>1. n = item \/ (n \in wire[r] /\ q = r)
          BY <1>7, <3>2
        <4> QED  BY <1>4, <1>9, <1>11, <3>2, <4>1
      <3>3. CASE q = r /\ n = item /\ m \in wire[r]
        BY <1>4, <1>6, <1>9, <1>11, <3>3
      <3> QED  BY <1>7, <3>1, <3>2, <3>3
    <2> QED  BY <1>1, <1>5, <2>1, <2>2 DEF Wired, Emitted
  <1>14. (WireIsNewer /\ RestIsNewer /\ RestBehindWire)'
    <2>1. RestIsNewer'
      BY <1>1, <1>8 DEF Inv, RestIsNewer, BeforeRest
    <2>2. RestBehindWire'
      <3>1. ~ToSend(r)' /\ \A j \in 1..Len(queue) : item.rec < queue[j].rec
        BY <1>1 DEF Inv, Types, Queued, ToSend
      <3>2. \A q \in Replicas : \A m \in wire'[q] : stream[m.rec].life = life =>
                /\ \A j \in 1..Len(queue) : m.rec < queue[j].rec
                /\ m.rec <= item.rec /\ (ToSend(q)' => m.rec < item.rec)
        BY <1>1, <1>7, <1>8, <1>9, <3>1 DEF Inv, RestBehindWire, BeforeRest
      <3> QED  BY <1>1, <3>2 DEF RestBehindWire, BeforeRest
    <2>3. WireIsNewer'
      <3>1. ASSUME NEW q \in Replicas, NEW k \in 1..Len(copy[q]), NEW m \in wire'[q]
            PROVE  /\ copy[q][k] # m.rec
                   /\ stream[copy[q][k]].life = stream[m.rec].life /\ m.rec \notin late[q] =>
                         copy[q][k] < m.rec
        <4>1. CASE m \in wire[q]
          BY <4>1 DEF Inv, WireIsNewer
        <4>2. CASE q = r /\ m = item
          <5>1. stream[copy[q][k]].life = life => copy[q][k] < item.rec /\ copy[q][k] \in Nat
            BY <1>9, <4>2, CopyType DEF Inv, RestIsNewer, BeforeRest
          <5> QED  BY <1>4, <1>9, <4>2, <5>1
        <4> QED  BY <1>7, <4>1, <4>2
      <3> QED  BY <1>1, <3>1 DEF WireIsNewer
    <2> QED  BY <2>1, <2>2, <2>3
  <1>10. Accounted'
    <2>1. ASSUME NEW q \in Replicas, NEW i \in 1..Len(stream), Awaited(q, i)
          PROVE  Awaited(q, i)'
      <3>1. ToSend(q) => ToSend(q)' \/ item \in wire'[q]
        BY <1>1 DEF Inv, Types, ToSend
      <3>2. wire[q] \subseteq wire'[q]
        BY <1>1 DEF Inv, Types
      <3> QED  BY <1>1, <2>1, <3>1, <3>2 DEF Awaited
    <2>2. \A q \in Replicas : \A i \in 1..Len(stream) : Applied(q, i) => Applied(q, i)'
      BY <1>1 DEF Applied
    <2> QED  BY <1>1, <2>1, <2>2, AccountedKept DEF Inv
  <1> QED  BY <1>2, <1>3, <1>10, <1>12, <1>13, <1>14 DEF Inv

(* An answer is in only when the message it answers is off the wire.         *)
LEMMA ProtoRecvKeeps ==
    ASSUME Inv, NEW r \in Replicas, ProtoRecv(r)
    PROVE  Inv'
  <1>1. /\ UNCHANGED <<file, stream, life, wire, copy, pending, queue, running, item, conn,
                       dropped, missed, late>>
        /\ acked' = [acked EXCEPT ![r] = FALSE]
        /\ Busy /\ Busy' /\ pc = "waiting" /\ pc' = "sending" /\ to' = to + 1 /\ to = r
        /\ acked[r]
    BY DEF ProtoRecv, Busy, mem, hist
  <1>2. Types'
    <2>1. to' \in 1..(nreplicas + 1)
      BY <1>1
    <2> QED  BY <1>1, <2>1 DEF Inv, Types, ProtoRecv, mem, hist
  <1>3. (Placed /\ Stopped /\ Queued /\ CopiesEmitted /\ WireIsNewer /\ Complete)'
    BY <1>1 DEF Inv, Placed, Stopped, Queued, CopiesEmitted, WireIsNewer, Complete, Current,
                Emitted
  <1>4. \A q \in Replicas : ~acked'[q]
    BY <1>1 DEF Inv, Acks, Types
  <1>5. (Acks /\ Wired)'
    <2>1. \A q \in Replicas : \A m \in wire[q] : stream[m.rec].life = life => m.rec \in late[q]
      BY <1>1 DEF Inv, Wired
    <2>2. Acks'
      BY <1>4 DEF Acks
    <2>3. Wired'
      BY <1>1, <1>4, <2>1 DEF Inv, Wired, Emitted
    <2> QED  BY <2>2, <2>3
  <1>6. \A q \in Replicas : ToSend(q)' <=> ToSend(q)
    BY <1>1 DEF Inv, Types, ToSend
  <1>7. RestIsNewer' /\ RestBehindWire'
    BY <1>1, <1>6 DEF Inv, RestIsNewer, RestBehindWire, BeforeRest
  <1>8. Accounted'
    BY <1>1, <1>6 DEF Inv, Accounted, Applied, Awaited
  <1> QED  BY <1>2, <1>3, <1>5, <1>7, <1>8 DEF Inv

LEMMA ReplicatorDestroyKeeps ==
    ASSUME Inv, ReplicatorDestroy
    PROVE  Inv'
  <1>1. /\ UNCHANGED <<file, stream, life, wire, copy, pending, queue, item, to, conn, acked,
                       dropped, missed, late>>
        /\ running /\ ~running' /\ \A w \in Writers : pending[w] = None
        /\ pc' = pc \/ (pc = "asleep" /\ pc' = "ready")
        /\ Busy' <=> Busy
    BY DEF ReplicatorDestroy, Woken, Busy, mem, hist
  <1>2. Types'
    BY <1>1 DEF Inv, Types, ReplicatorDestroy, mem, hist
  <1>3. (Placed /\ Stopped /\ Queued)'
    BY <1>1 DEF Inv, Placed, Stopped, Queued, Current, Emitted
  <1>4. (Acks /\ Wired)'
    BY <1>1 DEF Inv, Acks, Wired, Emitted
  <1>5. \A q \in Replicas : ToSend(q)' <=> ToSend(q)
    BY <1>1 DEF ToSend
  <1>6. (CopiesEmitted /\ WireIsNewer /\ Complete)'
    <2>1. CopiesEmitted' /\ Complete'
      BY <1>1 DEF Inv, CopiesEmitted, Complete, Emitted
    <2>2. WireIsNewer'
      BY <1>1 DEF Inv, WireIsNewer
    <2> QED  BY <2>1, <2>2
  <1>8. (RestIsNewer /\ RestBehindWire)'
    BY <1>1, <1>5 DEF Inv, RestIsNewer, RestBehindWire, BeforeRest
  <1>7. Accounted'
    BY <1>1, <1>5 DEF Inv, Accounted, Applied, Awaited
  <1> QED  BY <1>2, <1>3, <1>4, <1>6, <1>7, <1>8 DEF Inv

(* A new life: whatever was emitted or is on a wire is of an earlier one.    *)
LEMMA LeaderRestartKeeps ==
    ASSUME Inv, LeaderRestart
    PROVE  Inv'
  <1>1. /\ UNCHANGED <<file, stream, wire, up, copy, g_last_lsn, dropped, missed, late>>
        /\ life' = life + 1 /\ faults < MaxFaults /\ faults' = faults + 1
        /\ pending' = [w \in Writers |-> None] /\ next_lsn' = 0 /\ queue' = <<>> /\ running'
        /\ pc' = "ready" /\ item' = NoItem /\ to' = 1 /\ last_acked_lsn' = 0
        /\ conn' = [r \in Replicas |-> "none"] /\ acked' = [r \in Replicas |-> FALSE]
        /\ ~Busy' /\ running' = TRUE
    BY DEF LeaderRestart, Fault, Busy
  <1>2. Types'
    <2>1. life' \in Nat \ {0} /\ faults' \in 0..MaxFaults /\ life' <= faults' + 1
      BY <1>1 DEF Inv, Types
    <2>2. NoItem \in Message /\ None \in Nat
      BY DEF NoItem, Entry, Message, None
    <2> QED  BY <1>1, <2>1, <2>2 DEF Inv, Types
  <1>3. \A i \in 1..Len(stream) : stream[i].life < life'
    <2> TAKE i \in 1..Len(stream)
    <2>1. stream[i].life \in Nat /\ life \in Nat /\ stream[i].life <= life
      BY StreamType DEF Inv, Types, Placed
    <2> QED  BY <1>1, <2>1
  <1>4. \A i \in 1..Len(stream) : stream[i].life # life' /\ stream[i].life <= life'
    <2> TAKE i \in 1..Len(stream)
    <2>1. stream[i].life \in Nat /\ life' \in Nat
      BY <1>2, StreamType DEF Inv, Types
    <2> QED  BY <1>3, <2>1
  <1>5. (Placed /\ Stopped /\ Queued /\ Acks)'
    <2>1. Placed'
      BY <1>1, <1>4 DEF Inv, Placed
    <2>2. Stopped' /\ Acks'
      BY <1>1 DEF Stopped, Acks
    <2>3. Queued'
      BY <1>1 DEF Queued
    <2> QED  BY <2>1, <2>2, <2>3
  <1>6. Wired'
    BY <1>1, <1>4 DEF Inv, Wired, Emitted
  <1>7. (CopiesEmitted /\ WireIsNewer /\ RestIsNewer /\ RestBehindWire /\ Accounted)'
    <2>1. CopiesEmitted' /\ WireIsNewer'
      BY <1>1 DEF Inv, CopiesEmitted, WireIsNewer, Emitted
    <2>2. RestIsNewer'
      BY <1>1, <1>4 DEF Inv, CopiesEmitted, RestIsNewer, Emitted
    <2>3. RestBehindWire'
      BY <1>1, <1>4 DEF Inv, Wired, RestBehindWire, Emitted
    <2>4. Accounted'
      BY <1>1, <1>4 DEF Accounted
    <2> QED  BY <2>1, <2>2, <2>3, <2>4
  <1>8. Complete'
    BY <1>1 DEF Inv, Types, Complete
  <1> QED  BY <1>2, <1>5, <1>6, <1>7, <1>8 DEF Inv

(* A connection breaks: its message is lost, or left on the wire.            *)
LEMMA ConnectionBreaksKeeps ==
    ASSUME Inv, NEW r \in Replicas, ConnectionBreaks(r)
    PROVE  Inv'
  <1>1. /\ UNCHANGED <<file, stream, life, copy, pending, queue, running, pc, item, to,
                       dropped, late>>
        /\ conn' = [conn EXCEPT ![r] = "stale"]
        /\ acked' \in {acked, [acked EXCEPT ![r] = FALSE]}
    BY DEF ConnectionBreaks
  <1>l. PICK lost \in SUBSET (wire[r] \cap {item}) :
            /\ wire' = [wire EXCEPT ![r] = @ \ lost]
            /\ missed' = [missed EXCEPT ![r] = @ \union {m.rec : m \in lost}]
    BY DEF ConnectionBreaks
  <1>2. /\ \A q \in Replicas : wire'[q] \subseteq wire[q]
        /\ \A q \in Replicas : missed[q] \subseteq missed'[q]
        /\ \A q \in Replicas : \A m \in wire[q] : m \in wire'[q] \/ m.rec \in missed'[q]
        /\ \A q \in Replicas : missed'[q] = {} => missed[q] = {}
        /\ \A q \in Replicas : acked'[q] => acked[q]
    BY <1>1, <1>l DEF Inv, Types
  <1>3. Types'
    <2>1. faults' \in 0..MaxFaults /\ life <= faults' + 1
      BY FaultType DEF Inv, ConnectionBreaks
    <2>2. missed' \in [Replicas -> SUBSET Nat] /\ wire' \in [Replicas -> SUBSET Message]
      <3>1. /\ missed \in [Replicas -> SUBSET Nat] /\ wire \in [Replicas -> SUBSET Message]
            /\ lost \subseteq Message
        BY DEF Inv, Types
      <3>2. {m.rec : m \in lost} \subseteq Nat
        BY <3>1 DEF Message
      <3> QED  BY <1>l, <3>1, <3>2
    <2>3. conn' \in [Replicas -> {"none", "up", "stale"}] /\ acked' \in [Replicas -> BOOLEAN]
      BY <1>1 DEF Inv, Types
    <2> QED  BY <1>1, <2>1, <2>2, <2>3 DEF Inv, Types, ConnectionBreaks
  <1>4. (Placed /\ Stopped /\ Queued /\ CopiesEmitted)'
    BY <1>1 DEF Inv, Placed, Stopped, Queued, CopiesEmitted, Current, Emitted, Busy
  <1>5. Acks'
    BY <1>1, <1>2 DEF Inv, Acks
  <1>6. Wired' /\ WireIsNewer'
    <2>1. Wired'
      BY <1>1, <1>2 DEF Inv, Wired, Emitted
    <2>2. WireIsNewer'
      BY <1>1, <1>2 DEF Inv, WireIsNewer
    <2> QED  BY <2>1, <2>2
  <1>7. RestIsNewer' /\ RestBehindWire'
    <2>1. \A q \in Replicas : \A i : BeforeRest(q, i)' <=> BeforeRest(q, i)
      BY <1>1 DEF BeforeRest, ToSend, Busy
    <2>2. RestIsNewer'
      BY <1>1, <2>1 DEF Inv, RestIsNewer
    <2>3. RestBehindWire'
      BY <1>1, <1>2, <2>1 DEF Inv, RestBehindWire
    <2> QED  BY <2>2, <2>3
  <1>8. Accounted'
    <2>1. \A q \in Replicas : ToSend(q)' <=> ToSend(q)
      BY <1>1 DEF ToSend, Busy
    <2>2. \A q \in Replicas : \A i \in 1..Len(stream) : Awaited(q, i) =>
              Awaited(q, i)' \/ Applied(q, i)' \/ i \in missed'[q]
      BY <1>1, <1>2, <2>1 DEF Awaited
    <2>3. \A q \in Replicas : \A i \in 1..Len(stream) : Applied(q, i) => Applied(q, i)'
      BY <1>1 DEF Applied
    <2> QED  BY <1>1, <1>2, <2>2, <2>3, AccountedKept DEF Inv
  <1>9. Complete'
    BY <1>1, <1>2 DEF Inv, Complete
  <1> QED  BY <1>3, <1>4, <1>5, <1>6, <1>7, <1>8, <1>9 DEF Inv

(* A standby dies, and with it what its threads had still to read.           *)
LEMMA NodeCrashKeeps ==
    ASSUME Inv, NEW r \in Replicas, NodeCrash(r)
    PROVE  Inv'
  <1>1. /\ UNCHANGED <<file, stream, life, copy, pending, queue, running, pc, item, to, acked,
                       dropped, late>>
        /\ wire' = [wire EXCEPT ![r] = {}]
        /\ missed' = [missed EXCEPT ![r] = @ \union {m.rec : m \in wire[r]}]
        /\ conn' = [conn EXCEPT ![r] = IF @ = "up" THEN "stale" ELSE @]
    BY DEF NodeCrash, OnTheWire
  <1>2. /\ \A q \in Replicas : wire'[q] \subseteq wire[q] /\ (q # r => wire'[q] = wire[q])
        /\ wire'[r] = {}
        /\ \A q \in Replicas : missed[q] \subseteq missed'[q]
        /\ \A m \in wire[r] : m.rec \in missed'[r]
        /\ \A q \in Replicas : missed'[q] = {} => missed[q] = {}
    BY <1>1 DEF Inv, Types
  <1>3. Types'
    <2>1. faults' \in 0..MaxFaults /\ life <= faults' + 1
      BY FaultType DEF Inv, NodeCrash
    <2>2. missed' \in [Replicas -> SUBSET Nat] /\ wire' \in [Replicas -> SUBSET Message]
      <3>1. wire[r] \subseteq Message /\ missed[r] \subseteq Nat
        BY DEF Inv, Types
      <3>2. {m.rec : m \in wire[r]} \subseteq Nat
        BY <3>1 DEF Message
      <3> QED  BY <1>1, <3>1, <3>2 DEF Inv, Types
    <2>3. conn' \in [Replicas -> {"none", "up", "stale"}]
      <3>1. conn \in [Replicas -> {"none", "up", "stale"}]
        BY DEF Inv, Types
      <3> QED  BY <1>1, <3>1
    <2> QED  BY <1>1, <2>1, <2>2, <2>3 DEF Inv, Types, NodeCrash
  <1>4. (Placed /\ Stopped /\ Queued /\ Acks /\ CopiesEmitted)'
    BY <1>1 DEF Inv, Placed, Stopped, Queued, Acks, CopiesEmitted, Current, Emitted, Busy
  <1>5. (Wired /\ WireIsNewer)'
    <2>1. Wired'
      BY <1>1, <1>2 DEF Inv, Wired, Emitted
    <2>2. WireIsNewer'
      BY <1>1, <1>2 DEF Inv, WireIsNewer
    <2> QED  BY <2>1, <2>2
  <1>6. RestIsNewer' /\ RestBehindWire'
    <2>1. \A q \in Replicas : \A i : BeforeRest(q, i)' <=> BeforeRest(q, i)
      BY <1>1 DEF BeforeRest, ToSend, Busy
    <2>2. RestIsNewer'
      BY <1>1, <2>1 DEF Inv, RestIsNewer
    <2>3. RestBehindWire'
      BY <1>1, <1>2, <2>1 DEF Inv, RestBehindWire
    <2> QED  BY <2>2, <2>3
  <1>7. Accounted'
    <2>1. ASSUME NEW q \in Replicas, NEW i \in 1..Len(stream), Awaited(q, i)
          PROVE  Awaited(q, i)' \/ i \in missed'[q]
      <3>1. CASE q = r /\ \E m \in wire[q] : m.rec = i
        BY <1>2, <3>1
      <3>2. CASE q # r /\ \E m \in wire[q] : m.rec = i
        BY <1>2, <3>2 DEF Awaited
      <3>3. ToSend(q)' <=> ToSend(q)
        BY <1>1 DEF ToSend, Busy
      <3> QED  BY <1>1, <2>1, <3>1, <3>2, <3>3 DEF Awaited
    <2>2. \A q \in Replicas : \A i \in 1..Len(stream) : Applied(q, i) => Applied(q, i)'
      BY <1>1 DEF Applied
    <2> QED  BY <1>1, <1>2, <2>1, <2>2, AccountedKept DEF Inv
  <1>8. Complete'
    BY <1>1, <1>2 DEF Inv, Complete
  <1> QED  BY <1>3, <1>4, <1>5, <1>6, <1>7, <1>8 DEF Inv

LEMMA NodeRestartKeeps ==
    ASSUME Inv, NEW r \in Replicas, NodeRestart(r)
    PROVE  Inv'
  <1>1. Types'
    BY DEF Inv, Types, NodeRestart, mem, hist
  <1>2. UNCHANGED <<file, stream, life, copy, wire, mem, hist>>
    BY DEF NodeRestart
  <1>3. (Placed /\ Stopped /\ Queued /\ Acks /\ Wired)'
    BY <1>2 DEF Inv, mem, hist, Placed, Stopped, Queued, Acks, Wired, Current, Emitted, Busy
  <1>4. \A q \in Replicas : /\ ToSend(q)' <=> ToSend(q)
                            /\ \A i : BeforeRest(q, i)' <=> BeforeRest(q, i)
    BY <1>2 DEF mem, BeforeRest, ToSend, Busy
  <1>5. (CopiesEmitted /\ WireIsNewer /\ Complete)'
    BY <1>2 DEF Inv, mem, hist, CopiesEmitted, WireIsNewer, Complete, Emitted
  <1>6. (RestIsNewer /\ RestBehindWire)'
    BY <1>2, <1>4 DEF Inv, RestIsNewer, RestBehindWire
  <1>7. Accounted'
    BY <1>2, <1>4 DEF Inv, mem, hist, Accounted, Applied, Awaited
  <1> QED  BY <1>1, <1>3, <1>5, <1>6, <1>7 DEF Inv

(* A standby's thread takes a message: it appends the record, or cannot.     *)
LEMMA HandleReplicateKeeps ==
    ASSUME Inv, NEW r \in Replicas, HandleReplicate(r)
    PROVE  Inv'
  <1>1. PICK m \in wire[r] :
          /\ wire' = [wire EXCEPT ![r] = @ \ {m}]
          /\ \/ /\ copy' = [copy EXCEPT ![r] = Append(@, m.rec)]
                /\ g_last_lsn' = [g_last_lsn EXCEPT ![r] = m.lsn]
                /\ UNCHANGED <<faults, missed>>
             \/ /\ Fault
                /\ missed' = [missed EXCEPT ![r] = @ \union {m.rec}]
                /\ UNCHANGED <<copy, g_last_lsn>>
          /\ acked' = IF pc = "waiting" /\ to = r /\ m = item /\ conn[r] = "up"
                      THEN [acked EXCEPT ![r] = TRUE] ELSE acked
    BY DEF HandleReplicate
  <1>2. /\ UNCHANGED <<file, stream, life, up, pending, next_lsn, queue, running, pc, item, to,
                       last_acked_lsn, conn, dropped, late>>
        /\ (Busy' <=> Busy) /\ \A q \in Replicas : ToSend(q)' <=> ToSend(q)
    BY DEF HandleReplicate, Busy, ToSend
  <1>3. m \in Message /\ m.rec \in Nat /\ m.lsn \in Nat /\ copy[r] \in Seq(Nat)
    <2>1. m \in Message /\ copy[r] \in Seq(Nat)
      BY DEF Inv, Types
    <2> QED  BY <2>1 DEF Message
  <1>4. /\ Emitted(m.rec)
        /\ stream[m.rec].life = life /\ m.rec \notin late[r] => pc = "waiting" /\ to = r /\ m = item
    BY DEF Inv, Wired
  <1>5. /\ \A q \in Replicas : wire'[q] \subseteq wire[q] /\ (q # r => wire'[q] = wire[q])
        /\ \A n : n \in wire'[r] <=> n \in wire[r] /\ n # m
    BY <1>1 DEF Inv, Types
  <1>6. /\ \A q \in Replicas : q # r => copy'[q] = copy[q]
        /\ \A q \in Replicas : missed[q] \subseteq missed'[q]
        /\ \/ /\ Len(copy'[r]) = Len(copy[r]) + 1
              /\ \A k \in 1..Len(copy[r]) : copy'[r][k] = copy[r][k]
              /\ copy'[r][Len(copy[r]) + 1] = m.rec
           \/ copy'[r] = copy[r] /\ m.rec \in missed'[r]
    <2>1. CASE copy' = [copy EXCEPT ![r] = Append(@, m.rec)] /\ UNCHANGED missed
      <3>1. copy'[r] = Append(copy[r], m.rec) /\ \A q \in Replicas : q # r => copy'[q] = copy[q]
        BY <2>1 DEF Inv, Types
      <3> QED  BY <1>3, <2>1, <3>1, AppendProperties
    <2>2. CASE UNCHANGED copy /\ missed' = [missed EXCEPT ![r] = @ \union {m.rec}]
      BY <2>2 DEF Inv, Types
    <2> QED  BY <1>1, <2>1, <2>2
  <1>7. Len(copy[r]) \in Nat /\ \A k \in 1..Len(copy[r]) : copy[r][k] \in Nat
    BY <1>3
  <1>8. \A q \in Replicas : \A k \in 1..Len(copy'[q]) :
            \/ k \in 1..Len(copy[q]) /\ copy'[q][k] = copy[q][k]
            \/ q = r /\ k = Len(copy[r]) + 1 /\ copy'[q][k] = m.rec
    <2> TAKE q \in Replicas
    <2> TAKE k \in 1..Len(copy'[q])
    <2>1. CASE copy'[q] = copy[q]
      BY <2>1
    <2>2. CASE /\ q = r /\ Len(copy'[r]) = Len(copy[r]) + 1
               /\ \A j \in 1..Len(copy[r]) : copy'[r][j] = copy[r][j]
               /\ copy'[r][Len(copy[r]) + 1] = m.rec
      BY <1>7, <2>2
    <2> QED  BY <1>6, <2>1, <2>2
  <1>9. \A q \in Replicas : acked'[q] =>
            acked[q] \/ (q = r /\ pc = "waiting" /\ to = r /\ m = item)
    BY <1>1 DEF Inv, Types
  <1>10. m = item /\ pc = "waiting" => stream[m.rec].life = life
    BY DEF Inv, Queued, Current, Busy
  <1>11. Types'
    <2>0. Append(copy[r], m.rec) \in Seq(Nat)
      BY <1>3, AppendProperties
    <2>1. copy' \in [Replicas -> Seq(Nat)]
      <3>1. copy \in [Replicas -> Seq(Nat)]
        BY DEF Inv, Types
      <3> QED  BY <1>1, <2>0, <3>1
    <2>5. g_last_lsn' \in [Replicas -> Nat]
      <3>1. g_last_lsn \in [Replicas -> Nat]
        BY DEF Inv, Types
      <3> QED  BY <1>1, <1>3, <3>1
    <2>2. wire' \in [Replicas -> SUBSET Message] /\ acked' \in [Replicas -> BOOLEAN]
      BY <1>1 DEF Inv, Types
    <2>3. missed' \in [Replicas -> SUBSET Nat]
      <3>1. missed \in [Replicas -> SUBSET Nat] /\ missed[r] \union {m.rec} \subseteq Nat
        BY <1>3 DEF Inv, Types
      <3> QED  BY <1>1, <3>1
    <2>4. faults' \in 0..MaxFaults /\ life <= faults' + 1
      BY <1>1, FaultType DEF Inv
    <2> QED  BY <1>2, <2>1, <2>2, <2>3, <2>4, <2>5 DEF Inv, Types
  <1>12. (Placed /\ Stopped /\ Queued)'
    BY <1>2 DEF Inv, Placed, Stopped, Queued, Current, Emitted
  <1>13. Acks'
    BY <1>2, <1>4, <1>9, <1>10 DEF Inv, Acks
  <1>14. Wired'
    <2> SUFFICES ASSUME NEW q \in Replicas, NEW n \in wire'[q]
                 PROVE  /\ Emitted(n.rec)
                        /\ stream[n.rec].life = life /\ n.rec \notin late[q] =>
                                pc = "waiting" /\ to = q /\ n = item
                        /\ stream[n.rec].life = life /\ n = item => ~acked'[q]
                        /\ \A o \in wire'[q] :
                            /\ n.rec = o.rec => n = o
                            /\ stream[n.rec].life = stream[o.rec].life /\ n.rec \notin late[q] =>
                                  o.rec <= n.rec
      BY <1>2 DEF Wired, Emitted
    <2>1. n \in wire[q] /\ (q = r => n # m) /\ wire'[q] \subseteq wire[q]
      BY <1>5
    <2> QED  BY <1>9, <2>1 DEF Inv, Wired
  <1>15. CopiesEmitted'
    BY <1>2, <1>4, <1>8 DEF Inv, CopiesEmitted, Emitted
  <1>16. WireIsNewer'
    <2> SUFFICES ASSUME NEW q \in Replicas, NEW k \in 1..Len(copy'[q]), NEW n \in wire'[q]
                 PROVE  /\ copy'[q][k] # n.rec
                        /\ stream[copy'[q][k]].life = stream[n.rec].life /\ n.rec \notin late[q] =>
                              copy'[q][k] < n.rec
      BY <1>2 DEF WireIsNewer
    <2>1. n \in wire[q] /\ (q = r => n # m)
      BY <1>5
    <2>2. CASE k \in 1..Len(copy[q]) /\ copy'[q][k] = copy[q][k]
      BY <2>1, <2>2 DEF Inv, WireIsNewer
    <2>3. CASE q = r /\ copy'[q][k] = m.rec
      <3>1. n \in Message /\ n.rec \in Nat
        BY <2>1 DEF Inv, Types, Message
      <3>2. /\ m.rec # n.rec
            /\ stream[n.rec].life = stream[m.rec].life /\ n.rec \notin late[r] => m.rec <= n.rec
        BY <2>1, <2>3 DEF Inv, Wired
      <3> QED  BY <1>3, <2>3, <3>1, <3>2
    <2> QED  BY <1>8, <2>2, <2>3
  <1>17. RestIsNewer' /\ RestBehindWire'
    <2>1. \A q \in Replicas : \A i : BeforeRest(q, i)' <=> BeforeRest(q, i)
      BY <1>2 DEF BeforeRest
    <2>2. \A q \in Replicas : \A k \in 1..Len(copy'[q]) :
              stream[copy'[q][k]].life = life => BeforeRest(q, copy'[q][k])
      <3> SUFFICES ASSUME NEW q \in Replicas, NEW k \in 1..Len(copy'[q]),
                          stream[copy'[q][k]].life = life
                   PROVE  BeforeRest(q, copy'[q][k])
        OBVIOUS
      <3>1. CASE copy'[q][k] = copy[q][k] /\ k \in 1..Len(copy[q])
        BY <3>1 DEF Inv, RestIsNewer
      <3>2. CASE q = r /\ copy'[q][k] = m.rec
        BY <3>2 DEF Inv, RestBehindWire
      <3> QED  BY <1>8, <3>1, <3>2
    <2>3. RestIsNewer'
      BY <1>2, <2>1, <2>2 DEF RestIsNewer
    <2>4. RestBehindWire'
      BY <1>2, <1>5, <2>1 DEF Inv, RestBehindWire
    <2> QED  BY <2>3, <2>4
  <1>18. Accounted'
    <2>1. ASSUME NEW q \in Replicas, NEW i \in 1..Len(stream), Awaited(q, i)
          PROVE  Awaited(q, i)' \/ Applied(q, i)' \/ i \in missed'[q]
      <3>1. CASE q = r /\ m.rec = i
        BY <1>6, <1>7, <3>1 DEF Applied
      <3>2. CASE ~(q = r /\ m.rec = i)
        BY <1>2, <1>5, <2>1, <3>2 DEF Awaited
      <3> QED  BY <3>1, <3>2
    <2>2. ASSUME NEW q \in Replicas, NEW i \in 1..Len(stream), Applied(q, i)
          PROVE  Applied(q, i)'
      <3>1. CASE copy'[q] = copy[q]
        BY <2>2, <3>1 DEF Applied
      <3>2. CASE /\ q = r /\ Len(copy'[r]) = Len(copy[r]) + 1
                 /\ \A k \in 1..Len(copy[r]) : copy'[r][k] = copy[r][k]
        <4>1. PICK k \in 1..Len(copy[r]) : copy[r][k] = i
          BY <2>2, <3>2 DEF Applied
        <4>2. k \in 1..Len(copy'[r]) /\ copy'[r][k] = i
          BY <1>7, <3>2, <4>1
        <4> QED  BY <3>2, <4>2 DEF Applied
      <3> QED  BY <1>6, <3>1, <3>2
    <2> QED  BY <1>2, <1>6, <2>1, <2>2, AccountedKept DEF Inv
  <1>19. Complete'
    <2> SUFFICES ASSUME NEW q \in Replicas, dropped = {}, missed'[q] = {}, late[q] = {}, life = 1,
                        NEW k \in 1..Len(copy'[q])
                 PROVE  copy'[q][k] = k
      BY <1>2 DEF Complete
    <2>1. missed[q] = {} /\ \A j \in 1..Len(copy[q]) : copy[q][j] = j
      BY <1>6 DEF Inv, Complete
    <2>2. CASE k \in 1..Len(copy[q]) /\ copy'[q][k] = copy[q][k]
      BY <2>1, <2>2
    <2>3. CASE q = r /\ k = Len(copy[r]) + 1 /\ copy'[q][k] = m.rec
      <3>1. \A i \in 1..Len(stream) : stream[i].life = life
        <4> TAKE i \in 1..Len(stream)
        <4>1. stream[i].life \in Nat \ {0} /\ stream[i].life <= life
          BY StreamType DEF Inv, Placed
        <4> QED  BY <4>1
      <3>2. pc = "waiting" /\ to = r /\ m = item /\ m.rec \in 1..Len(stream)
        BY <1>4, <2>3, <3>1 DEF Emitted
      <3>3. \A j \in 1..Len(copy[r]) : j < m.rec
        <4>1. \A j \in 1..Len(copy[r]) : copy[r][j] \in 1..Len(stream)
          BY DEF Inv, CopiesEmitted, Emitted
        <4>2. \A j \in 1..Len(copy[r]) : stream[copy[r][j]].life = stream[m.rec].life
          BY <3>1, <3>2, <4>1
        <4>3. \A j \in 1..Len(copy[r]) : copy[r][j] < m.rec
          BY <2>3, <4>2 DEF Inv, WireIsNewer
        <4> QED  BY <2>1, <2>3, <4>3
      <3>4. ASSUME k < m.rec  PROVE FALSE
        <4>1. k \in 1..Len(stream) /\ k # m.rec
          BY <1>3, <1>7, <2>3, <3>2, <3>4
        <4>2. Applied(r, k) \/ Awaited(r, k)
          BY <2>1, <2>3, <3>1, <4>1 DEF Inv, Accounted
        <4>3. ~Applied(r, k)
          BY <1>7, <2>1, <2>3 DEF Applied
        <4>4. \A j \in 1..Len(queue) : queue[j].rec # k
          <5>1. \A j \in 1..Len(queue) : m.rec < queue[j].rec /\ queue[j].rec \in 1..Len(stream)
            BY <3>2 DEF Inv, Queued, Busy, Current, Emitted
          <5> QED  BY <1>3, <3>4, <4>1, <5>1
        <4>5. \A n \in wire[r] : n = m
          BY <2>3, <3>1, <3>2 DEF Inv, Wired, Emitted
        <4>6. ~ToSend(r)
          BY <3>2 DEF Inv, Types, ToSend
        <4> QED  BY <4>1, <4>2, <4>3, <4>4, <4>5, <4>6 DEF Awaited
      <3>5. k <= m.rec
        <4>1. CASE Len(copy[r]) = 0
          BY <1>3, <2>3, <3>2, <4>1
        <4>2. CASE Len(copy[r]) # 0
          <5>1. Len(copy[r]) \in 1..Len(copy[r])
            BY <1>7, <4>2
          <5>2. Len(copy[r]) < m.rec
            BY <3>3, <5>1
          <5> QED  BY <1>3, <1>7, <2>3, <5>2
        <4> QED  BY <4>1, <4>2
      <3> QED  BY <1>3, <1>7, <2>3, <3>4, <3>5
    <2> QED  BY <1>8, <2>2, <2>3
  <1> QED  BY <1>11, <1>12, <1>13, <1>14, <1>15, <1>16, <1>17, <1>18, <1>19 DEF Inv

-----------------------------------------------------------------------------
LEMMA InitEstablishesInv == Init => Inv
  <1> SUFFICES ASSUME Init  PROVE Inv
    OBVIOUS
  <1> USE DEF Init
  <1>1. Types
    BY DEF Types, NoItem, Entry, Message, None
  <1>2. Placed /\ Stopped /\ Queued /\ Acks /\ Wired
    BY DEF Placed, Stopped, Queued, Acks, Wired, Busy, None
  <1>3. CopiesEmitted /\ WireIsNewer /\ RestIsNewer /\ RestBehindWire /\ Accounted /\ Complete
    BY DEF CopiesEmitted, WireIsNewer, RestIsNewer, RestBehindWire, BeforeRest, Accounted, Complete
  <1> QED  BY <1>1, <1>2, <1>3 DEF Inv

LEMMA NextKeepsInv == Inv /\ [Next]_vars => Inv'
  <1> SUFFICES ASSUME Inv, [Next]_vars  PROVE Inv'
    OBVIOUS
  <1>1. CASE \E w \in Writers : WalAppend(w) \/ ReplicatorEnqueue(w)
    BY <1>1, WalAppendKeeps, ReplicatorEnqueueKeeps
  <1>2. CASE Sleep \/ WorkerExits \/ Take \/ Done
    BY <1>2, SleepKeeps, TakeKeeps, DoneKeeps
  <1>3. CASE \E r \in Replicas : Reconnect(r) \/ CannotConnect(r) \/ ProtoSend(r)
    BY <1>3, ReconnectKeeps, CannotConnectKeeps, ProtoSendKeeps
  <1>4. CASE \E r \in Replicas : ProtoRecv(r) \/ SendFails(r)
    BY <1>4, ProtoRecvKeeps, SendFailsKeeps
  <1>5. CASE ReplicatorDestroy \/ LeaderRestart
    BY <1>5, ReplicatorDestroyKeeps, LeaderRestartKeeps
  <1>6. CASE \E r \in Replicas : \/ HandleReplicate(r) \/ ConnectionBreaks(r)
                                 \/ NodeCrash(r) \/ NodeRestart(r)
    BY <1>6, HandleReplicateKeeps, ConnectionBreaksKeeps, NodeCrashKeeps, NodeRestartKeeps
  <1>7. CASE UNCHANGED vars
    <2>1. UNCHANGED <<file, stream, life, wire, up, copy, g_last_lsn, mem, hist>>
      BY <1>7 DEF vars
    <2>2. (Types /\ Placed /\ Stopped /\ Acks)'
      BY <2>1 DEF Inv, mem, hist, Types, Placed, Stopped, Acks
    <2>5. (Queued /\ Wired)'
      BY <2>1 DEF Inv, mem, hist, Queued, Wired, Current, Emitted, Busy
    <2>6. \A q \in Replicas : /\ ToSend(q)' <=> ToSend(q)
                              /\ \A i : BeforeRest(q, i)' <=> BeforeRest(q, i)
      BY <2>1 DEF mem, BeforeRest, ToSend, Busy
    <2>3. (CopiesEmitted /\ WireIsNewer /\ Complete)'
      BY <2>1 DEF Inv, mem, hist, CopiesEmitted, WireIsNewer, Complete, Emitted
    <2>4. (RestIsNewer /\ RestBehindWire)'
      BY <2>1, <2>6 DEF Inv, RestIsNewer, RestBehindWire
    <2>7. Accounted'
      BY <2>1, <2>6 DEF Inv, mem, hist, Accounted, Applied, Awaited
    <2> QED  BY <2>2, <2>3, <2>4, <2>5, <2>7 DEF Inv
  <1> QED  BY <1>1, <1>2, <1>3, <1>4, <1>5, <1>6, <1>7 DEF Next, Worker

(* The invariant of the specification.                                       *)
LEMMA InvHolds == Spec => []Inv
  BY InitEstablishesInv, NextKeepsInv, PTL DEF Spec

(* No record handed to the callback vanishes: each standby applied it, is to *)
(* get it, or is on record as having missed it; and the worker leaves with   *)
(* an empty queue (replicator.c:17-111).                                     *)
LEMMA InvGivesNothingVanishes == Inv => NothingVanishes
  <1> SUFFICES ASSUME Inv  PROVE NothingVanishes
    OBVIOUS
  <1>1. pc = "exited" => queue = <<>>
    BY DEF Inv, Stopped
  <1>2. stream \in Seq(Emission) /\ queue \in Seq(Message)
    BY DEF Inv, Types
  <1>n. DOMAIN stream = 1..Len(stream)
    BY <1>2
  <1> SUFFICES ASSUME NEW r \in Replicas, NEW i \in 1..Len(stream), ~(stream[i].life < life)
               PROVE  i \in {copy[r][k] : k \in DOMAIN copy[r]} \union dropped \union missed[r]
                            \union OnTheWay(r)
    BY <1>1, <1>n DEF NothingVanishes
  <1>3. stream[i].life = life
    <2>1. stream[i].life \in Nat /\ life \in Nat /\ stream[i].life <= life
      BY StreamType DEF Inv, Types, Placed
    <2> QED  BY <2>1
  <1>4. CASE Applied(r, i)
    <2>1. copy[r] \in Seq(Nat)
      BY DEF Inv, Types
    <2> QED  BY <1>4, <2>1 DEF Applied
  <1>5. CASE i \in dropped \/ i \in missed[r]
    BY <1>5
  <1>6. CASE \E k \in 1..Len(queue) : queue[k].rec = i
    <2>1. i \in Records(queue)
      BY <1>2, <1>6 DEF Records
    <2> QED  BY <2>1 DEF OnTheWay
  <1>7. CASE \E m \in wire[r] : m.rec = i
    BY <1>7 DEF OnTheWay, OnTheWire
  <1>8. CASE ToSend(r) /\ item.rec = i
    <2>1. to < r \/ (pc = "sending" /\ to = r)
      BY <1>8 DEF ToSend
    <2> QED  BY <1>8, <2>1 DEF OnTheWay
  <1> QED  BY <1>3, <1>4, <1>5, <1>6, <1>7, <1>8 DEF Inv, Accounted, Awaited

(* As long as a standby missed nothing, its log is the beginning of the      *)
(* leader's (storage_node/main.c:98).                                        *)
LEMMA InvGivesOffsetsMatch == Inv => OffsetsMatch
  <1> SUFFICES ASSUME Inv, NEW r \in Replicas, Untroubled(r), NEW k \in DOMAIN copy[r]
               PROVE  k <= Len(file) /\ file[k] = copy[r][k]
    BY DEF OffsetsMatch
  <1>1. copy[r] \in Seq(Nat) /\ stream \in Seq(Emission) /\ file \in Seq(Nat)
    BY DEF Inv, Types
  <1>2. k \in 1..Len(copy[r]) /\ Len(file) \in Nat /\ DOMAIN stream = 1..Len(stream)
    BY <1>1
  <1>3. copy[r][k] = k /\ k \in 1..Len(stream)
    BY <1>2 DEF Inv, Complete, CopiesEmitted, Emitted, Untroubled
  <1>4. stream[k].at = k
    BY <1>2, <1>3 DEF Untroubled
  <1>5. k \in 1..Len(file) /\ file[k] = k
    BY <1>3, <1>4 DEF Inv, Placed
  <1> QED  BY <1>2, <1>3, <1>5

(* What a standby has, and where (replicator.c:17-111, main.c:98 of the      *)
(* storage node): for any number of standbys, writers, records and faults.   *)
THEOREM ReplicationFollows == Spec => []StandbysFollow
  <1>1. Inv => StandbysFollow
    BY InvGivesNothingVanishes, InvGivesOffsetsMatch DEF StandbysFollow
  <1> QED  BY <1>1, InvHolds, PTL

-----------------------------------------------------------------------------
(* The refinement: a record handed to the callback is emitted, one the worker *)
(* no longer waits for is given up, one a standby appends is delivered, and  *)
(* nothing else shows.                                                       *)
LivesOf == [i \in DOMAIN stream |-> stream[i].life]

LEMMA StreamDomain == Types => DOMAIN stream = 1..Len(stream) /\ Len(stream) \in Nat
  BY DEF Types

LEMMA CopyDomain == Types => \A r \in Replicas : DOMAIN copy[r] = 1..Len(copy[r])
  BY DEF Types

LEMMA EnqueueEmits ==
    ASSUME Inv, NEW w \in Writers, ReplicatorEnqueue(w)
    PROVE  Shipping!Next
  <1> DEFINE e == [life |-> life, at |-> pending[w]]
  <1>1. stream \in Seq(Emission) /\ e \in Emission /\ life \in 1..(MaxFaults + 1) /\ e.life = life
    <2>1. stream \in Seq(Emission) /\ life \in Nat \ {0} /\ pending[w] \in Nat
      BY DEF Inv, Types
    <2>2. life \in 1..(MaxFaults + 1)
      BY DEF Inv, Types
    <2> QED  BY <2>1, <2>2 DEF Emission
  <1>2. stream' = Append(stream, e) /\ UNCHANGED <<copy, late>>
    BY DEF ReplicatorEnqueue
  <1> HIDE DEF e
  <1>3. /\ stream' \in Seq(Emission) /\ Len(stream') = Len(stream) + 1
        /\ \A i \in 1..Len(stream) : stream'[i] = stream[i]
        /\ stream'[Len(stream) + 1] = e
    BY <1>1, <1>2, AppendProperties
  <1>4. /\ DOMAIN stream = 1..Len(stream) /\ Len(stream) \in Nat
        /\ DOMAIN stream' = 1..(Len(stream) + 1)
    BY <1>1, <1>3
  <1>5. LivesOf \in Seq(Nat) /\ Len(LivesOf) = Len(stream)
    <2>1. LivesOf \in [1..Len(stream) -> Nat]
      BY <1>4, StreamType DEF Inv, LivesOf
    <2>2. LivesOf \in Seq(Nat)
      BY <1>4, <2>1, IsASeq
    <2>3. DOMAIN LivesOf = 1..Len(stream)
      BY <2>1
    <2> QED  BY <1>4, <2>2, <2>3
  <1>6. LivesOf' = Append(LivesOf, life)
    <2>1. LivesOf' = [i \in 1..(Len(stream) + 1) |-> stream'[i].life]
      BY <1>4 DEF LivesOf
    <2>2. life \in Nat
      BY <1>1
    <2>3. /\ Append(LivesOf, life) \in Seq(Nat)
          /\ Len(Append(LivesOf, life)) = Len(stream) + 1
          /\ \A i \in 1..Len(stream) : Append(LivesOf, life)[i] = LivesOf[i]
          /\ Append(LivesOf, life)[Len(stream) + 1] = life
      BY <1>5, <2>2, AppendProperties
    <2>4. \A i \in 1..(Len(stream) + 1) : LivesOf'[i] = Append(LivesOf, life)[i]
      BY <1>1, <1>3, <1>4, <2>1, <2>3 DEF LivesOf
    <2>5. Append(LivesOf, life) \in [1..(Len(stream) + 1) -> Nat]
      BY <2>3, LenProperties
    <2> QED  BY <2>1, <2>4, <2>5
  <1> QED  BY <1>1, <1>2, <1>6 DEF Shipping!Next, Shipping!Emit, LivesOf

(* A record that no copy has a newer one of its life of follows all copies.  *)
LEMMA FollowsAll ==
    ASSUME Inv, NEW r \in Replicas, NEW i \in 1..Len(stream),
           \A k \in 1..Len(copy[r]) : stream[copy[r][k]].life = stream[i].life => copy[r][k] < i
    PROVE  i \in DOMAIN LivesOf /\ Shipping!Follows(r, i)
  <1>1. /\ DOMAIN copy[r] = 1..Len(copy[r]) /\ DOMAIN stream = 1..Len(stream)
        /\ \A k \in 1..Len(copy[r]) : copy[r][k] \in DOMAIN stream
    BY CopyDomain, StreamDomain DEF Inv, CopiesEmitted, Emitted
  <1> QED  BY <1>1 DEF Shipping!Follows, LivesOf

LEMMA HandleDelivers ==
    ASSUME Inv, NEW r \in Replicas, HandleReplicate(r)
    PROVE  [Shipping!Next]_(Shipping!vars)
  <1>1. UNCHANGED <<stream, late>>
    BY DEF HandleReplicate
  <1>2. PICK m \in wire[r] : UNCHANGED copy \/ copy' = [copy EXCEPT ![r] = Append(@, m.rec)]
    BY DEF HandleReplicate
  <1>3. CASE UNCHANGED copy
    BY <1>1, <1>3 DEF Shipping!vars, LivesOf
  <1>4. CASE copy' = [copy EXCEPT ![r] = Append(@, m.rec)]
    <2>1. m.rec \in 1..Len(stream) /\ DOMAIN stream = 1..Len(stream)
      BY StreamDomain DEF Inv, Wired, Emitted
    <2>2. m.rec \in DOMAIN LivesOf
      BY <2>1 DEF LivesOf
    <2>3. \/ Shipping!Follows(r, m.rec)
          \/ m.rec \in late[r] /\ \A k \in DOMAIN copy[r] : copy[r][k] # m.rec
      <3>1. CASE m.rec \notin late[r]
        BY <2>1, <3>1, FollowsAll DEF Inv, WireIsNewer
      <3>2. CASE m.rec \in late[r]
        BY <3>2, CopyDomain DEF Inv, WireIsNewer
      <3> QED  BY <3>1, <3>2
    <2>4. Shipping!Deliver(r, m.rec)
      BY <1>1, <1>4, <2>2, <2>3 DEF Shipping!Deliver, LivesOf
    <2> QED  BY <2>2, <2>4 DEF Shipping!Next, LivesOf
  <1> QED  BY <1>2, <1>3, <1>4

(* What the worker gives up on the wire is newer than all the standby has.   *)
LEMMA FailureGivesUp ==
    ASSUME Inv, NEW r \in Replicas, SendFails(r)
    PROVE  [Shipping!Next]_(Shipping!vars)
  <1>1. UNCHANGED <<stream, copy>> /\ to = r /\ conn[r] = "stale"
    BY DEF SendFails, GiveUp
  <1>2. CASE UNCHANGED late
    BY <1>1, <1>2 DEF Shipping!vars, LivesOf
  <1>3. CASE /\ pc = "waiting" /\ item.rec \in OnTheWire(r)
             /\ late' = [late EXCEPT ![r] = @ \union {item.rec}]
    <2>1. PICK m \in wire[r] : m.rec = item.rec
      BY <1>3 DEF OnTheWire
    <2>2. Current(item.rec)
      BY <1>3 DEF Inv, Queued, Busy
    <2>3. \A k \in 1..Len(copy[r]) : stream[copy[r][k]].life = life =>
              copy[r][k] <= item.rec /\ copy[r][k] # item.rec
      BY <1>3, <2>1 DEF Inv, RestIsNewer, BeforeRest, WireIsNewer, Busy
    <2>4. \A k \in 1..Len(copy[r]) : copy[r][k] \in Nat
      BY CopyType DEF Inv
    <2>5. item.rec \in DOMAIN LivesOf /\ Shipping!Follows(r, item.rec)
      <3>1. item.rec \in 1..Len(stream) /\ stream[item.rec].life = life /\ item.rec \in Nat
        BY <2>2, StreamDomain DEF Inv, Current, Emitted
      <3>2. \A k \in 1..Len(copy[r]) : stream[copy[r][k]].life = stream[item.rec].life =>
                copy[r][k] < item.rec
        BY <2>3, <2>4, <3>1
      <3> QED  BY <3>1, <3>2, FollowsAll
    <2>6. Shipping!GiveUp(r, item.rec)
      BY <1>1, <1>3, <2>5 DEF Shipping!GiveUp, LivesOf
    <2> QED  BY <2>5, <2>6 DEF Shipping!Next, LivesOf
  <1>4. \/ UNCHANGED late
        \/ /\ pc = "waiting" /\ item.rec \in OnTheWire(r)
           /\ late' = [late EXCEPT ![r] = @ \union {item.rec}]
    <2>1. CASE pc = "sending" /\ NeverSent(r)
      BY <2>1 DEF NeverSent
    <2>2. CASE /\ pc = "waiting"
               /\ late' = [late EXCEPT ![r] = @ \union ({item.rec} \cap OnTheWire(r))]
      <3>1. late \in [Replicas -> SUBSET Nat]
        BY DEF Inv, Types
      <3>2. CASE item.rec \in OnTheWire(r)
        BY <2>2, <3>2
      <3>3. CASE item.rec \notin OnTheWire(r)
        BY <2>2, <3>1, <3>3
      <3> QED  BY <3>2, <3>3
    <2> QED  BY <2>1, <2>2 DEF SendFails
  <1> QED  BY <1>2, <1>3, <1>4

LEMMA StepShips == Inv /\ [Next]_vars => [Shipping!Next]_(Shipping!vars)
  <1> SUFFICES ASSUME Inv, [Next]_vars  PROVE [Shipping!Next]_(Shipping!vars)
    OBVIOUS
  <1>1. CASE \E w \in Writers : ReplicatorEnqueue(w)
    BY <1>1, EnqueueEmits
  <1>2. CASE \E r \in Replicas : HandleReplicate(r)
    BY <1>2, HandleDelivers
  <1>3. ASSUME UNCHANGED <<stream, copy, late>>
        PROVE  UNCHANGED Shipping!vars
    BY <1>3 DEF Shipping!vars
  <1>4. CASE \E w \in Writers : WalAppend(w)
    BY <1>3, <1>4 DEF WalAppend, hist
  <1>5. CASE Sleep \/ WorkerExits \/ Take \/ Done
    BY <1>3, <1>5 DEF Sleep, WorkerExits, Take, Done, hist
  <1>6. CASE \E r \in Replicas : Reconnect(r) \/ CannotConnect(r) \/ ProtoSend(r) \/ ProtoRecv(r)
    BY <1>3, <1>6 DEF Reconnect, CannotConnect, NeverSent, ProtoSend, ProtoRecv, GiveUp, hist
  <1>7. CASE \E r \in Replicas : SendFails(r)
    BY <1>7, FailureGivesUp
  <1>8. CASE ReplicatorDestroy \/ LeaderRestart
    BY <1>3, <1>8 DEF ReplicatorDestroy, LeaderRestart, hist
  <1>9. CASE \E r \in Replicas : ConnectionBreaks(r) \/ NodeCrash(r) \/ NodeRestart(r)
    BY <1>3, <1>9 DEF ConnectionBreaks, NodeCrash, NodeRestart, hist
  <1>10. CASE UNCHANGED vars
    BY <1>3, <1>10 DEF vars, hist
  <1> QED  BY <1>1, <1>2, <1>4, <1>5, <1>6, <1>7, <1>8, <1>9, <1>10 DEF Next, Worker

(* Replication implements AsyncShipping: no standby applies a record twice,  *)
(* nor, of one life of the leader, an older record after a newer one, but    *)
(* for a record given up while a broken connection still held it, whatever   *)
(* crashes, breaks or restarts (replicator.c:40-84, storage_node/main.c:211-220). *)
THEOREM ReplicationShips == Spec => ShipsInOrder
  <1>1. Init => Shipping!Init
    <2> SUFFICES ASSUME Init  PROVE Shipping!Init
      OBVIOUS
    <2>1. stream = <<>> /\ copy = [r \in Replicas |-> <<>>] /\ late = [r \in Replicas |-> {}]
      BY DEF Init
    <2>2. [i \in DOMAIN stream |-> stream[i].life] = <<>>
      BY <2>1
    <2> QED  BY <2>1, <2>2 DEF Shipping!Init
  <1> QED  BY <1>1, StepShips, InvHolds, PTL DEF Spec, ShipsInOrder, Shipping!Spec

-----------------------------------------------------------------------------
(* The bounds of TypeOK, on top of the invariant.                            *)
Caps ==
    /\ Len(queue) <= QueueCap /\ dropped \subseteq 1..Len(stream)
    /\ ~Busy => item = NoItem
    /\ pc = "asleep" => queue = <<>> /\ running
    /\ \A r \in Replicas : acked[r] => conn[r] # "none"

LEMMA EnqueueKeepsCaps ==
    ASSUME Inv, Caps, NEW w \in Writers, ReplicatorEnqueue(w)
    PROVE  Caps'
  <1>1. /\ queue \in Seq(Message) /\ Len(queue) \in Nat
        /\ stream \in Seq(Emission) /\ Len(stream) \in Nat
    BY LenProperties DEF Inv, Types
  <1>2. Len(stream') = Len(stream) + 1
    <2>1. [life |-> life, at |-> pending[w]] \in Emission
      BY DEF Inv, Types, Emission
    <2>2. stream' = Append(stream, [life |-> life, at |-> pending[w]])
      BY DEF ReplicatorEnqueue
    <2> QED  BY <1>1, <2>1, <2>2, AppendProperties
  <1>3. Len(queue') <= QueueCap
    <2>1. CASE HasRoom
      <3>1. Entry(Len(stream) + 1, next_lsn) \in Message
        BY <1>1 DEF Inv, Types, Entry, Message
      <3>2. queue' = Append(queue, Entry(Len(stream) + 1, next_lsn))
        BY <2>1 DEF ReplicatorEnqueue
      <3>3. Len(queue') = Len(queue) + 1
        BY <1>1, <3>1, <3>2, AppendProperties
      <3> QED  BY <1>1, <2>1, <3>3 DEF HasRoom
    <2>2. CASE ~HasRoom
      BY <2>2 DEF ReplicatorEnqueue, Caps
    <2> QED  BY <2>1, <2>2
  <1>4. dropped' \subseteq 1..Len(stream')
    <2>1. dropped' \subseteq dropped \union {Len(stream) + 1}
      BY DEF ReplicatorEnqueue
    <2> QED  BY <1>1, <1>2, <2>1 DEF Caps
  <1>5. pc' = "asleep" => queue' = <<>> /\ running'
    BY DEF ReplicatorEnqueue, Woken, Caps
  <1>6. /\ UNCHANGED <<item, acked, conn>>
        /\ Busy' <=> Busy
    BY DEF ReplicatorEnqueue, Woken, Busy
  <1> QED  BY <1>3, <1>4, <1>5, <1>6 DEF Caps, NoItem

LEMMA NextKeepsCaps == Inv /\ Caps /\ [Next]_vars => Caps'
  <1> SUFFICES ASSUME Inv, Caps, [Next]_vars  PROVE Caps'
    OBVIOUS
  <1> USE DEF Caps
  <1>1. ASSUME NEW w \in Writers, WalAppend(w)  PROVE Caps'
    BY <1>1 DEF WalAppend, mem, hist, Busy, NoItem
  <1>2. CASE Sleep \/ WorkerExits \/ Done
    BY <1>2 DEF Sleep, WorkerExits, Done, mem, hist, Busy, NoItem
  <1>3. CASE Take
    <2>1. queue \in Seq(Message) /\ queue # <<>>
      BY <1>3 DEF Take, Inv, Types
    <2>2. Len(queue') <= Len(queue) /\ Len(queue') \in Nat /\ Len(queue) \in Nat
      BY <1>3, <2>1, HeadTailProperties, LenProperties DEF Take, Rest
    <2> QED  BY <1>3, <2>2 DEF Take, mem, hist, Busy, NoItem
  <1>4. ASSUME NEW r \in Replicas, Reconnect(r) \/ ProtoSend(r)  PROVE Caps'
    BY <1>4 DEF Inv, Types, Reconnect, ProtoSend, At, mem, hist, Busy, NoItem
  <1>5. ASSUME NEW r \in Replicas, ProtoRecv(r)  PROVE Caps'
    BY <1>5 DEF Inv, Types, ProtoRecv, mem, hist, Busy, NoItem
  <1>6. ASSUME NEW r \in Replicas, CannotConnect(r) \/ SendFails(r)  PROVE Caps'
    <2>1. /\ UNCHANGED <<queue, stream, dropped, item, running>> /\ Busy /\ pc' = "sending"
          /\ conn' = [conn EXCEPT ![r] = "none"] /\ acked' = [acked EXCEPT ![r] = FALSE]
      BY <1>6 DEF CannotConnect, SendFails, GiveUp, QueueAfterFailure, At, Busy
    <2> QED  BY <2>1 DEF Inv, Types, Busy, NoItem
  <1>7. CASE ReplicatorDestroy
    BY <1>7 DEF ReplicatorDestroy, Woken, mem, hist, Busy, NoItem
  <1>8. CASE LeaderRestart
    <2>1. Len(queue') = 0
      BY <1>8 DEF LeaderRestart
    <2> QED  BY <1>8, <2>1 DEF LeaderRestart, NoItem
  <1>9. ASSUME NEW r \in Replicas, HandleReplicate(r)  PROVE Caps'
    <2>1. \A q \in Replicas : acked'[q] => acked[q] \/ conn[q] = "up"
      BY <1>9 DEF HandleReplicate, Inv, Types
    <2> QED  BY <1>9, <2>1 DEF HandleReplicate, Busy, NoItem
  <1>10. ASSUME NEW r \in Replicas, NodeCrash(r) \/ NodeRestart(r)  PROVE Caps'
    BY <1>10 DEF Inv, Types, NodeCrash, NodeRestart, mem, hist, Busy, NoItem
  <1>11. CASE UNCHANGED vars
    BY <1>11 DEF vars, mem, hist, Busy, NoItem
  <1>12. ASSUME NEW r \in Replicas, ConnectionBreaks(r)  PROVE Caps'
    <2>1. \A q \in Replicas : acked'[q] => acked[q]
      BY <1>12 DEF ConnectionBreaks, Inv, Types
    <2>2. \A q \in Replicas : conn[q] # "none" => conn'[q] # "none"
      BY <1>12 DEF ConnectionBreaks, Inv, Types
    <2> QED  BY <1>12, <2>1, <2>2 DEF ConnectionBreaks, Busy, NoItem
  <1> QED  BY <1>1, <1>2, <1>3, <1>4, <1>5, <1>6, <1>7, <1>8, <1>9, <1>10, <1>11,
              <1>12, EnqueueKeepsCaps DEF Next, Worker

LEMMA InvAndCapsGiveTypeOK == Inv /\ Caps => TypeOK
  <1> SUFFICES ASSUME Inv, Caps  PROVE TypeOK
    OBVIOUS
  <1>1. /\ Len(queue) <= QueueCap /\ life \in 1..(faults + 1) /\ faults \in 0..MaxFaults
        /\ pc \in {"ready", "asleep", "sending", "waiting", "exited"}
        /\ to \in 1..(nreplicas + 1)
        /\ pc = "asleep" => queue = <<>> /\ running
        /\ \A r \in Replicas : acked[r] => pc = "waiting" /\ to = r /\ conn[r] # "none"
    BY DEF Inv, Types, Caps, Acks
  <1>2. Records(queue) \union dropped \subseteq DOMAIN stream
    <2>1. DOMAIN stream = 1..Len(stream) /\ DOMAIN queue = 1..Len(queue)
      BY StreamDomain DEF Inv, Types
    <2> QED  BY <2>1 DEF Inv, Caps, Queued, Current, Emitted, Records
  <1>3. pc \in {"sending", "waiting"} <=> item # NoItem
    <2>1. Busy => item.rec # 0
      BY DEF Inv, Queued, Current, Emitted
    <2> QED  BY <2>1 DEF Caps, Busy, NoItem, Entry
  <1> QED  BY <1>1, <1>2, <1>3 DEF TypeOK

(* The queue keeps to its REPL_QUEUE_CAP entries, and an answer is awaited   *)
(* only at the standby the worker is at (replicator.c:39-60, 74-91).         *)
THEOREM ReplicationTypes == Spec => []TypeOK
  <1>1. Init => Caps
    <2> SUFFICES ASSUME Init  PROVE Caps
      OBVIOUS
    <2>1. Len(queue) = 0
      BY DEF Init
    <2> QED  BY <2>1 DEF Init, Caps
  <1> QED  BY <1>1, InvHolds, NextKeepsCaps, InvAndCapsGiveTypeOK, PTL DEF Spec

=============================================================================
