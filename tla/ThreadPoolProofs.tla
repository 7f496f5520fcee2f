--------------------------- MODULE ThreadPoolProofs ---------------------------
(***************************************************************************)
(* Theorems about ThreadPool, for any number of workers, callers, places   *)
(* in the queue and tasks: its types, no lost wake-up, tp_wait's answer    *)
(* and what a freed pool leaves.                                           *)
(***************************************************************************)
EXTENDS ThreadPool, SequenceTheorems, FiniteSetTheorems, TLAPS

USE ThreadPoolAssumption DEF ThreadPoolAssumption

Occupied == {w \in Workers : running[w] # NoTask}
Idle == {w \in Workers : AtTop(w)}
Callers == {s \in Submitters : Inside(s)}

Types ==
    /\ queue \in Seq(Tasks)
    /\ phase = "up" => Len(queue) <= QueueMax
    /\ phase \in {"up", "shutdown", "freed"}
    /\ running \in [Workers -> Tasks \union {NoTask}]
    /\ exited \subseteq Workers
    /\ submitting \in [Submitters -> Tasks \union {NoTask}]
    /\ draining \subseteq Drainers
    /\ waiting \subseteq Workers \union Submitters \union Drainers
    /\ fate \in [Tasks -> {"none", "submitted", "queued", "late", "running", "done"}]

(* p->active counts the workers with a task in their hands.                  *)
ActiveCounts == active = Cardinality(Occupied)

(* Who is in cond_wait has nothing in hand, or still has what it waits with.  *)
WaitersAreIdle ==
    /\ \A w \in exited : running[w] = NoTask
    /\ \A w \in OnWork : running[w] = NoTask /\ w \notin exited
    /\ \A s \in Submitters \intersect waiting : submitting[s] # NoTask
    /\ Drainers \intersect waiting \subseteq draining

(* cond_idle has waiters only while something is there to wake them.         *)
IdleWaitersHaveWork == OnIdle # {} => Busy

(* Where a task is, by its fate.                                             *)
TasksAreSomewhere ==
    /\ \A k \in Tasks : fate[k] \in {"queued", "late"} => \E j \in 1..Len(queue) : queue[j] = k
    /\ \A k \in Tasks : fate[k] = "running" => \E w \in Workers : running[w] = k

(* A worker leaves only a pool that is going down, with nothing accepted     *)
(* before that still in the queue.                                           *)
NoneLeftBehind ==
    /\ exited # {} => phase # "up" /\ \A k \in Tasks : fate[k] # "queued"
    /\ phase = "freed" => exited = Workers

(* No wake-up is lost, with the threads on their way counted by name.        *)
WorkCovered == OnWork # {} => Len(queue) <= Cardinality(Idle)
RoomCovered ==
    (draining = {} /\ phase = "up" /\ OnIdle # {}) =>
        QueueMax - Len(queue) <= Cardinality(Callers)

Inv == /\ Types /\ ActiveCounts /\ WaitersAreIdle /\ IdleWaitersHaveWork
       /\ TasksAreSomewhere /\ NoneLeftBehind /\ WorkCovered /\ RoomCovered

-----------------------------------------------------------------------------
(* Counting                                                                  *)

LEMMA Sets ==
    ASSUME NEW S, IsFiniteSet(S), NEW T \in SUBSET S
    PROVE  IsFiniteSet(T) /\ Cardinality(T) \in Nat
  BY FS_Subset, FS_CardinalityType

LEMMA Finite ==
    /\ IsFiniteSet(Occupied) /\ Cardinality(Occupied) \in Nat
    /\ IsFiniteSet(Idle) /\ Cardinality(Idle) \in Nat
    /\ IsFiniteSet(Callers) /\ Cardinality(Callers) \in Nat
  <1>1. Occupied \subseteq Workers /\ Idle \subseteq Workers /\ Callers \subseteq Submitters
    BY DEF Occupied, Idle, Callers
  <1> QED  BY <1>1, Sets

LEMMA Joined ==
    ASSUME NEW S, IsFiniteSet(S), NEW e, e \notin S
    PROVE  Cardinality(S \union {e}) = Cardinality(S) + 1
  BY FS_AddElement

LEMMA Gone ==
    ASSUME NEW S, IsFiniteSet(S), NEW e \in S
    PROVE  Cardinality(S \ {e}) = Cardinality(S) - 1
  BY FS_RemoveElement

LEMMA AtMost ==
    ASSUME NEW S, NEW T, IsFiniteSet(T), S \subseteq T
    PROVE  Cardinality(S) <= Cardinality(T) /\ Cardinality(S) \in Nat
  BY FS_Subset, FS_CardinalityType

(* Nobody has a task when active is 0.                                       *)
LEMMA NoneOccupied ==
    ASSUME Types, ActiveCounts, active = 0
    PROVE  \A w \in Workers : running[w] = NoTask
  <1>1. Occupied = {}
    BY Finite, FS_EmptySet DEF ActiveCounts
  <1> QED  BY <1>1 DEF Occupied

LEMMA QueueLength == Types => Len(queue) \in Nat /\ (queue = <<>> <=> Len(queue) = 0)
  BY EmptySeq, LenProperties DEF Types

-----------------------------------------------------------------------------
(* The workers                                                               *)

LEMMA WorkerWaitKeeps ==
    ASSUME Inv, NEW w \in Workers, WorkerWait(w)
    PROVE  Inv'
  <1>1. /\ UNCHANGED <<queue, active, phase, running, exited, submitting, draining, fate>>
        /\ waiting' = waiting \union {w} /\ running[w] = NoTask /\ w \notin exited
        /\ queue = <<>>
    BY DEF WorkerWait, AtTop
  <1>2. OnIdle' = OnIdle /\ OnWork' \subseteq OnWork \union {w}
    BY <1>1 DEF OnIdle, OnWork
  <1>3. Types' /\ ActiveCounts'
    BY <1>1 DEF Inv, Types, ActiveCounts, Occupied
  <1>4. WaitersAreIdle' /\ IdleWaitersHaveWork'
    BY <1>1, <1>2 DEF Inv, WaitersAreIdle, IdleWaitersHaveWork, Busy
  <1>5. TasksAreSomewhere' /\ NoneLeftBehind'
    BY <1>1 DEF Inv, TasksAreSomewhere, NoneLeftBehind
  <1>6. WorkCovered'
    <2>1. Cardinality(Idle') \in Nat
      BY AtMost, Finite, Sets DEF Idle
    <2>2. Len(queue') = 0
      BY <1>1, QueueLength DEF Inv
    <2> QED  BY <2>1, <2>2 DEF WorkCovered
  <1>7. RoomCovered'
    <2>1. \A s \in Submitters : Inside(s)' <=> Inside(s)
      BY <1>1 DEF Inside
    <2>2. Callers' = Callers
      BY <2>1 DEF Callers
    <2> QED  BY <1>1, <1>2, <2>2 DEF Inv, RoomCovered
  <1> QED  BY <1>3, <1>4, <1>5, <1>6, <1>7 DEF Inv

LEMMA WorkerExitKeeps ==
    ASSUME Inv, NEW w \in Workers, WorkerExit(w)
    PROVE  Inv'
  <1>1. /\ UNCHANGED <<queue, active, phase, running, submitting, draining, waiting, fate>>
        /\ exited' = exited \union {w} /\ running[w] = NoTask /\ w \notin waiting
        /\ queue = <<>> /\ phase # "up"
    BY DEF WorkerExit, AtTop, MayExit
  <1>2. Len(queue') = 0
    BY <1>1, QueueLength DEF Inv
  <1>3. Types' /\ ActiveCounts'
    BY <1>1 DEF Inv, Types, ActiveCounts, Occupied
  <1>4. WaitersAreIdle' /\ IdleWaitersHaveWork'
    BY <1>1 DEF Inv, WaitersAreIdle, IdleWaitersHaveWork, Busy, OnWork, OnIdle
  <1>5. TasksAreSomewhere'
    BY <1>1 DEF Inv, TasksAreSomewhere
  <1>6. NoneLeftBehind'
    <2>1. \A k \in Tasks : fate[k] # "queued"
      BY <1>1, <1>2 DEF Inv, TasksAreSomewhere
    <2> QED  BY <1>1, <2>1 DEF Inv, Types, NoneLeftBehind
  <1>7. WorkCovered'
    <2>1. Cardinality(Idle') \in Nat
      BY Sets DEF Idle
    <2> QED  BY <1>2, <2>1 DEF WorkCovered
  <1>8. RoomCovered'
    BY <1>1 DEF RoomCovered
  <1> QED  BY <1>3, <1>4, <1>5, <1>6, <1>7, <1>8 DEF Inv

(* A task leaves the queue for a worker, and a caller may come for the place. *)
LEMMA TakeKeeps ==
    ASSUME Inv, NEW w \in Workers, Take(w)
    PROVE  Inv'
  <1> DEFINE k == Head(queue)
  <1>1. /\ UNCHANGED <<phase, exited, submitting, draining>> /\ queue # <<>>
        /\ running' = [running EXCEPT ![w] = k] /\ running[w] = NoTask
        /\ w \notin exited /\ w \notin waiting /\ active' = active + 1
        /\ fate' = [fate EXCEPT ![k] = "running"]
    BY DEF Take, AtTop, ActiveAfterTake
  <1>2. /\ queue' \in Seq(Tasks) /\ k \in Tasks /\ k = queue[1] /\ Len(queue) \in Nat \ {0}
        /\ Len(queue') = Len(queue) - 1
        /\ \A i \in 1..Len(queue') : queue'[i] = queue[i + 1]
    <2>1. queue \in Seq(Tasks) /\ queue' = Tail(queue)
      BY DEF Inv, Types, Take
    <2> QED  BY <1>1, <2>1, HeadTailProperties, EmptySeq
  <1>3. \/ OnIdle = {} /\ waiting' = waiting
        \/ \E t \in OnIdle : waiting' = waiting \ {t}
    BY DEF Take, RoomSignal, Signal
  <1> HIDE DEF k
  <1>4. waiting' \subseteq waiting /\ OnWork' = OnWork /\ OnIdle' \subseteq OnIdle
    BY <1>3 DEF OnWork, OnIdle
  <1>5. k # NoTask /\ k \in Tasks
    BY <1>2 DEF Tasks
  <1>6. Types'
    BY <1>1, <1>2, <1>4 DEF Inv, Types
  <1>7. ActiveCounts'
    <2>1. Occupied' = Occupied \union {w} /\ w \notin Occupied
      BY <1>1, <1>5 DEF Inv, Types, Occupied
    <2>2. Cardinality(Occupied') = Cardinality(Occupied) + 1
      BY <2>1, Joined, Finite
    <2> QED  BY <1>1, <2>2 DEF Inv, ActiveCounts
  <1>8. WaitersAreIdle'
    BY <1>1, <1>4 DEF Inv, Types, WaitersAreIdle, OnWork
  <1>9. IdleWaitersHaveWork'
    <2>1. active' # 0
      BY <1>1, Finite DEF Inv, ActiveCounts
    <2> QED  BY <2>1 DEF IdleWaitersHaveWork, Busy
  <1>10. TasksAreSomewhere'
    <2>1. ASSUME NEW j \in Tasks, fate'[j] \in {"queued", "late"}
          PROVE  \E i \in 1..Len(queue') : queue'[i] = j
      <3>1. j # k /\ fate[j] \in {"queued", "late"}
        BY <1>1, <1>5, <2>1 DEF Inv, Types
      <3>2. PICK i \in 1..Len(queue) : queue[i] = j
        BY <3>1 DEF Inv, TasksAreSomewhere
      <3>3. i - 1 \in 1..Len(queue') /\ queue'[i - 1] = j
        BY <1>2, <3>1, <3>2
      <3> QED  BY <3>3
    <2>2. ASSUME NEW j \in Tasks, fate'[j] = "running"
          PROVE  \E v \in Workers : running'[v] = j
      <3>1. CASE j = k
        BY <1>1, <3>1 DEF Inv, Types
      <3>2. CASE j # k
        <4>1. PICK v \in Workers : running[v] = j
          BY <1>1, <2>2, <3>2 DEF Inv, Types, TasksAreSomewhere
        <4>2. v # w
          BY <1>1, <4>1 DEF Tasks
        <4> QED  BY <1>1, <4>1, <4>2 DEF Inv, Types
      <3> QED  BY <3>1, <3>2
    <2> QED  BY <2>1, <2>2 DEF TasksAreSomewhere
  <1>11. NoneLeftBehind'
    BY <1>1, <1>5 DEF Inv, Types, NoneLeftBehind
  <1>12. WorkCovered'
    <2>1. Idle' = Idle \ {w} /\ w \in Idle
      BY <1>1, <1>4, <1>5 DEF Inv, Types, Idle, AtTop, OnWork
    <2>2. Cardinality(Idle') = Cardinality(Idle) - 1
      BY <2>1, Gone, Finite
    <2> QED  BY <1>2, <1>4, <2>2, Finite DEF Inv, WorkCovered
  <1>13. RoomCovered'
    <2> SUFFICES ASSUME draining = {}, phase = "up", OnIdle' # {}
                 PROVE  QueueMax - Len(queue') <= Cardinality(Callers')
      BY <1>1 DEF RoomCovered
    <2>1. PICK t \in OnIdle : waiting' = waiting \ {t}
      BY <1>3, <1>4
    <2>2. t \in Submitters /\ submitting[t] # NoTask /\ t \in waiting
      BY <2>1 DEF Inv, Types, WaitersAreIdle, OnIdle
    <2>3. Callers' = Callers \union {t} /\ t \notin Callers
      BY <1>1, <2>1, <2>2 DEF Callers, Inside
    <2>4. Cardinality(Callers') = Cardinality(Callers) + 1
      BY <2>3, Joined, Finite
    <2>5. QueueMax - Len(queue) <= Cardinality(Callers)
      BY <2>1 DEF Inv, RoomCovered
    <2> QED  BY <1>2, <2>4, <2>5, Finite
  <1> QED  BY <1>6, <1>7, <1>8, <1>9, <1>10, <1>11, <1>12, <1>13 DEF Inv

(* A task's function returns; the last of them wakes all of cond_idle.       *)
LEMMA FinishKeeps ==
    ASSUME Inv, NEW w \in Workers, Finish(w)
    PROVE  Inv'
  <1>1. /\ UNCHANGED <<queue, phase, exited, submitting, draining>>
        /\ running' = [running EXCEPT ![w] = NoTask] /\ running[w] # NoTask
        /\ active' = active - 1
        /\ fate' = [fate EXCEPT ![running[w]] = "done"]
    BY DEF Finish
  <1>2. \/ active' = 0 /\ queue = <<>> /\ waiting' = waiting \ OnIdle
        \/ ~(active' = 0 /\ queue = <<>>) /\ waiting' = waiting
    BY DEF Finish, BroadcastIdle
  <1>3. running[w] \in Tasks
    BY <1>1 DEF Inv, Types
  <1>4. OnWork' = OnWork /\ waiting' \subseteq waiting /\ OnIdle' \subseteq OnIdle
    BY <1>2 DEF OnWork, OnIdle
  <1>5. w \notin exited /\ w \notin waiting
    BY <1>1 DEF Inv, WaitersAreIdle, OnWork
  <1>6. Types'
    BY <1>1, <1>4 DEF Inv, Types
  <1>7. ActiveCounts'
    <2>1. Occupied' = Occupied \ {w} /\ w \in Occupied
      BY <1>1 DEF Inv, Types, Occupied
    <2>2. Cardinality(Occupied') = Cardinality(Occupied) - 1
      BY <2>1, Gone, Finite
    <2> QED  BY <1>1, <2>2 DEF Inv, ActiveCounts
  <1>8. WaitersAreIdle'
    BY <1>1, <1>4 DEF Inv, Types, WaitersAreIdle
  <1>9. IdleWaitersHaveWork'
    BY <1>1, <1>2 DEF IdleWaitersHaveWork, Busy, OnIdle
  <1>10. TasksAreSomewhere'
    <2>1. \A j \in Tasks : fate'[j] # "done" => fate'[j] = fate[j] /\ j # running[w]
      BY <1>1, <1>3 DEF Inv, Types
    <2>2. \A v \in Workers : running[v] # running[w] => running'[v] = running[v]
      BY <1>1 DEF Inv, Types
    <2> QED  BY <1>1, <2>1, <2>2 DEF Inv, TasksAreSomewhere
  <1>11. NoneLeftBehind'
    BY <1>1, <1>3 DEF Inv, Types, NoneLeftBehind
  <1>12. WorkCovered'
    <2>1. Idle \subseteq Idle' /\ IsFiniteSet(Idle')
      <3>1. Idle' \subseteq Workers
        BY DEF Idle
      <3> QED  BY <1>1, <1>4, <3>1, Sets DEF Inv, Types, Idle, AtTop
    <2>2. Cardinality(Idle) <= Cardinality(Idle') /\ Cardinality(Idle') \in Nat
      BY <2>1, AtMost, FS_CardinalityType
    <2> QED  BY <1>1, <1>4, <2>2, QueueLength, Finite DEF Inv, WorkCovered
  <1>13. RoomCovered'
    <2>1. CASE waiting' = waiting
      <3>1. Callers' = Callers
        BY <1>1, <2>1 DEF Callers, Inside
      <3> QED  BY <1>1, <1>4, <3>1 DEF Inv, RoomCovered
    <2>2. CASE waiting' = waiting \ OnIdle
      <3>1. OnIdle' = {}
        BY <2>2 DEF OnIdle
      <3> QED  BY <3>1 DEF RoomCovered
    <2> QED  BY <1>2, <2>1, <2>2
  <1> QED  BY <1>6, <1>7, <1>8, <1>9, <1>10, <1>11, <1>12, <1>13 DEF Inv

-----------------------------------------------------------------------------
(* The callers                                                               *)

LEMMA CallSubmitKeeps ==
    ASSUME Inv, NEW s \in Submitters, CallSubmit(s)
    PROVE  Inv'
  <1>1. PICK k \in Tasks :
          /\ fate[k] = "none" /\ submitting[s] = NoTask /\ phase # "freed"
          /\ submitting' = [submitting EXCEPT ![s] = k]
          /\ fate' = [fate EXCEPT ![k] = "submitted"]
    BY DEF CallSubmit, NextTask
  <1>2. UNCHANGED <<queue, active, phase, running, exited, draining, waiting>>
    BY DEF CallSubmit
  <1>3. OnWork' = OnWork /\ OnIdle' = OnIdle /\ k # NoTask
    BY <1>2 DEF OnWork, OnIdle, Tasks
  <1>4. Types' /\ ActiveCounts'
    BY <1>1, <1>2 DEF Inv, Types, ActiveCounts, Occupied
  <1>5. WaitersAreIdle' /\ IdleWaitersHaveWork'
    BY <1>1, <1>2, <1>3 DEF Inv, Types, WaitersAreIdle, IdleWaitersHaveWork, Busy
  <1>6. TasksAreSomewhere' /\ NoneLeftBehind'
    BY <1>1, <1>2 DEF Inv, Types, TasksAreSomewhere, NoneLeftBehind
  <1>7. WorkCovered'
    <2>1. Idle' = Idle
      BY <1>2 DEF Idle, AtTop
    <2> QED  BY <1>2, <1>3, <2>1 DEF Inv, WorkCovered
  <1>8. RoomCovered'
    <2>1. Callers \subseteq Callers' /\ Callers' \subseteq Submitters
      BY <1>1, <1>2, <1>3 DEF Inv, Types, Callers, Inside
    <2>2. Cardinality(Callers) <= Cardinality(Callers') /\ Cardinality(Callers') \in Nat
      BY <2>1, AtMost, Sets
    <2> QED  BY <1>2, <1>3, <2>2, QueueLength, Finite DEF Inv, RoomCovered
  <1> QED  BY <1>4, <1>5, <1>6, <1>7, <1>8 DEF Inv

(* A full queue leaves no place to come for.                                 *)
LEMMA BlockKeeps ==
    ASSUME Inv, NEW s \in Submitters, Block(s)
    PROVE  Inv'
  <1>1. /\ UNCHANGED <<queue, active, phase, running, exited, submitting, draining, fate>>
        /\ waiting' = waiting \union {s} /\ submitting[s] # NoTask
        /\ Len(queue) >= QueueMax
    BY DEF Block, Inside, MustBlock
  <1>2. OnWork' = OnWork /\ s \notin Workers
    BY <1>1 DEF OnWork
  <1>3. Len(queue) \in Nat /\ queue # <<>>
    BY <1>1, QueueLength DEF Inv
  <1>4. Types' /\ ActiveCounts'
    BY <1>1 DEF Inv, Types, ActiveCounts, Occupied
  <1>5. WaitersAreIdle' /\ IdleWaitersHaveWork'
    BY <1>1, <1>2, <1>3 DEF Inv, WaitersAreIdle, IdleWaitersHaveWork, Busy
  <1>6. TasksAreSomewhere' /\ NoneLeftBehind'
    BY <1>1 DEF Inv, TasksAreSomewhere, NoneLeftBehind
  <1>7. WorkCovered'
    <2>1. Idle' = Idle
      BY <1>1, <1>2 DEF Idle, AtTop
    <2> QED  BY <1>1, <1>2, <2>1 DEF Inv, WorkCovered
  <1>8. RoomCovered'
    <2>1. Cardinality(Callers') \in Nat
      BY Sets DEF Callers
    <2> QED  BY <1>1, <1>3, <2>1 DEF RoomCovered
  <1> QED  BY <1>4, <1>5, <1>6, <1>7, <1>8 DEF Inv

(* A task joins the queue, and a worker in cond_wait comes for it.           *)
LEMMA EnqueueKeeps ==
    ASSUME Inv, NEW s \in Submitters, Enqueue(s)
    PROVE  Inv'
  <1> DEFINE k == submitting[s]
  <1>1. /\ UNCHANGED <<active, phase, running, exited, draining>>
        /\ k # NoTask /\ s \notin waiting /\ phase # "freed"
        /\ Len(queue) >= QueueMax => phase # "up"
        /\ submitting' = [submitting EXCEPT ![s] = NoTask]
        /\ fate' = [fate EXCEPT ![k] = IF phase = "up" THEN "queued" ELSE "late"]
    BY DEF Enqueue, Inside, MustBlock
  <1>2. k \in Tasks
    BY <1>1 DEF Inv, Types
  <1>3. /\ queue' \in Seq(Tasks) /\ Len(queue') = Len(queue) + 1 /\ Len(queue) \in Nat
        /\ \A i \in 1..Len(queue) : queue'[i] = queue[i]
        /\ queue'[Len(queue) + 1] = k
    <2>1. queue \in Seq(Tasks) /\ queue' = Append(queue, k)
      BY DEF Inv, Types, Enqueue
    <2> QED  BY <1>2, <2>1, AppendProperties, LenProperties
  <1>4. \/ OnWork = {} /\ waiting' = waiting
        \/ \E t \in OnWork : waiting' = waiting \ {t}
    BY DEF Enqueue, WorkSignal, Signal
  <1> HIDE DEF k
  <1>5. waiting' \subseteq waiting /\ OnIdle' = OnIdle /\ OnWork' \subseteq OnWork
    BY <1>4 DEF OnWork, OnIdle
  <1>6. Types'
    <2>1. phase' = "up" => Len(queue') <= QueueMax
      BY <1>1, <1>3 DEF Inv, Types
    <2> QED  BY <1>1, <1>2, <1>3, <1>5, <2>1 DEF Inv, Types
  <1>7. ActiveCounts'
    BY <1>1 DEF Inv, ActiveCounts, Occupied
  <1>8. WaitersAreIdle'
    BY <1>1, <1>5 DEF Inv, Types, WaitersAreIdle
  <1>9. IdleWaitersHaveWork'
    <2>1. queue' # <<>>
      BY <1>3
    <2> QED  BY <2>1 DEF IdleWaitersHaveWork, Busy
  <1>10. TasksAreSomewhere'
    <2>1. ASSUME NEW j \in Tasks, fate'[j] \in {"queued", "late"}
          PROVE  \E i \in 1..Len(queue') : queue'[i] = j
      <3>1. CASE j = k
        BY <1>3, <3>1
      <3>2. CASE j # k
        <4>1. PICK i \in 1..Len(queue) : queue[i] = j
          BY <1>1, <2>1, <3>2 DEF Inv, Types, TasksAreSomewhere
        <4> QED  BY <1>3, <4>1
      <3> QED  BY <3>1, <3>2
    <2>2. \A j \in Tasks : fate'[j] = "running" => fate[j] = "running"
      BY <1>1, <1>2 DEF Inv, Types
    <2> QED  BY <1>1, <2>1, <2>2 DEF Inv, TasksAreSomewhere
  <1>11. NoneLeftBehind'
    BY <1>1, <1>2 DEF Inv, Types, NoneLeftBehind
  <1>12. WorkCovered'
    <2> SUFFICES ASSUME OnWork' # {}
                 PROVE  Len(queue') <= Cardinality(Idle')
      BY DEF WorkCovered
    <2>1. PICK t \in OnWork : waiting' = waiting \ {t}
      BY <1>4, <1>5
    <2>2. t \in Workers /\ t \in waiting /\ running[t] = NoTask /\ t \notin exited
      BY DEF Inv, WaitersAreIdle, OnWork
    <2>3. Idle' = Idle \union {t} /\ t \notin Idle
      BY <1>1, <2>1, <2>2 DEF Idle, AtTop
    <2>4. Cardinality(Idle') = Cardinality(Idle) + 1
      BY <2>3, Joined, Finite
    <2>5. Len(queue) <= Cardinality(Idle)
      BY DEF Inv, WorkCovered
    <2> QED  BY <1>3, <2>4, <2>5, Finite
  <1>13. RoomCovered'
    <2>a. \A q \in Submitters : q \in waiting' <=> q \in waiting
      BY <1>4, ThreadPoolAssumption DEF OnWork
    <2>b. submitting[s] # NoTask /\ submitting \in [Submitters -> Tasks \union {NoTask}]
      BY <1>1 DEF k, Inv, Types
    <2>c. \A q \in Submitters : submitting'[q] = IF q = s THEN NoTask ELSE submitting[q]
      BY <1>1, <2>b
    <2>1. Callers' = Callers \ {s} /\ s \in Callers
      BY <1>1, <2>a, <2>b, <2>c DEF Callers, Inside
    <2>2. Cardinality(Callers') = Cardinality(Callers) - 1
      BY <2>1, Gone, Finite
    <2> QED  BY <1>1, <1>3, <1>5, <2>2, Finite DEF Inv, RoomCovered
  <1> QED  BY <1>6, <1>7, <1>8, <1>9, <1>10, <1>11, <1>12, <1>13 DEF Inv

LEMMA CallWaitKeeps ==
    ASSUME Inv, NEW d \in Drainers, CallWait(d)
    PROVE  Inv'
  <1>1. /\ UNCHANGED <<queue, active, phase, running, exited, submitting, waiting, fate>>
        /\ draining' = draining \union {d}
    BY DEF CallWait
  <1>2. (Types /\ ActiveCounts /\ WaitersAreIdle /\ IdleWaitersHaveWork)'
    BY <1>1 DEF Inv, Types, ActiveCounts, WaitersAreIdle, IdleWaitersHaveWork, Occupied, OnWork,
                OnIdle, Busy
  <1>3. (TasksAreSomewhere /\ NoneLeftBehind /\ WorkCovered)'
    BY <1>1 DEF Inv, TasksAreSomewhere, NoneLeftBehind, WorkCovered, OnWork, Idle, AtTop
  <1>4. RoomCovered'
    BY <1>1 DEF RoomCovered
  <1> QED  BY <1>2, <1>3, <1>4 DEF Inv

(* tp_wait goes back to sleep, or returns because nothing is left; then no   *)
(* caller of tp_submit was waiting either.                                   *)
LEMMA WaitStepKeeps ==
    ASSUME Inv, NEW d \in Drainers, WaitStep(d)
    PROVE  Inv'
  <1>1. /\ UNCHANGED <<queue, active, phase, running, exited, submitting, fate>>
        /\ d \in draining
        /\ \/ Busy /\ waiting' = waiting \union {d} /\ draining' = draining
           \/ ~Busy /\ draining' = draining \ {d} /\ waiting' = waiting /\ d \notin waiting
    BY DEF WaitStep
  <1>2. OnWork' = OnWork /\ (Busy' <=> Busy)
    BY <1>1 DEF OnWork, Busy
  <1>3. Types' /\ ActiveCounts'
    BY <1>1 DEF Inv, Types, ActiveCounts, Occupied
  <1>4. WaitersAreIdle'
    BY <1>1, <1>2 DEF Inv, WaitersAreIdle
  <1>5. IdleWaitersHaveWork'
    BY <1>1, <1>2 DEF Inv, IdleWaitersHaveWork, OnIdle
  <1>6. TasksAreSomewhere' /\ NoneLeftBehind'
    BY <1>1 DEF Inv, TasksAreSomewhere, NoneLeftBehind
  <1>7. WorkCovered'
    <2>1. Idle' = Idle
      BY <1>1 DEF Idle, AtTop
    <2> QED  BY <1>1, <1>2, <2>1 DEF Inv, WorkCovered
  <1>8. RoomCovered'
    <2>1. CASE Busy
      <3>1. draining' # {}
        BY <1>1, <2>1
      <3> QED  BY <3>1 DEF RoomCovered
    <2>2. CASE ~Busy
      <3>1. OnIdle' = {}
        BY <1>1, <2>2 DEF Inv, IdleWaitersHaveWork, OnIdle
      <3> QED  BY <3>1 DEF RoomCovered
    <2> QED  BY <2>1, <2>2
  <1> QED  BY <1>3, <1>4, <1>5, <1>6, <1>7, <1>8 DEF Inv

-----------------------------------------------------------------------------
(* tp_destroy                                                                *)

LEMMA ShutdownKeeps ==
    ASSUME Inv, Shutdown
    PROVE  Inv'
  <1>1. /\ UNCHANGED <<queue, active, running, exited, submitting, draining, fate>>
        /\ phase = "up" /\ phase' = "shutdown" /\ waiting' = waiting \ OnWork
    BY DEF Shutdown, AllWorkersTold
  <1>2. OnWork' = {} /\ OnIdle' = OnIdle /\ waiting' \subseteq waiting
    BY <1>1 DEF OnWork, OnIdle
  <1>3. (Types /\ ActiveCounts /\ WaitersAreIdle /\ IdleWaitersHaveWork)'
    BY <1>1, <1>2 DEF Inv, Types, ActiveCounts, WaitersAreIdle, IdleWaitersHaveWork, Occupied,
                      Busy
  <1>4. (TasksAreSomewhere /\ NoneLeftBehind /\ WorkCovered /\ RoomCovered)'
    BY <1>1, <1>2 DEF Inv, TasksAreSomewhere, NoneLeftBehind, WorkCovered, RoomCovered
  <1> QED  BY <1>3, <1>4 DEF Inv

LEMMA FreeKeeps ==
    ASSUME Inv, Free
    PROVE  Inv'
  <1>1. /\ UNCHANGED <<queue, active, running, exited, submitting, draining, waiting, fate>>
        /\ phase = "shutdown" /\ phase' = "freed" /\ exited = Workers
    BY DEF Free
  <1>2. (Types /\ ActiveCounts /\ WaitersAreIdle /\ IdleWaitersHaveWork)'
    BY <1>1 DEF Inv, Types, ActiveCounts, WaitersAreIdle, IdleWaitersHaveWork, Occupied, OnWork,
                OnIdle, Busy
  <1>3. (TasksAreSomewhere /\ NoneLeftBehind /\ WorkCovered /\ RoomCovered)'
    BY <1>1 DEF Inv, TasksAreSomewhere, NoneLeftBehind, WorkCovered, RoomCovered, OnWork, Idle,
                AtTop
  <1> QED  BY <1>2, <1>3 DEF Inv

-----------------------------------------------------------------------------
LEMMA InitEstablishesInv == Init => Inv
  <1> SUFFICES ASSUME Init  PROVE Inv
    OBVIOUS
  <1> USE DEF Init
  <1>1. Types /\ WaitersAreIdle /\ IdleWaitersHaveWork
    BY DEF Types, WaitersAreIdle, IdleWaitersHaveWork, OnWork, OnIdle
  <1>2. ActiveCounts
    <2>1. Occupied = {}
      BY DEF Occupied
    <2> QED  BY <2>1, FS_EmptySet DEF ActiveCounts
  <1>3. TasksAreSomewhere /\ NoneLeftBehind /\ WorkCovered /\ RoomCovered
    BY DEF TasksAreSomewhere, NoneLeftBehind, WorkCovered, RoomCovered, OnWork, OnIdle
  <1> QED  BY <1>1, <1>2, <1>3 DEF Inv

LEMMA NextKeepsInv == Inv /\ [Next]_vars => Inv'
  <1> SUFFICES ASSUME Inv, [Next]_vars  PROVE Inv'
    OBVIOUS
  <1>1. ASSUME NEW w \in Workers, Worker(w)  PROVE Inv'
    BY <1>1, WorkerWaitKeeps, WorkerExitKeeps, TakeKeeps, FinishKeeps DEF Worker
  <1>2. ASSUME NEW s \in Submitters, CallSubmit(s) \/ Block(s) \/ Enqueue(s)  PROVE Inv'
    BY <1>2, CallSubmitKeeps, BlockKeeps, EnqueueKeeps
  <1>3. ASSUME NEW d \in Drainers, CallWait(d) \/ WaitStep(d)  PROVE Inv'
    BY <1>3, CallWaitKeeps, WaitStepKeeps
  <1>4. CASE Shutdown \/ Free
    BY <1>4, ShutdownKeeps, FreeKeeps
  <1>5. CASE UNCHANGED vars
    <2>1. (Types /\ ActiveCounts /\ WaitersAreIdle /\ IdleWaitersHaveWork)'
      BY <1>5 DEF vars, Inv, Types, ActiveCounts, WaitersAreIdle, IdleWaitersHaveWork, Occupied,
                  OnWork, OnIdle, Busy
    <2>2. (TasksAreSomewhere /\ NoneLeftBehind /\ WorkCovered /\ RoomCovered)'
      BY <1>5 DEF vars, Inv, TasksAreSomewhere, NoneLeftBehind, WorkCovered, RoomCovered, OnWork,
                  OnIdle, Idle, AtTop, Callers, Inside
    <2> QED  BY <2>1, <2>2 DEF Inv
  <1> QED  BY <1>1, <1>2, <1>3, <1>4, <1>5 DEF Next

LEMMA InvHolds == Spec => []Inv
  BY InitEstablishesInv, NextKeepsInv, PTL DEF Spec

(* The state keeps its types; the queue keeps to queue_max until the         *)
(* shutdown, and active to the number of workers (threadpool.c:23-31, 68).   *)
THEOREM PoolTypes == Spec => []TypeOK
  <1>1. ASSUME Inv  PROVE TypeOK
    <2>1. Occupied \subseteq Workers
      BY DEF Occupied
    <2>2. active \in Nat /\ active <= Cardinality(Workers) /\ Cardinality(Workers) \in Nat
      BY <1>1, <2>1, AtMost, FS_CardinalityType DEF Inv, ActiveCounts
    <2> QED  BY <1>1, <2>2 DEF Inv, Types, TypeOK
  <1> QED  BY <1>1, InvHolds, PTL

(* While a worker sleeps, each queued task has another one coming for it,    *)
(* and while a caller of tp_submit sleeps, each free place has a caller      *)
(* coming for it (threadpool.c:24, 72).                                      *)
THEOREM WakeupsAreNotLost == Spec => []NoLostWakeup
  <1>1. ASSUME Inv  PROVE NoLostWakeup
    <2>1. Idle = {w \in Workers : AtTop(w)} /\ Callers = {s \in Submitters : Inside(s)}
      BY DEF Idle, Callers
    <2> QED  BY <1>1, <2>1 DEF Inv, WorkCovered, RoomCovered, NoLostWakeup, NoSleepBesideWork,
                              NoSleepBesideRoom
  <1> QED  BY <1>1, InvHolds, PTL

(* What was accepted before the shutdown is executed when the pool is freed  *)
(* (threadpool.c:16-17).                                                     *)
THEOREM AcceptedAreDone == Spec => []AcceptedBeforeShutdownAreDone
  <1>1. ASSUME Inv, phase = "freed", NEW k \in Tasks
        PROVE  fate[k] \notin {"queued", "running"}
    <2>1. exited = Workers /\ exited # {}
      BY <1>1 DEF Inv, NoneLeftBehind
    <2>2. fate[k] # "queued"
      BY <1>1, <2>1 DEF Inv, NoneLeftBehind
    <2>3. \A w \in Workers : running[w] = NoTask
      BY <1>1, <2>1 DEF Inv, WaitersAreIdle
    <2>4. fate[k] # "running"
      BY <1>1, <2>3 DEF Inv, TasksAreSomewhere, Tasks
    <2> QED  BY <2>2, <2>4
  <1>2. Inv => AcceptedBeforeShutdownAreDone
    BY <1>1 DEF AcceptedBeforeShutdownAreDone
  <1> QED  BY <1>2, InvHolds, PTL

(* tp_wait returns only when nothing is queued or under way (threadpool.c:79). *)
THEOREM WaitersSeeQuiet == Spec => WaitReturnsWhenQuiet
  <1>1. ASSUME Inv, [Next]_vars, NEW d \in draining, d \notin draining', NEW k \in Tasks
        PROVE  fate[k] \notin {"queued", "late", "running"}
    <2>1. active = 0 /\ queue = <<>>
      <3>1. ASSUME NEW e \in Drainers, WaitStep(e)  PROVE ~Busy
        BY <1>1, <3>1 DEF WaitStep
      <3>2. ASSUME NEW w \in Workers, Worker(w)  PROVE FALSE
        BY <1>1, <3>2 DEF Worker, WorkerWait, WorkerExit, Take, Finish
      <3>3. ASSUME NEW s \in Submitters, CallSubmit(s) \/ Block(s) \/ Enqueue(s)  PROVE FALSE
        BY <1>1, <3>3 DEF CallSubmit, Block, Enqueue
      <3>4. ~(Shutdown \/ Free \/ UNCHANGED vars \/ \E e \in Drainers : CallWait(e))
        BY <1>1 DEF Shutdown, Free, vars, CallWait
      <3> QED  BY <1>1, <3>1, <3>2, <3>3, <3>4 DEF Next, Busy
    <2>2. \A w \in Workers : running[w] # k
      BY <1>1, <2>1, NoneOccupied DEF Inv, Tasks
    <2>3. Len(queue) = 0
      BY <2>1
    <2> QED  BY <1>1, <2>2, <2>3 DEF Inv, TasksAreSomewhere
  <1>2. Inv /\ [Next]_vars =>
            [\A d \in draining : d \notin draining' =>
                \A k \in Tasks : fate[k] \notin {"queued", "late", "running"}]_vars
    BY <1>1
  <1> QED  BY <1>2, InvHolds, PTL DEF Spec, WaitReturnsWhenQuiet

=============================================================================
