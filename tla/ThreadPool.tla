------------------------------ MODULE ThreadPool ------------------------------
(***************************************************************************)
(* lib/core/threadpool.c: the workers that run pipelines, behind a bounded *)
(* queue.  Each stretch of code under p->mu is one action; `waiting' holds *)
(* the threads inside pthread_cond_wait, the workers on cond_work, the     *)
(* callers of tp_submit and tp_wait together on cond_idle.                 *)
(***************************************************************************)
EXTENDS Integers, Sequences, FiniteSets

CONSTANTS
    Workers,     \* p->threads
    Submitters,  \* connection threads that call tp_submit
    Drainers,    \* threads that call tp_wait
    QueueMax,    \* queue_max
    MaxTasks,    \* bound: tasks submitted in one behaviour
    NoTask

ASSUME ThreadPoolAssumption ==
    /\ Workers \intersect Submitters = {}
    /\ Drainers \intersect (Workers \union Submitters) = {}
    /\ IsFiniteSet(Workers) /\ Workers # {} /\ IsFiniteSet(Submitters)
    /\ QueueMax \in Nat \ {0}
    /\ MaxTasks \in Nat
    /\ NoTask \notin 1..MaxTasks

VARIABLES
    queue,      \* head .. tail
    active,     \* p->active
    phase,      \* "up", then "shutdown", then "freed" by tp_destroy
    running,    \* the task each worker has taken and not finished
    exited,     \* workers that have left their loop
    submitting, \* the task each caller of tp_submit brings
    draining,   \* threads inside tp_wait
    waiting,    \* threads inside pthread_cond_wait
    fate        \* history: where each task has got to

vars == <<queue, active, phase, running, exited, submitting, draining, waiting, fate>>

Tasks == 1..MaxTasks

Init ==
    /\ queue = <<>>
    /\ active = 0
    /\ phase = "up"
    /\ running = [w \in Workers |-> NoTask]
    /\ exited = {}
    /\ submitting = [s \in Submitters |-> NoTask]
    /\ draining = {}
    /\ waiting = {}
    /\ fate = [k \in Tasks |-> "none"]

-----------------------------------------------------------------------------
(* Condition variables *)

OnWork == waiting \intersect Workers         \* threads waiting on cond_work
OnIdle == waiting \ Workers                  \* threads waiting on cond_idle

(* What waiting may become when one of a set of waiters is signalled.        *)
Signal(set) == IF set = {} THEN {waiting} ELSE {waiting \ {t} : t \in set}

-----------------------------------------------------------------------------
(* worker: its turns round the loop *)

AtTop(w) == running[w] = NoTask /\ w \notin exited \union waiting

WorkerWait(w) ==
    /\ AtTop(w)
    /\ queue = <<>> /\ phase = "up"
    /\ waiting' = waiting \union {w}
    /\ UNCHANGED <<queue, active, phase, running, exited, submitting, draining, fate>>

MayExit == phase # "up" /\ queue = <<>>

WorkerExit(w) ==
    /\ AtTop(w)
    /\ MayExit
    /\ exited' = exited \union {w}
    /\ UNCHANGED <<queue, active, phase, running, submitting, draining, waiting, fate>>

(* Taking a task makes room: one waiter on cond_idle is signalled, which may *)
(* be a caller of tp_submit or of tp_wait.                                   *)
RoomSignal == Signal(OnIdle)
ActiveNotCounted == active                                        \* mutant
ActiveAfterTake == active + 1

Take(w) ==
    /\ AtTop(w)
    /\ queue # <<>>
    /\ queue' = Tail(queue)
    /\ active' = ActiveAfterTake
    /\ running' = [running EXCEPT ![w] = Head(queue)]
    /\ waiting' \in RoomSignal
    /\ fate' = [fate EXCEPT ![Head(queue)] = "running"]
    /\ UNCHANGED <<phase, exited, submitting, draining>>

(* The task's function has returned.                                         *)
BroadcastIdle == {waiting \ OnIdle}

Finish(w) ==
    /\ running[w] # NoTask
    /\ active' = active - 1
    /\ running' = [running EXCEPT ![w] = NoTask]
    /\ IF active' = 0 /\ queue = <<>> THEN waiting' \in BroadcastIdle ELSE UNCHANGED waiting
    /\ fate' = [fate EXCEPT ![running[w]] = "done"]
    /\ UNCHANGED <<queue, phase, exited, submitting, draining>>

Worker(w) == WorkerWait(w) \/ WorkerExit(w) \/ Take(w) \/ Finish(w)

-----------------------------------------------------------------------------
(* tp_submit.  After tp_destroy has freed the pool a call has no defined     *)
(* effect, and none is modelled.                                             *)

NextTask(k) == fate[k] = "none" /\ \A j \in Tasks : fate[j] = "none" => k <= j

CallSubmit(s) ==
    \E k \in Tasks :
        /\ phase # "freed"
        /\ NextTask(k)
        /\ submitting[s] = NoTask
        /\ submitting' = [submitting EXCEPT ![s] = k]
        /\ fate' = [fate EXCEPT ![k] = "submitted"]
        /\ UNCHANGED <<queue, active, phase, running, exited, draining, waiting>>

Inside(s) == submitting[s] # NoTask /\ s \notin waiting /\ phase # "freed"

MustBlock == Len(queue) >= QueueMax /\ phase = "up"

Block(s) ==
    /\ Inside(s)
    /\ MustBlock
    /\ waiting' = waiting \union {s}
    /\ UNCHANGED <<queue, active, phase, running, exited, submitting, draining, fate>>

NoWorkSignal == {waiting}                                         \* mutant
WorkSignal == Signal(OnWork)

Enqueue(s) ==
    /\ Inside(s)
    /\ ~MustBlock
    /\ queue' = Append(queue, submitting[s])
    /\ waiting' \in WorkSignal
    /\ submitting' = [submitting EXCEPT ![s] = NoTask]
    /\ fate' = [fate EXCEPT ![submitting[s]] = IF phase = "up" THEN "queued" ELSE "late"]
    /\ UNCHANGED <<active, phase, running, exited, draining>>

-----------------------------------------------------------------------------
(* tp_wait *)

CallWait(d) ==
    /\ phase # "freed"
    /\ d \notin draining
    /\ draining' = draining \union {d}
    /\ UNCHANGED <<queue, active, phase, running, exited, submitting, waiting, fate>>

Busy == active # 0 \/ queue # <<>>

WaitStep(d) ==
    /\ d \in draining \ waiting
    /\ phase # "freed"
    /\ \/ Busy /\ waiting' = waiting \union {d} /\ UNCHANGED draining
       \/ ~Busy /\ draining' = draining \ {d} /\ UNCHANGED waiting
    /\ UNCHANGED <<queue, active, phase, running, exited, submitting, fate>>

-----------------------------------------------------------------------------
(* tp_destroy: the flag and the broadcast, then the joins and the frees *)

OneWorkerTold == Signal(OnWork)                                   \* mutant
AllWorkersTold == {waiting \ OnWork}

Shutdown ==
    /\ phase = "up"
    /\ phase' = "shutdown"
    /\ waiting' \in AllWorkersTold
    /\ UNCHANGED <<queue, active, running, exited, submitting, draining, fate>>

Free ==
    /\ phase = "shutdown"
    /\ exited = Workers
    /\ phase' = "freed"
    /\ UNCHANGED <<queue, active, running, exited, submitting, draining, waiting, fate>>

-----------------------------------------------------------------------------
Next ==
    \/ \E w \in Workers : Worker(w)
    \/ \E s \in Submitters : CallSubmit(s) \/ Block(s) \/ Enqueue(s)
    \/ \E d \in Drainers : CallWait(d) \/ WaitStep(d)
    \/ Shutdown
    \/ Free

(* A thread inside the pool that is not in cond_wait gets the mutex in the   *)
(* end, and a task's function returns.                                       *)
Fairness ==
    /\ \A w \in Workers : WF_vars(Worker(w))
    /\ \A s \in Submitters : WF_vars(Block(s) \/ Enqueue(s))
    /\ \A d \in Drainers : WF_vars(WaitStep(d))
    /\ WF_vars(Free)

Spec == Init /\ [][Next]_vars
FairSpec == Spec /\ Fairness

-----------------------------------------------------------------------------
(* Properties *)

(* Types of the state; the queue keeps its bound until the shutdown, which   *)
(* lets every blocked caller in (threadpool.c:68).                           *)
TypeOK ==
    /\ queue \in Seq(Tasks)
    /\ phase = "up" => Len(queue) <= QueueMax
    /\ active \in 0..Cardinality(Workers)
    /\ phase \in {"up", "shutdown", "freed"}
    /\ running \in [Workers -> Tasks \union {NoTask}]
    /\ exited \subseteq Workers
    /\ submitting \in [Submitters -> Tasks \union {NoTask}]
    /\ draining \subseteq Drainers
    /\ waiting \subseteq Workers \union Submitters \union Drainers
    /\ fate \in [Tasks -> {"none", "submitted", "queued", "late", "running", "done"}]

(* No wake-up is lost.  While a worker is in cond_wait, each queued task has  *)
(* another worker already on its way to it (threadpool.c:72); and while a    *)
(* submitter is, each free place has a caller on its way to it               *)
(* (threadpool.c:24), as long as nobody calls tp_wait, which shares          *)
(* cond_idle.                                                                *)
NoSleepBesideWork ==
    OnWork # {} => Len(queue) <= Cardinality({w \in Workers : AtTop(w)})
NoSleepBesideRoom ==
    (draining = {} /\ phase = "up" /\ OnIdle # {}) =>
        QueueMax - Len(queue) <= Cardinality({s \in Submitters : Inside(s)})
NoLostWakeup == NoSleepBesideWork /\ NoSleepBesideRoom

(* A pool is freed with the tasks accepted before its shutdown executed: no  *)
(* worker leaves a queue behind (threadpool.c:16-17).                        *)
AcceptedBeforeShutdownAreDone ==
    phase = "freed" => \A k \in Tasks : fate[k] \notin {"queued", "running"}

(* When tp_wait returns, no task is queued or under way, one taken off the   *)
(* queue and not yet run included (threadpool.c:79).                         *)
WaitReturnsWhenQuiet ==
    [][\A d \in draining : d \notin draining' =>
        \A k \in Tasks : fate[k] \notin {"queued", "late", "running"}]_vars

(* Every call of tp_submit returns before the pool is gone, even when its    *)
(* wake-up went to a caller of tp_wait, because the last worker's broadcast  *)
(* makes good for it (threadpool.c:33); and tp_destroy comes back from its   *)
(* joins (threadpool.c:91).                                                  *)
SubmitReturns ==
    \A s \in Submitters : submitting[s] # NoTask ~> (submitting[s] = NoTask \/ phase = "freed")
DestroyReturns == phase = "shutdown" ~> phase = "freed"
EveryCallReturns == SubmitReturns /\ DestroyReturns

(* Every task accepted before the shutdown is executed (threadpool.c:72).    *)
AcceptedAreExecuted == \A k \in Tasks : fate[k] = "queued" ~> fate[k] = "done"

-----------------------------------------------------------------------------
(* What the comments promise and the code does not keep.                     *)

(* "We stop only once the queue is drained: tasks are not lost"              *)
(* (threadpool.c:16), for a task tp_submit accepted during the shutdown.     *)
TasksAreNotLost == phase = "freed" => \A k \in Tasks : fate[k] # "late"

(* app_stop closes the subsystems "in the reverse order of their             *)
(* dependencies" (main.c:705-706): nobody is inside the pool when it is      *)
(* freed.                                                                    *)
NobodyInsideWhenFreed == phase = "freed" => \A s \in Submitters : submitting[s] = NoTask

=============================================================================
