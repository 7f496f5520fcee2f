-------------------------- MODULE PipelineRunsProofs --------------------------
(***************************************************************************)
(* Proofs about PipelineRuns: the types of the state, what a removal takes *)
(* out of the registry, and, for behaviours without removals, that no      *)
(* pipeline is left RUNNING and that each accepted run is executed once.   *)
(*                                                                         *)
(* The invariant follows the pointers.  Without removals the place a       *)
(* handler has found stays the first with that id (Denoted); then each     *)
(* RUNNING place has a thread or a task under way that will set its status *)
(* (Settled), and owed counts the threads and tasks on their way to an     *)
(* execution (Owing).                                                      *)
(***************************************************************************)
EXTENDS PipelineRuns, FiniteSetTheorems, TLAPS

Pipeline == [id : Ids \union {NoId}, status : Statuses]
Pcs == {"idle", "find", "check", "go", "copy", "start", "exec", "args", "finish", "scan",
        "catalog"}
ThreadState == [op : AllOps \union {"none"}, id : Ids \union {NoId}, ptr : 0..(Capacity + 1),
                pc : Pcs, run : Ids \union {NoId}, st : Statuses]
TaskState == [pc : {"none", "queued", "exec", "finish", "done"},
              asked : Ids \union {NoId}, id : Ids \union {NoId}, st : Statuses]

(* The registry, and the rest of the state.                                  *)
Registry ==
    /\ pipelines \in [Places -> Pipeline]
    /\ npipelines \in 0..Capacity
    /\ \A i \in 1..npipelines : pipelines[i].id # NoId
Types ==
    /\ mu \in Threads \union {NoThread}
    /\ saved \subseteq Ids
    /\ threads \in [Threads -> ThreadState]
    /\ tasks \in [Keys -> TaskState]
    /\ mix \in Mixes
    /\ requests \in 0..MaxRequests
    /\ owed \in [Ids -> Int]

(* What a thread does is in the mix, and a request names a pipeline.         *)
Named ==
    \A t \in Threads :
        /\ threads[t].op = "none" => threads[t].pc = "idle"
        /\ threads[t].op # "none" => threads[t].op \in mix
        /\ threads[t].op \notin {"none", "cron"} => threads[t].id \in Ids
        /\ threads[t].op \notin {"none", "cron", "watch"} => t \in Https
        /\ threads[t].op = "create" => threads[t].pc \in {"find", "catalog"}

(* A pointer denotes a place; that of the cron loop, which holds s->mu, a    *)
(* pipeline of the registry.                                                 *)
Pointed ==
    \A t \in Threads :
        /\ threads[t].pc \in {"check", "copy", "start", "exec", "args"} => threads[t].ptr \in Places
        /\ threads[t].pc = "go" /\ threads[t].op # "delete" => threads[t].ptr \in Places
        /\ threads[t].op = "cron" =>
            /\ t = Cron /\ mu = Cron
            /\ threads[t].pc \in {"scan", "start", "exec"}
            /\ threads[t].ptr \in 1..(npipelines + 1)
            /\ threads[t].pc # "scan" => threads[t].ptr <= npipelines

(* Without removals what scheduler_find returned is still the first place    *)
(* with that id.                                                             *)
Held(t) == threads[t].op \in {"run", "wait", "webhook", "watch"} /\
           threads[t].pc \in {"check", "go", "copy", "start", "exec", "args"}
Denoted ==
    "delete" \notin mix => \A t \in Threads : Held(t) => threads[t].ptr \in Find(threads[t].id)

(* The copy a task works on ends with a terminal status.                     *)
TasksEnd == \A k \in Keys : tasks[k].pc = "finish" => tasks[k].st \in Final

(* Who will set the status of place i: a thread that executes the pipeline   *)
(* or is about to, or a task that will write its copy back.                  *)
ThreadSettles(t, i) == threads[t].pc \in {"copy", "start", "exec"} /\ threads[t].ptr = i
TaskSettles(k, i) == tasks[k].pc \in {"queued", "exec", "finish"} /\ i \in Find(tasks[k].id)
Settled ==
    mix \intersect {"wait", "delete"} = {} =>
        \A i \in 1..npipelines : pipelines[i].status = Running =>
            \/ \E t \in Threads : ThreadSettles(t, i)
            \/ \E k \in Keys : TaskSettles(k, i)

(* The threads and the tasks on their way to an execution of pipeline id.    *)
Coming(id) ==
    {t \in Threads : threads[t].pc \in {"copy", "start"} /\ pipelines[threads[t].ptr].id = id}
Queued(id) == {k \in Keys : tasks[k].pc = "queued" /\ tasks[k].id = id}
Owing ==
    mix \intersect {"webhook", "delete"} = {} =>
        \A id \in Ids : owed[id] = Cardinality(Coming(id)) + Cardinality(Queued(id))

Inv == Registry /\ Types /\ Named /\ Pointed /\ Denoted /\ TasksEnd /\ Settled /\ Owing

-----------------------------------------------------------------------------
(* The steps of Next, one by one, for the case splits below.                 *)

Asks(t) == \E op \in {"run", "wait", "webhook", "delete", "create", "watch"}, id \in Ids :
                Arrive(t, op, id) /\ (op # "watch" => t \in Https)
Looks(t) == FindPipeline(t) \/ Check(t)
Starts(t) == MarkRunning(t) \/ RunNow(t)
Executes(t) == ExecStart(t) \/ \E st \in Final : ExecEnd(t, st)

LEMMA NextCases ==
    ASSUME Next
    PROVE  \/ \E t \in Threads : Asks(t) \/ Looks(t) \/ Starts(t) \/ CopyAndSubmit(t)
                                 \/ Executes(t) \/ FinishArgs(t) \/ FinishRun(t)
                                 \/ Remove(t) \/ Add(t) \/ Catalog(t)
           \/ \E k \in Keys : Task(k)
           \/ CronLock \/ CronSkip \/ CronFire \/ CronUnlock
  <1>1. ASSUME NEW t \in Https, NEW op \in {"run", "wait", "webhook", "delete", "create"},
               NEW id \in Ids, Arrive(t, op, id)
        PROVE  t \in Threads /\ Asks(t)
    BY <1>1 DEF Threads, Asks
  <1>2. ASSUME NEW id \in Ids, Arrive(Watcher, "watch", id)
        PROVE  Watcher \in Threads /\ Asks(Watcher)
    BY <1>2 DEF Threads, Asks
  <1>3. ASSUME NEW t \in Threads, Local(t) \/ Locking(t)
        PROVE  Asks(t) \/ Looks(t) \/ Starts(t) \/ CopyAndSubmit(t) \/ Executes(t)
               \/ FinishArgs(t) \/ FinishRun(t) \/ Remove(t) \/ Add(t) \/ Catalog(t)
    BY <1>3 DEF Local, Locking, Looks, Starts, Executes
  <1> QED  BY <1>1, <1>2, <1>3 DEF Next, CronScan

(* A thread that stops, and one that goes on.                                *)
LEMMA ThreadSet ==
    ASSUME Types, NEW t \in Threads, NEW r, SetThread(t, r)
    PROVE  \A u \in Threads : threads'[u] = IF u = t THEN r ELSE threads[u]
  BY DEF Types, SetThread

LEMMA ThreadTypes ==
    ASSUME Types, NEW t \in Threads, NEW r \in ThreadState, SetThread(t, r)
    PROVE  threads' \in [Threads -> ThreadState]
  BY DEF Types, SetThread

LEMMA IdleTyped == Idle \in ThreadState
  BY PipelineAssumption DEF Idle, ThreadState, Pcs, Statuses

LEMMA StatusSet ==
    ASSUME Registry, NEW i, NEW st \in Statuses, SetStatus(i, st)
    PROVE  /\ pipelines' \in [Places -> Pipeline]
           /\ \A j \in Places : /\ pipelines'[j].id = pipelines[j].id
                                /\ pipelines'[j].status = IF j = i THEN st ELSE pipelines[j].status
  BY DEF Registry, SetStatus, Pipeline

LEMMA StatusWritten ==
    ASSUME Registry, NEW id \in Ids \union {NoId}, NEW st \in Statuses, WriteBack(id, st)
    PROVE  /\ pipelines' \in [Places -> Pipeline]
           /\ \A j \in Places : /\ pipelines'[j].id = pipelines[j].id
                                /\ pipelines'[j].status = IF j \in Find(id) THEN st
                                                          ELSE pipelines[j].status
  <1>1. \A j \in Find(id) : pipelines[j].id = id
    BY DEF Find
  <1> QED  BY <1>1 DEF Registry, WriteBack, Pipeline

LEMMA Owes ==
    ASSUME Types, NEW id \in Ids \union {NoId}, NEW d \in Int, Owe(id, d)
    PROVE  /\ owed' \in [Ids -> Int]
           /\ \A j \in Ids : owed'[j] = IF j = id THEN owed[j] + d ELSE owed[j]
  BY PipelineAssumption DEF Types, Owe

LEMMA ThreadFields ==
    ASSUME Types, NEW t \in Threads
    PROVE  /\ threads[t] \in ThreadState
           /\ threads[t].op \in AllOps \union {"none"} /\ threads[t].pc \in Pcs
           /\ threads[t].id \in Ids \union {NoId} /\ threads[t].run \in Ids \union {NoId}
           /\ threads[t].ptr \in 0..(Capacity + 1) /\ threads[t].st \in Statuses
  BY DEF Types, ThreadState

-----------------------------------------------------------------------------
(* The registry                                                              *)

(* A step that does not add or remove moves nothing in the registry.         *)
StatusOnly ==
    /\ npipelines' = npipelines
    /\ pipelines' \in [Places -> Pipeline]
    /\ \A j \in Places : pipelines'[j].id = pipelines[j].id

LEMMA Unmoved ==
    ASSUME Registry, UNCHANGED <<pipelines, npipelines>>
    PROVE  StatusOnly
  BY DEF Registry, StatusOnly

LEMMA OnlyStatuses ==
    ASSUME Inv, Next
    PROVE  StatusOnly \/ \E t \in Threads : Remove(t) \/ Add(t)
  <1> USE DEF Inv
  <1>1. Running \in Statuses /\ Final \subseteq Statuses
    BY DEF Statuses
  <1>2. ASSUME NEW t \in Threads,
               Asks(t) \/ Looks(t) \/ CopyAndSubmit(t) \/ FinishArgs(t) \/ Catalog(t)
        PROVE  StatusOnly
    BY <1>2, Unmoved DEF Asks, Arrive, Looks, FindPipeline, Check, CopyAndSubmit, FinishArgs,
                         Catalog, registry
  <1>3. ASSUME NEW t \in Threads, Starts(t)  PROVE StatusOnly
    BY <1>1, <1>3, StatusSet DEF Starts, MarkRunning, RunNow, StatusOnly
  <1>4. ASSUME NEW t \in Threads, Executes(t)  PROVE StatusOnly
    <2>1. CASE ExecStart(t)
      BY <2>1, Unmoved DEF ExecStart, registry
    <2>2. ASSUME NEW st \in Final, ExecEnd(t, st)  PROVE StatusOnly
      BY <1>1, <2>2, StatusSet DEF ExecEnd, ExecutedStatus, StatusOnly
    <2> QED  BY <1>4, <2>1, <2>2 DEF Executes
  <1>5. ASSUME NEW t \in Threads, FinishRun(t)  PROVE StatusOnly
    BY <1>5, ThreadFields, StatusWritten DEF FinishRun, StatusOnly
  <1>6. ASSUME NEW k \in Keys, Task(k)  PROVE StatusOnly
    <2>1. CASE TaskStart(k) \/ \E st \in Final : TaskEnd(k, st)
      BY <2>1, Unmoved DEF TaskStart, TaskEnd, registry
    <2>2. CASE TaskFinish(k)
      <3>1. tasks[k].id \in Ids \union {NoId} /\ tasks[k].st \in Statuses
        BY DEF Types, TaskState
      <3> QED  BY <2>2, <3>1, StatusWritten DEF TaskFinish, StatusOnly
    <2> QED  BY <1>6, <2>1, <2>2 DEF Task
  <1>7. CASE CronLock \/ CronSkip \/ CronUnlock
    BY <1>7, Unmoved DEF CronLock, CronSkip, CronUnlock, registry
  <1>8. CASE CronFire
    BY <1>1, <1>8, StatusSet DEF CronFire, StatusOnly
  <1> QED  BY <1>2, <1>3, <1>4, <1>5, <1>6, <1>7, <1>8, NextCases

LEMMA AddEffect ==
    ASSUME Inv, NEW t \in Threads, Add(t)
    PROVE  /\ pipelines' \in [Places -> Pipeline]
           /\ npipelines' \in 0..Capacity /\ npipelines' \in {npipelines, npipelines + 1}
           /\ \A j \in 1..npipelines : pipelines'[j] = pipelines[j]
           /\ \A j \in 1..npipelines' : j \notin 1..npipelines =>
                pipelines'[j].id \in Ids /\ pipelines'[j].status = "idle"
  <1>1. threads[t].id \in Ids /\ npipelines \in 0..Capacity /\ Capacity \in Nat
    BY PipelineAssumption DEF Inv, Named, Registry, Add, At
  <1>2. CASE npipelines < Capacity
    <2>1. npipelines + 1 \in Places /\ npipelines' = npipelines + 1
      BY <1>1, <1>2 DEF Places, Add
    <2> DEFINE new == [id |-> threads[t].id, status |-> "idle"]
    <2>2. pipelines' = [pipelines EXCEPT ![npipelines + 1] = new]
      BY <1>2 DEF Add
    <2>3. new \in Pipeline /\ new.id \in Ids /\ new.status = "idle"
      BY <1>1 DEF Pipeline, Statuses
    <2> HIDE DEF new
    <2> QED  BY <1>1, <2>1, <2>2, <2>3 DEF Inv, Registry, Places
  <1>3. CASE ~(npipelines < Capacity)
    BY <1>1, <1>3 DEF Add, Inv, Registry
  <1> QED  BY <1>2, <1>3

(* The compaction puts the last pipeline in the place of the one removed.    *)
LEMMA RemoveEffect ==
    ASSUME Inv, NEW t \in Threads, Remove(t)
    PROVE  \/ UNCHANGED <<pipelines, npipelines>>
           \/ \E i \in 1..npipelines :
                /\ pipelines[i].id = threads[t].id
                /\ npipelines' = npipelines - 1
                /\ pipelines' \in [Places -> Pipeline]
                /\ \A j \in Places : pipelines'[j] = IF j = i THEN pipelines[npipelines]
                                                     ELSE pipelines[j]
  <1>1. ASSUME NEW i \in Find(threads[t].id), pipelines' = RemovedAt(i)
        PROVE  /\ i \in 1..npipelines /\ pipelines[i].id = threads[t].id
               /\ pipelines' \in [Places -> Pipeline]
               /\ \A j \in Places : pipelines'[j] = IF j = i THEN pipelines[npipelines]
                                                    ELSE pipelines[j]
    <2>1. i \in 1..npipelines /\ pipelines[i].id = threads[t].id
      BY DEF Find
    <2>2. i \in Places /\ npipelines \in Places
      BY <2>1, PipelineAssumption DEF Inv, Registry, Places
    <2> QED  BY <1>1, <2>1, <2>2 DEF Inv, Registry, RemovedAt
  <1> QED  BY <1>1 DEF Remove

LEMMA RegistryKept ==
    ASSUME Inv, Next
    PROVE  Registry'
  <1>1. npipelines \in 0..Capacity /\ Capacity \in Nat
        /\ \A i \in 1..npipelines : i \in Places /\ pipelines[i].id # NoId
    BY PipelineAssumption DEF Inv, Registry, Places
  <1>2. CASE StatusOnly
    BY <1>1, <1>2 DEF StatusOnly, Registry
  <1>3. ASSUME NEW t \in Threads, Add(t)  PROVE Registry'
    BY <1>1, <1>3, AddEffect, PipelineAssumption DEF Registry
  <1>4. ASSUME NEW t \in Threads, Remove(t)  PROVE Registry'
    <2>1. CASE UNCHANGED <<pipelines, npipelines>>
      BY <2>1 DEF Inv, Registry
    <2>2. CASE ~UNCHANGED <<pipelines, npipelines>>
      <3>1. npipelines' = npipelines - 1 /\ pipelines' \in [Places -> Pipeline]
            /\ npipelines \in 1..Capacity
            /\ \A j \in Places : pipelines'[j] \in {pipelines[j], pipelines[npipelines]}
        BY <1>1, <1>4, <2>2, RemoveEffect
      <3>2. \A j \in 1..npipelines' : j \in 1..npipelines
        BY <3>1
      <3> QED  BY <1>1, <3>1, <3>2 DEF Registry
    <2> QED  BY <2>1, <2>2
  <1> QED  BY <1>2, <1>3, <1>4, OnlyStatuses

(* Without removals the places keep their pipelines, and what was the first  *)
(* place with an id stays so.                                                *)
LEMMA Steady ==
    ASSUME Inv, Next, "delete" \notin mix
    PROVE  /\ npipelines \in Nat /\ npipelines' \in Nat /\ npipelines <= npipelines'
           /\ \A j \in 1..npipelines : j \in Places /\ pipelines'[j].id = pipelines[j].id
           /\ \A id : Find(id) \subseteq Find(id)'
  <1>1. npipelines \in Nat /\ npipelines' \in Nat /\ npipelines <= npipelines'
        /\ \A j \in 1..npipelines : j \in Places /\ pipelines'[j].id = pipelines[j].id
    <2>1. npipelines \in 0..Capacity /\ Capacity \in Nat /\ 1..npipelines \subseteq Places
      BY PipelineAssumption DEF Inv, Registry, Places
    <2>2. CASE StatusOnly
      BY <2>1, <2>2 DEF StatusOnly
    <2>3. ASSUME NEW t \in Threads, Add(t)
          PROVE  npipelines' \in Nat /\ npipelines <= npipelines'
                 /\ \A j \in 1..npipelines : pipelines'[j].id = pipelines[j].id
      BY <2>1, <2>3, AddEffect
    <2>4. ASSUME NEW t \in Threads, Remove(t)  PROVE FALSE
      BY <2>4 DEF Remove, At, Inv, Named
    <2> QED  BY <2>1, <2>2, <2>3, <2>4, OnlyStatuses
  <1>2. ASSUME NEW id, NEW i \in Find(id)  PROVE i \in Find(id)'
    BY <1>1 DEF Find
  <1> QED  BY <1>1, <1>2

-----------------------------------------------------------------------------
(* The threads                                                               *)

(* What each step makes of its thread, the other threads being left alone.   *)
Becomes(t, r) == /\ r \in ThreadState
                 /\ threads' \in [Threads -> ThreadState]
                 /\ \A u \in Threads : threads'[u] = IF u = t THEN r ELSE threads[u]

LEMMA Becoming ==
    ASSUME Types, NEW t \in Threads, NEW r \in ThreadState, SetThread(t, r)
    PROVE  Becomes(t, r)
  BY ThreadSet, ThreadTypes DEF Becomes

LEMMA Going ==
    ASSUME Types, NEW t \in Threads, NEW pc \in Pcs, Go(t, pc)
    PROVE  Becomes(t, [threads[t] EXCEPT !.pc = pc])
  <1>1. [threads[t] EXCEPT !.pc = pc] \in ThreadState
    BY DEF Types, ThreadState
  <1> QED  BY <1>1, Becoming DEF Go

LEMMA AsksBecomes ==
    ASSUME Types, NEW t \in Threads, NEW id \in Ids,
           NEW op \in {"run", "wait", "webhook", "delete", "create", "watch"}, Arrive(t, op, id)
    PROVE  Becomes(t, [Idle EXCEPT !.op = op, !.pc = "find", !.id = id])
  <1>1. [Idle EXCEPT !.op = op, !.pc = "find", !.id = id] \in ThreadState
    <2>1. op \in AllOps \union {"none"} /\ id \in Ids \union {NoId} /\ "find" \in Pcs
      BY DEF AllOps, Pcs
    <2> QED  BY <2>1, IdleTyped DEF ThreadState
  <1> QED  BY <1>1, Becoming DEF Arrive

LEMMA FindBecomes ==
    ASSUME Registry, Types, NEW t \in Threads, FindPipeline(t)
    PROVE  \/ \E i \in Find(threads[t].id) :
                /\ i \in Places
                /\ Becomes(t, [threads[t] EXCEPT !.pc = "check", !.ptr = i])
           \/ threads[t].op = "delete" /\ Becomes(t, [threads[t] EXCEPT !.pc = "go"])
           \/ Becomes(t, Idle)
  <1>1. ASSUME NEW i \in Find(threads[t].id)
        PROVE  i \in Places /\ [threads[t] EXCEPT !.pc = "check", !.ptr = i] \in ThreadState
    <2>1. i \in Places /\ i \in 0..(Capacity + 1)
      BY PipelineAssumption DEF Registry, Find, Places
    <2> QED  BY <2>1 DEF Types, ThreadState, Pcs
  <1> QED  BY <1>1, IdleTyped, Becoming, Going DEF FindPipeline, Pcs

LEMMA CheckBecomes ==
    ASSUME Types, NEW t \in Threads, Check(t)
    PROVE  Becomes(t, Idle) \/ Becomes(t, [threads[t] EXCEPT !.pc = "go"])
  BY IdleTyped, Becoming, Going DEF Check, Pcs

LEMMA StartsBecomes ==
    ASSUME Types, NEW t \in Threads, Starts(t)
    PROVE  /\ threads[t].pc = "go" /\ threads[t].op \in {"run", "wait", "webhook", "watch"}
           /\ Becomes(t, [threads[t] EXCEPT !.pc = IF threads[t].op = "run" THEN "copy"
                                                                           ELSE "start"])
  BY Going DEF Starts, MarkRunning, RunNow, At, Pcs

LEMMA ExecStartBecomes ==
    ASSUME Registry, Types, Pointed, NEW t \in Threads, ExecStart(t)
    PROVE  /\ threads[t].ptr \in Places
           /\ Becomes(t, [threads[t] EXCEPT !.pc = "exec", !.run = pipelines[threads[t].ptr].id])
  <1>1. threads[t].ptr \in Places
    BY DEF Pointed, ExecStart
  <1>2. [threads[t] EXCEPT !.pc = "exec", !.run = pipelines[threads[t].ptr].id] \in ThreadState
    <2>1. pipelines[threads[t].ptr].id \in Ids \union {NoId}
      BY <1>1 DEF Registry, Pipeline
    <2> QED  BY <2>1, ThreadFields DEF ThreadState, Pcs
  <1> QED  BY <1>1, <1>2, Becoming DEF ExecStart

(* The end of an execution: wait=true goes on to write back, cron to the     *)
(* next pipeline, a webhook to its second execution.                         *)
LEMMA ExecEndBecomes ==
    ASSUME Registry, Types, Pointed, NEW t \in Threads, NEW st \in Final, ExecEnd(t, st)
    PROVE  \/ threads[t].op = "wait" /\ Becomes(t, [threads[t] EXCEPT !.pc = "args", !.run = NoId])
           \/ /\ threads[t].op = "cron"
              /\ Becomes(t, [threads[t] EXCEPT !.pc = "scan", !.ptr = @ + 1, !.run = NoId])
           \/ /\ threads[t].op = "webhook"
              /\ Becomes(t, [threads[t] EXCEPT !.pc = "start", !.run = NoId])
           \/ Becomes(t, Idle)
  <1>1. /\ [threads[t] EXCEPT !.pc = "args", !.run = NoId] \in ThreadState
        /\ [threads[t] EXCEPT !.pc = "start", !.run = NoId] \in ThreadState
    BY DEF Types, ThreadState, Pcs
  <1>2. ASSUME threads[t].op = "cron"
        PROVE  [threads[t] EXCEPT !.pc = "scan", !.ptr = @ + 1, !.run = NoId] \in ThreadState
    <2>1. threads[t].ptr + 1 \in 0..(Capacity + 1)
      BY <1>2, PipelineAssumption DEF Registry, Pointed, ExecEnd
    <2> QED  BY <2>1 DEF Types, ThreadState, Pcs
  <1>3. SetThread(t, AfterExec(t))
    BY DEF ExecEnd
  <1>4. \/ threads[t].op = "wait" /\ AfterExec(t) = [threads[t] EXCEPT !.pc = "args", !.run = NoId]
        \/ /\ threads[t].op = "cron"
           /\ AfterExec(t) = [threads[t] EXCEPT !.pc = "scan", !.ptr = @ + 1, !.run = NoId]
        \/ /\ threads[t].op = "webhook"
           /\ AfterExec(t) = [threads[t] EXCEPT !.pc = "start", !.run = NoId]
        \/ AfterExec(t) = Idle
    BY DEF AfterExec
  <1> QED  BY <1>1, <1>2, <1>3, <1>4, IdleTyped, Becoming

LEMMA FinishArgsBecomes ==
    ASSUME Registry, Types, Pointed, NEW t \in Threads, FinishArgs(t)
    PROVE  \E r \in Ids \union {NoId}, st \in Statuses :
                Becomes(t, [threads[t] EXCEPT !.pc = "finish", !.run = r, !.st = st])
  <1> DEFINE p == pipelines[threads[t].ptr]
  <1>1. p.id \in Ids \union {NoId} /\ p.status \in Statuses
    BY DEF Registry, Pipeline, Pointed, FinishArgs, At
  <1>2. SetThread(t, [threads[t] EXCEPT !.pc = "finish", !.run = p.id, !.st = p.status])
    BY DEF FinishArgs
  <1> HIDE DEF p
  <1>3. [threads[t] EXCEPT !.pc = "finish", !.run = p.id, !.st = p.status] \in ThreadState
    BY <1>1 DEF Types, ThreadState, Pcs
  <1> QED  BY <1>1, <1>2, <1>3, Becoming

LEMMA StopsBecomes ==
    ASSUME Types, NEW t \in Threads, CopyAndSubmit(t) \/ FinishRun(t) \/ Catalog(t)
    PROVE  Becomes(t, Idle)
  BY IdleTyped, Becoming DEF CopyAndSubmit, FinishRun, Catalog

LEMMA ChangesBecomes ==
    ASSUME Types, NEW t \in Threads, Remove(t) \/ Add(t)
    PROVE  Becomes(t, [threads[t] EXCEPT !.pc = "catalog"])
  BY Going DEF Remove, Add, Pcs

LEMMA CronLockBecomes ==
    ASSUME Types, CronLock
    PROVE  Becomes(Cron, [Idle EXCEPT !.op = "cron", !.pc = "scan", !.ptr = 1])
  <1>1. [Idle EXCEPT !.op = "cron", !.pc = "scan", !.ptr = 1] \in ThreadState /\ Cron \in Threads
    <2>1. "cron" \in AllOps \union {"none"} /\ 1 \in 0..(Capacity + 1) /\ "scan" \in Pcs
      BY PipelineAssumption DEF AllOps, Pcs
    <2> QED  BY <2>1, IdleTyped DEF ThreadState, Threads
  <1> QED  BY <1>1, Becoming DEF CronLock

LEMMA CronScanBecomes ==
    ASSUME Registry, Types, Pointed, CronScan
    PROVE  /\ Cron \in Threads /\ threads[Cron].op = "cron" /\ threads[Cron].pc = "scan"
           /\ \/ /\ CronSkip /\ threads[Cron].ptr <= npipelines
                 /\ Becomes(Cron, [threads[Cron] EXCEPT !.ptr = @ + 1])
              \/ /\ CronFire /\ threads[Cron].ptr \in 1..npipelines
                 /\ Becomes(Cron, [threads[Cron] EXCEPT !.pc = "start"])
              \/ CronUnlock /\ Becomes(Cron, Idle)
  <1>1. Cron \in Threads /\ threads[Cron].op = "cron" /\ threads[Cron].pc = "scan"
        /\ threads[Cron].ptr \in 1..(npipelines + 1) /\ npipelines \in 0..Capacity
        /\ Capacity \in Nat
    BY PipelineAssumption DEF CronScan, CronSkip, CronFire, CronUnlock, At, Threads, Pointed,
                              Registry
  <1>2. CASE CronSkip
    <2>1. [threads[Cron] EXCEPT !.ptr = @ + 1] \in ThreadState
      <3>1. threads[Cron].ptr + 1 \in 0..(Capacity + 1)
        BY <1>1, <1>2 DEF CronSkip
      <3> QED  BY <1>1, <3>1 DEF Types, ThreadState
    <2> QED  BY <1>1, <1>2, <2>1, Becoming DEF CronSkip
  <1>3. CASE CronFire
    <2>1. threads[Cron].ptr \in 1..npipelines /\ Go(Cron, "start") /\ "start" \in Pcs
      BY <1>1, <1>3 DEF CronFire, Pcs
    <2> QED  BY <1>1, <1>3, <2>1, Going
  <1>4. CASE CronUnlock
    BY <1>1, <1>4, IdleTyped, Becoming DEF CronUnlock
  <1> QED  BY <1>1, <1>2, <1>3, <1>4 DEF CronScan

-----------------------------------------------------------------------------
(* What stays the same                                                       *)

LEMMA MixKept ==
    ASSUME Next
    PROVE  mix' = mix
  <1>1. ASSUME NEW t \in Threads,
               Asks(t) \/ Looks(t) \/ Starts(t) \/ CopyAndSubmit(t) \/ Executes(t)
               \/ FinishArgs(t) \/ FinishRun(t) \/ Remove(t) \/ Add(t) \/ Catalog(t)
        PROVE  mix' = mix
    BY <1>1 DEF Asks, Arrive, Looks, FindPipeline, Check, Starts, MarkRunning, RunNow,
                CopyAndSubmit, Executes, ExecStart, ExecEnd, FinishArgs, FinishRun, Remove, Add,
                Catalog, work
  <1>2. ASSUME NEW k \in Keys, Task(k)  PROVE mix' = mix
    BY <1>2 DEF Task, TaskStart, TaskEnd, TaskFinish, work
  <1>3. CASE CronLock \/ CronSkip \/ CronFire \/ CronUnlock
    BY <1>3 DEF CronLock, CronSkip, CronFire, CronUnlock, work
  <1> QED  BY <1>1, <1>2, <1>3, NextCases

(* While the cron loop has s->mu nobody adds, removes or takes it.           *)
LEMMA CronHolds ==
    ASSUME Inv, Next, mu = Cron, ~CronUnlock
    PROVE  mu' = Cron /\ npipelines' = npipelines
  <1>1. ~MuFree
    BY PipelineAssumption DEF MuFree
  <1>2. ASSUME NEW t \in Threads,
               Asks(t) \/ Looks(t) \/ Starts(t) \/ CopyAndSubmit(t) \/ Executes(t)
               \/ FinishArgs(t) \/ FinishRun(t) \/ Remove(t) \/ Add(t) \/ Catalog(t)
        PROVE  mu' = Cron /\ npipelines' = npipelines
    BY <1>1, <1>2 DEF Asks, Arrive, Looks, FindPipeline, Check, Starts, MarkRunning, RunNow,
                CopyAndSubmit, Executes, ExecStart, ExecEnd, MuAfterRun, FinishArgs, FinishRun,
                Remove, Add, Catalog, registry
  <1>3. ASSUME NEW k \in Keys, Task(k)  PROVE mu' = Cron /\ npipelines' = npipelines
    BY <1>3 DEF Task, TaskStart, TaskEnd, TaskFinish, registry
  <1>4. CASE CronLock \/ CronSkip \/ CronFire
    BY <1>1, <1>4 DEF CronLock, CronSkip, CronFire, registry
  <1> QED  BY <1>2, <1>3, <1>4, NextCases

-----------------------------------------------------------------------------
(* Types                                                                     *)

LEMMA ThreadsTyped ==
    ASSUME Inv, Next
    PROVE  threads' \in [Threads -> ThreadState]
  <1> USE DEF Inv
  <1>1. ASSUME NEW t \in Threads, Asks(t)  PROVE threads' \in [Threads -> ThreadState]
    BY <1>1, AsksBecomes DEF Asks, Becomes
  <1>2. ASSUME NEW t \in Threads, Looks(t)  PROVE threads' \in [Threads -> ThreadState]
    BY <1>2, FindBecomes, CheckBecomes DEF Looks, Becomes
  <1>3. ASSUME NEW t \in Threads, Starts(t)  PROVE threads' \in [Threads -> ThreadState]
    BY <1>3, StartsBecomes DEF Becomes
  <1>4. ASSUME NEW t \in Threads, Executes(t)  PROVE threads' \in [Threads -> ThreadState]
    BY <1>4, ExecStartBecomes, ExecEndBecomes DEF Executes, Becomes
  <1>5. ASSUME NEW t \in Threads, FinishArgs(t)  PROVE threads' \in [Threads -> ThreadState]
    BY <1>5, FinishArgsBecomes DEF Becomes
  <1>6. ASSUME NEW t \in Threads, CopyAndSubmit(t) \/ FinishRun(t) \/ Catalog(t)
        PROVE  threads' \in [Threads -> ThreadState]
    BY <1>6, StopsBecomes DEF Becomes
  <1>7. ASSUME NEW t \in Threads, Remove(t) \/ Add(t)
        PROVE  threads' \in [Threads -> ThreadState]
    BY <1>7, ChangesBecomes DEF Becomes
  <1>8. ASSUME NEW k \in Keys, Task(k)  PROVE threads' \in [Threads -> ThreadState]
    BY <1>8 DEF Task, TaskStart, TaskEnd, TaskFinish, Types
  <1>9. CASE CronLock \/ CronSkip \/ CronFire \/ CronUnlock
    BY <1>9, CronLockBecomes, CronScanBecomes DEF CronScan, Becomes
  <1> QED  BY <1>1, <1>2, <1>3, <1>4, <1>5, <1>6, <1>7, <1>8, <1>9, NextCases

LEMMA TasksTyped ==
    ASSUME Inv, Next
    PROVE  tasks' \in [Keys -> TaskState]
  <1>0. tasks \in [Keys -> TaskState]
    BY DEF Inv, Types
  <1>1. ASSUME NEW t \in Threads,
               Asks(t) \/ Looks(t) \/ Starts(t) \/ Executes(t)
               \/ FinishArgs(t) \/ FinishRun(t) \/ Remove(t) \/ Add(t) \/ Catalog(t)
        PROVE  tasks' = tasks
    BY <1>1 DEF Asks, Arrive, Looks, FindPipeline, Check, Starts, MarkRunning, RunNow,
                Executes, ExecStart, ExecEnd, FinishArgs, FinishRun, Remove, Add, Catalog
  <1>2. ASSUME NEW t \in Threads, CopyAndSubmit(t)  PROVE tasks' \in [Keys -> TaskState]
    <2> DEFINE new == [pc |-> "queued", asked |-> threads[t].id,
                       id |-> pipelines[threads[t].ptr].id, st |-> Running]
    <2>1. new \in TaskState
      <3>1. threads[t].ptr \in Places /\ threads[t].id \in Ids \union {NoId}
        BY <1>2, ThreadFields DEF Inv, Pointed, CopyAndSubmit, At
      <3> QED  BY <3>1 DEF Inv, Registry, Pipeline, TaskState, Statuses
    <2>2. \E k \in Keys : tasks' = [tasks EXCEPT ![k] = new]
      BY <1>2 DEF CopyAndSubmit
    <2> HIDE DEF new
    <2> QED  BY <1>0, <2>1, <2>2
  <1>3. ASSUME NEW k \in Keys, Task(k)  PROVE tasks' \in [Keys -> TaskState]
    <2>1. Final \subseteq Statuses
      BY DEF Statuses
    <2>2. tasks[k] \in TaskState
      BY <1>0
    <2>3. CASE TaskStart(k) \/ TaskFinish(k)
      <3>1. \E pc \in {"exec", "done"} : tasks' = [tasks EXCEPT ![k].pc = pc]
        BY <2>3 DEF TaskStart, TaskFinish
      <3> QED  BY <1>0, <2>2, <3>1 DEF TaskState
    <2>4. ASSUME NEW st \in Final, TaskEnd(k, st)  PROVE tasks' \in [Keys -> TaskState]
      <3> DEFINE new == [tasks[k] EXCEPT !.pc = "finish", !.st = st]
      <3>1. new \in TaskState
        BY <2>1, <2>2 DEF TaskState
      <3>2. tasks' = [tasks EXCEPT ![k] = new]
        BY <2>4 DEF TaskEnd
      <3> HIDE DEF new
      <3> QED  BY <1>0, <3>1, <3>2
    <2> QED  BY <1>3, <2>3, <2>4 DEF Task
  <1>4. CASE CronLock \/ CronSkip \/ CronFire \/ CronUnlock
    BY <1>4 DEF CronLock, CronSkip, CronFire, CronUnlock, Inv, Types
  <1> QED  BY <1>0, <1>1, <1>2, <1>3, <1>4, NextCases

LEMMA OwedTyped ==
    ASSUME Inv, Next
    PROVE  owed' \in [Ids -> Int]
  <1>0. owed \in [Ids -> Int] /\ Types
    BY DEF Inv, Types
  <1>1. ASSUME NEW t \in Threads,
               Asks(t) \/ Looks(t) \/ CopyAndSubmit(t)
               \/ FinishArgs(t) \/ FinishRun(t) \/ Remove(t) \/ Add(t) \/ Catalog(t)
        PROVE  owed' = owed
    BY <1>1 DEF Asks, Arrive, Looks, FindPipeline, Check, CopyAndSubmit,
                FinishArgs, FinishRun, Remove, Add, Catalog
  <1>2. ASSUME NEW t \in Threads, Starts(t)  PROVE owed' \in [Ids -> Int]
    BY <1>0, <1>2, ThreadFields, Owes DEF Starts, MarkRunning, RunNow
  <1>3. ASSUME NEW t \in Threads, Executes(t)  PROVE owed' \in [Ids -> Int]
    <2>1. CASE ExecStart(t)
      <3>1. pipelines[threads[t].ptr].id \in Ids \union {NoId}
        BY <2>1, ExecStartBecomes DEF Inv, Registry, Pipeline
      <3> QED  BY <1>0, <2>1, <3>1, Owes DEF ExecStart
    <2>2. CASE \E st \in Final : ExecEnd(t, st)
      BY <1>0, <2>2 DEF ExecEnd
    <2> QED  BY <1>3, <2>1, <2>2 DEF Executes
  <1>4. ASSUME NEW k \in Keys, Task(k)  PROVE owed' \in [Ids -> Int]
    <2>1. tasks[k].id \in Ids \union {NoId}
      BY DEF Inv, Types, TaskState
    <2>2. CASE TaskStart(k)
      BY <1>0, <2>1, <2>2, Owes DEF TaskStart
    <2>3. CASE TaskFinish(k) \/ \E st \in Final : TaskEnd(k, st)
      BY <1>0, <2>3 DEF TaskEnd, TaskFinish
    <2> QED  BY <1>4, <2>2, <2>3 DEF Task
  <1>5. CASE CronFire
    <2>1. pipelines[threads[Cron].ptr].id \in Ids \union {NoId}
      <3>1. threads[Cron].ptr \in 1..npipelines
        <4>1. threads[Cron].ptr <= npipelines /\ threads[Cron].op = "cron" /\ Cron \in Threads
          BY <1>5 DEF CronFire, At, Threads
        <4>2. threads[Cron].ptr \in 1..(npipelines + 1) /\ npipelines \in Nat
          BY <4>1, PipelineAssumption DEF Inv, Pointed, Registry
        <4> QED  BY <4>1, <4>2
      <3>2. threads[Cron].ptr \in Places
        BY <3>1, PipelineAssumption DEF Inv, Registry, Places
      <3> QED  BY <3>2 DEF Inv, Registry, Pipeline
    <2>2. Owe(pipelines[threads[Cron].ptr].id, 1)
      BY <1>5 DEF CronFire
    <2> QED  BY <1>0, <2>1, <2>2, Owes
  <1>6. CASE CronLock \/ CronSkip \/ CronUnlock
    BY <1>0, <1>6 DEF CronLock, CronSkip, CronUnlock
  <1> QED  BY <1>0, <1>1, <1>2, <1>3, <1>4, <1>5, <1>6, NextCases

LEMMA TypesKept ==
    ASSUME Inv, Next
    PROVE  Types'
  <1>0. mu \in Threads \union {NoThread} /\ saved \subseteq Ids /\ requests \in 0..MaxRequests
        /\ MaxRequests \in Nat /\ Cron \in Threads
    BY PipelineAssumption DEF Inv, Types, Threads
  <1>1. mu' \in Threads \union {NoThread}
    <2>1. ASSUME NEW t \in Threads,
                 Asks(t) \/ Looks(t) \/ Starts(t) \/ CopyAndSubmit(t) \/ Executes(t)
                 \/ FinishArgs(t) \/ FinishRun(t) \/ Remove(t) \/ Add(t) \/ Catalog(t)
          PROVE  mu' \in Threads \union {NoThread}
      BY <1>0, <2>1 DEF Asks, Arrive, Looks, FindPipeline, Check, Starts, MarkRunning, RunNow,
                CopyAndSubmit, Executes, ExecStart, ExecEnd, MuAfterRun, FinishArgs, FinishRun,
                Remove, Add, Catalog
    <2>2. ASSUME NEW k \in Keys, Task(k)  PROVE mu' = mu
      BY <2>2 DEF Task, TaskStart, TaskEnd, TaskFinish
    <2>3. CASE CronLock \/ CronSkip \/ CronFire \/ CronUnlock
      BY <1>0, <2>3 DEF CronLock, CronSkip, CronFire, CronUnlock
    <2> QED  BY <1>0, <2>1, <2>2, <2>3, NextCases
  <1>2. saved' \subseteq Ids
    <2>1. ASSUME NEW t \in Threads,
                 Asks(t) \/ Looks(t) \/ Starts(t) \/ CopyAndSubmit(t) \/ Executes(t)
                 \/ FinishArgs(t) \/ FinishRun(t) \/ Remove(t) \/ Add(t)
          PROVE  saved' = saved
      BY <2>1 DEF Asks, Arrive, Looks, FindPipeline, Check, Starts, MarkRunning, RunNow,
                CopyAndSubmit, Executes, ExecStart, ExecEnd, FinishArgs, FinishRun, Remove, Add,
                registry
    <2>2. ASSUME NEW t \in Threads, Catalog(t)  PROVE saved' \subseteq Ids
      BY <1>0, <2>2 DEF Catalog, At, Inv, Named
    <2>3. ASSUME NEW k \in Keys, Task(k)  PROVE saved' = saved
      BY <2>3 DEF Task, TaskStart, TaskEnd, TaskFinish, registry
    <2>4. CASE CronLock \/ CronSkip \/ CronUnlock
      BY <1>0, <2>4 DEF CronLock, CronSkip, CronUnlock, registry
    <2>5. CASE CronFire
      BY <1>0, <2>5 DEF CronFire
    <2> QED  BY <1>0, <2>1, <2>2, <2>3, <2>4, <2>5, NextCases
  <1>3. requests' \in 0..MaxRequests
    <2>1. ASSUME NEW t \in Threads,
                 Looks(t) \/ Starts(t) \/ CopyAndSubmit(t) \/ Executes(t)
                 \/ FinishArgs(t) \/ FinishRun(t) \/ Remove(t) \/ Add(t) \/ Catalog(t)
          PROVE  requests' = requests
      BY <2>1 DEF Looks, FindPipeline, Check, Starts, MarkRunning, RunNow,
                CopyAndSubmit, Executes, ExecStart, ExecEnd, FinishArgs, FinishRun, Remove, Add,
                Catalog, work
    <2>2. ASSUME NEW k \in Keys, Task(k)  PROVE requests' = requests
      BY <2>2 DEF Task, TaskStart, TaskEnd, TaskFinish, work
    <2>3. CASE CronLock \/ CronSkip \/ CronUnlock
      BY <1>0, <2>3 DEF CronLock, CronSkip, CronUnlock, work
    <2>4. ASSUME NEW t \in Threads, Asks(t) \/ CronFire
          PROVE  requests < MaxRequests /\ requests' = requests + 1
      BY <2>4 DEF Asks, Arrive, CronFire
    <2> QED  BY <1>0, <2>1, <2>2, <2>3, <2>4, NextCases
  <1>4. mix' \in Mixes
    BY MixKept DEF Inv, Types
  <1> QED  BY <1>1, <1>2, <1>3, <1>4, ThreadsTyped, TasksTyped, OwedTyped DEF Types

-----------------------------------------------------------------------------
(* The ways a thread's state r follows its state now                         *)

Same(t, r) == r.op = threads[t].op /\ r.id = threads[t].id
Arrives(t, r) == /\ r.op \in mix \ {"none", "cron"} /\ r.id \in Ids /\ r.pc = "find"
                 /\ r.op # "watch" => t \in Https
Finds(t, r) == /\ Same(t, r) /\ r.op \in {"run", "wait", "webhook", "watch", "delete"}
               /\ r.pc = "check" /\ r.ptr \in Find(r.id) \intersect Places
Moves(t, r) ==
    /\ Same(t, r) /\ r.ptr = threads[t].ptr
    /\ r.op \in {"run", "wait", "webhook", "watch", "delete"}
    /\ <<threads[t].pc, r.pc>> \in {<<"check", "go">>, <<"go", "copy">>, <<"go", "start">>,
            <<"start", "exec">>, <<"exec", "args">>, <<"exec", "start">>}
    /\ threads[t].pc = "go" => r.op # "delete"
Leaves(t, r) == /\ Same(t, r) /\ r.op \in {"run", "wait", "webhook", "watch", "delete", "create"}
                /\ \/ r.pc = "go" /\ r.op = "delete"
                   \/ r.pc = "finish" /\ r.op = "wait"
                   \/ r.pc = "catalog"
Scans(t, r) ==
    /\ r.op = "cron" /\ t = Cron /\ mu' = Cron /\ npipelines' = npipelines
    /\ r.op \in mix
    /\ r.pc \in {"scan", "start", "exec"} /\ r.ptr \in 1..(npipelines + 1)
    /\ r.pc # "scan" => r.ptr <= npipelines
Follows(t, r) == r = Idle \/ Arrives(t, r) \/ Finds(t, r) \/ Moves(t, r) \/ Leaves(t, r)
                 \/ Scans(t, r)

LEMMA CronHas ==
    ASSUME Inv, NEW t \in Threads, threads[t].op = "cron"
    PROVE  /\ t = Cron /\ mu = Cron /\ threads[t].pc \in {"scan", "start", "exec"}
           /\ threads[t].ptr \in 1..(npipelines + 1) /\ npipelines \in Nat /\ "cron" \in mix
           /\ threads[t].pc # "scan" => threads[t].ptr <= npipelines
  BY PipelineAssumption DEF Inv, Registry, Named, Pointed

LEMMA ExecutesFollows ==
    ASSUME Inv, Next, NEW t \in Threads, Executes(t)
    PROVE  \E r \in ThreadState : Becomes(t, r) /\ Follows(t, r)
  <1>0. threads[t].pc \in {"start", "exec"} /\ threads[t] \in ThreadState
        /\ threads[t].op \in (AllOps \union {"none"}) \ {"none"}
    BY ThreadFields DEF Executes, ExecStart, ExecEnd, Inv, Named
  <1>a. threads[t].op # "create"
    BY <1>0 DEF Inv, Named
  <1>1. CASE threads[t].op = "cron"
    <2>1. t = Cron /\ mu' = Cron /\ npipelines' = npipelines /\ "cron" \in mix
          /\ threads[t].ptr \in 1..npipelines /\ npipelines \in Nat
      <3>1. ~CronUnlock
        BY <1>0, <1>1, CronHas DEF CronUnlock, At
      <3> QED  BY <1>0, <1>1, <3>1, CronHas, CronHolds
    <2>2. CASE ExecStart(t)
      <3> DEFINE r == [threads[t] EXCEPT !.pc = "exec", !.run = pipelines[threads[t].ptr].id]
      <3>1. Becomes(t, r) /\ r \in ThreadState
        BY <2>2, ExecStartBecomes DEF Inv, Becomes
      <3>2. r.op = "cron" /\ r.pc = "exec" /\ r.ptr = threads[t].ptr
        BY <1>0, <1>1 DEF ThreadState
      <3> HIDE DEF r
      <3> QED  BY <2>1, <3>1, <3>2 DEF Follows, Scans
    <2>3. ASSUME NEW st \in Final, ExecEnd(t, st)
          PROVE  \E r \in ThreadState : Becomes(t, r) /\ Follows(t, r)
      <3>1. CASE Becomes(t, Idle)
        BY <3>1, IdleTyped DEF Follows
      <3>2. CASE Becomes(t, [threads[t] EXCEPT !.pc = "scan", !.ptr = @ + 1, !.run = NoId])
        <4> DEFINE r == [threads[t] EXCEPT !.pc = "scan", !.ptr = @ + 1, !.run = NoId]
        <4>1. r.op = "cron" /\ r.pc = "scan" /\ r.ptr = threads[t].ptr + 1
          BY <1>0, <1>1 DEF ThreadState
        <4>2. Becomes(t, r) /\ r \in ThreadState
          BY <3>2 DEF Becomes
        <4> HIDE DEF r
        <4> QED  BY <2>1, <4>1, <4>2 DEF Follows, Scans
      <3> QED  BY <1>1, <2>3, <3>1, <3>2, ExecEndBecomes DEF Inv
    <2> QED  BY <2>2, <2>3 DEF Executes
  <1>2. CASE threads[t].op # "cron"
    <2>1. threads[t].op \in {"run", "wait", "webhook", "watch", "delete"}
      BY <1>0, <1>a, <1>2 DEF AllOps
    <2>2. CASE ExecStart(t)
      <3> DEFINE r == [threads[t] EXCEPT !.pc = "exec", !.run = pipelines[threads[t].ptr].id]
      <3>1. Becomes(t, r) /\ r \in ThreadState
        BY <2>2, ExecStartBecomes DEF Inv, Becomes
      <3>2. Same(t, r) /\ r.pc = "exec" /\ r.ptr = threads[t].ptr /\ threads[t].pc = "start"
        BY <1>0, <2>2 DEF ThreadState, Same, ExecStart
      <3> HIDE DEF r
      <3> QED  BY <2>1, <3>1, <3>2 DEF Follows, Moves, Same
    <2>3. ASSUME NEW st \in Final, ExecEnd(t, st)
          PROVE  \E r \in ThreadState : Becomes(t, r) /\ Follows(t, r)
      <3>1. CASE Becomes(t, Idle)
        BY <3>1, IdleTyped DEF Follows
      <3>2. ASSUME NEW pc \in {"args", "start"},
                   Becomes(t, [threads[t] EXCEPT !.pc = pc, !.run = NoId]),
                   threads[t].op \in {"wait", "webhook"}
            PROVE  \E r \in ThreadState : Becomes(t, r) /\ Follows(t, r)
        <4> DEFINE r == [threads[t] EXCEPT !.pc = pc, !.run = NoId]
        <4>1. Same(t, r) /\ r.pc = pc /\ r.ptr = threads[t].ptr /\ threads[t].pc = "exec"
          BY <1>0, <2>3 DEF ThreadState, Same, ExecEnd
        <4>2. Becomes(t, r) /\ r \in ThreadState
          BY <3>2 DEF Becomes
        <4> HIDE DEF r
        <4> QED  BY <3>2, <4>1, <4>2 DEF Follows, Moves, Same
      <3> QED  BY <1>2, <2>3, <3>1, <3>2, ExecEndBecomes DEF Inv
    <2> QED  BY <2>2, <2>3 DEF Executes
  <1> QED  BY <1>1, <1>2

LEMMA ThreadSteps ==
    ASSUME Inv, Next
    PROVE  \/ UNCHANGED threads
           \/ \E t \in Threads, r \in ThreadState : Becomes(t, r) /\ Follows(t, r)
  <1>1. ASSUME NEW t \in Threads, Asks(t)
        PROVE  \E r \in ThreadState : Becomes(t, r) /\ Follows(t, r)
    <2>1. PICK op \in {"run", "wait", "webhook", "delete", "create", "watch"}, id \in Ids :
              Arrive(t, op, id) /\ (op # "watch" => t \in Https)
      BY <1>1 DEF Asks
    <2> DEFINE r == [Idle EXCEPT !.op = op, !.pc = "find", !.id = id]
    <2>a. Becomes(t, r)
      BY <2>1, AsksBecomes DEF Inv
    <2>2. Becomes(t, r) /\ r \in ThreadState
      BY <2>a DEF Becomes
    <2>3. r.op = op /\ r.pc = "find" /\ r.id = id /\ op \in mix /\ (op # "watch" => t \in Https)
      BY <2>1 DEF Idle, Arrive
    <2> HIDE DEF r
    <2> QED  BY <2>2, <2>3 DEF Follows, Arrives
  <1>2. ASSUME NEW t \in Threads, FindPipeline(t)
        PROVE  \E r \in ThreadState : Becomes(t, r) /\ Follows(t, r)
    <2>1. threads[t].op \in {"run", "wait", "webhook", "delete", "watch"}
          /\ threads[t] \in ThreadState
      BY <1>2, ThreadFields DEF FindPipeline, At, Inv
    <2>2. ASSUME NEW i \in Find(threads[t].id), i \in Places,
                 Becomes(t, [threads[t] EXCEPT !.pc = "check", !.ptr = i])
          PROVE  \E r \in ThreadState : Becomes(t, r) /\ Follows(t, r)
      <3> DEFINE r == [threads[t] EXCEPT !.pc = "check", !.ptr = i]
      <3>1. Same(t, r) /\ r.pc = "check" /\ r.ptr = i /\ r.id = threads[t].id
            /\ r.op = threads[t].op
        BY <2>1 DEF ThreadState, Same
      <3>2. Becomes(t, r) /\ r \in ThreadState
        BY <2>2 DEF Becomes
      <3> HIDE DEF r
      <3>3. Finds(t, r)
        BY <2>1, <2>2, <3>1 DEF Finds
      <3> QED  BY <3>2, <3>3 DEF Follows
    <2>3. CASE threads[t].op = "delete" /\ Becomes(t, [threads[t] EXCEPT !.pc = "go"])
      <3> DEFINE r == [threads[t] EXCEPT !.pc = "go"]
      <3>1. Same(t, r) /\ r.pc = "go" /\ r.op = "delete"
        BY <2>1, <2>3 DEF ThreadState, Same
      <3>2. Becomes(t, r) /\ r \in ThreadState
        BY <2>3 DEF Becomes
      <3> HIDE DEF r
      <3> QED  BY <3>1, <3>2 DEF Follows, Leaves
    <2>4. CASE Becomes(t, Idle)
      BY <2>4, IdleTyped DEF Follows
    <2> QED  BY <1>2, <2>2, <2>3, <2>4, FindBecomes DEF Inv
  <1>3. ASSUME NEW t \in Threads, NEW pc \in Pcs, Becomes(t, [threads[t] EXCEPT !.pc = pc]),
               threads[t].op \in {"run", "wait", "webhook", "watch", "delete"},
               <<threads[t].pc, pc>> \in {<<"check", "go">>, <<"go", "copy">>, <<"go", "start">>},
               threads[t].pc = "go" => threads[t].op # "delete"
        PROVE  \E r \in ThreadState : Becomes(t, r) /\ Follows(t, r)
    <2> DEFINE r == [threads[t] EXCEPT !.pc = pc]
    <2>1. threads[t] \in ThreadState
      BY ThreadFields DEF Inv
    <2>2. Same(t, r) /\ r.pc = pc /\ r.ptr = threads[t].ptr /\ r.op = threads[t].op
      BY <2>1 DEF ThreadState, Same
    <2>3. Becomes(t, r) /\ r \in ThreadState
      BY <1>3 DEF Becomes
    <2> HIDE DEF r
    <2>4. Moves(t, r)
      BY <1>3, <2>2 DEF Moves
    <2> QED  BY <2>3, <2>4 DEF Follows
  <1>4. ASSUME NEW t \in Threads, Check(t) \/ Starts(t)
        PROVE  \E r \in ThreadState : Becomes(t, r) /\ Follows(t, r)
    <2>1. CASE Check(t)
      <3>1. threads[t].pc = "check"
            /\ threads[t].op \in {"run", "wait", "webhook", "delete", "watch"} /\ "go" \in Pcs
        BY <2>1 DEF Check, At, Pcs
      <3>2. CASE Becomes(t, Idle)
        BY <3>2, IdleTyped DEF Follows
      <3> QED  BY <1>3, <2>1, <3>1, <3>2, CheckBecomes DEF Inv
    <2>2. CASE Starts(t)
      <3> DEFINE pc == IF threads[t].op = "run" THEN "copy" ELSE "start"
      <3>1. threads[t].pc = "go" /\ threads[t].op \in {"run", "wait", "webhook", "watch"}
            /\ Becomes(t, [threads[t] EXCEPT !.pc = pc]) /\ pc \in {"copy", "start"} /\ pc \in Pcs
        BY <2>2, StartsBecomes DEF Inv, Pcs
      <3> HIDE DEF pc
      <3> QED  BY <1>3, <3>1
    <2> QED  BY <1>4, <2>1, <2>2
  <1>5. ASSUME NEW t \in Threads, FinishArgs(t)
        PROVE  \E r \in ThreadState : Becomes(t, r) /\ Follows(t, r)
    <2>1. PICK run \in Ids \union {NoId}, st \in Statuses :
              Becomes(t, [threads[t] EXCEPT !.pc = "finish", !.run = run, !.st = st])
      BY <1>5, FinishArgsBecomes DEF Inv
    <2> DEFINE r == [threads[t] EXCEPT !.pc = "finish", !.run = run, !.st = st]
    <2>2. threads[t].op = "wait" /\ threads[t] \in ThreadState
      BY <1>5, ThreadFields DEF FinishArgs, At, Inv
    <2>3. Same(t, r) /\ r.pc = "finish" /\ r.op = "wait"
      BY <2>2 DEF ThreadState, Same
    <2>4. Becomes(t, r) /\ r \in ThreadState
      BY <2>1 DEF Becomes
    <2> HIDE DEF r
    <2> QED  BY <2>3, <2>4 DEF Follows, Leaves
  <1>6. ASSUME NEW t \in Threads, CopyAndSubmit(t) \/ FinishRun(t) \/ Catalog(t)
        PROVE  \E r \in ThreadState : Becomes(t, r) /\ Follows(t, r)
    BY <1>6, StopsBecomes, IdleTyped DEF Inv, Follows
  <1>7. ASSUME NEW t \in Threads, Remove(t) \/ Add(t)
        PROVE  \E r \in ThreadState : Becomes(t, r) /\ Follows(t, r)
    <2> DEFINE r == [threads[t] EXCEPT !.pc = "catalog"]
    <2>1. threads[t].op \in {"delete", "create"} /\ threads[t] \in ThreadState
      BY <1>7, ThreadFields DEF Remove, Add, At, Inv
    <2>2. Same(t, r) /\ r.pc = "catalog" /\ r.op = threads[t].op
      BY <2>1 DEF ThreadState, Same
    <2>3. Becomes(t, r) /\ r \in ThreadState
      BY <1>7, ChangesBecomes DEF Becomes, Inv
    <2> HIDE DEF r
    <2> QED  BY <2>1, <2>2, <2>3 DEF Follows, Leaves
  <1>8. ASSUME NEW k \in Keys, Task(k)  PROVE UNCHANGED threads
    BY <1>8 DEF Task, TaskStart, TaskEnd, TaskFinish
  <1>9. CASE CronLock
    <2> DEFINE r == [Idle EXCEPT !.op = "cron", !.pc = "scan", !.ptr = 1]
    <2>1. Becomes(Cron, r) /\ r \in ThreadState /\ Cron \in Threads
      BY <1>9, CronLockBecomes DEF Becomes, Inv, Threads
    <2>2. r.op = "cron" /\ r.pc = "scan" /\ r.ptr = 1
      BY DEF Idle
    <2>3. mu' = Cron /\ npipelines' = npipelines /\ "cron" \in mix /\ npipelines \in Nat
      BY <1>9, PipelineAssumption DEF CronLock, registry, Inv, Registry
    <2> HIDE DEF r
    <2> QED  BY <2>1, <2>2, <2>3 DEF Follows, Scans
  <1>10. CASE CronSkip \/ CronFire \/ CronUnlock
    <2>1. Cron \in Threads /\ threads[Cron].op = "cron" /\ threads[Cron] \in ThreadState
          /\ threads[Cron].pc = "scan"
      BY <1>10, CronScanBecomes, ThreadFields DEF Inv, CronScan
    <2>2. mu = Cron /\ "cron" \in mix /\ npipelines \in Nat
          /\ threads[Cron].ptr \in 1..(npipelines + 1)
      BY <2>1, CronHas
    <2>3. CASE CronUnlock
      <3>1. Becomes(Cron, Idle)
        BY <2>1, <2>3, Becoming, IdleTyped DEF Inv, CronUnlock
      <3> QED  BY <2>1, <3>1, IdleTyped DEF Follows
    <2>4. CASE ~CronUnlock
      <3>1. mu' = Cron /\ npipelines' = npipelines
        BY <2>2, <2>4, CronHolds
      <3>2. CASE /\ threads[Cron].ptr <= npipelines
                 /\ Becomes(Cron, [threads[Cron] EXCEPT !.ptr = @ + 1])
        <4> DEFINE r == [threads[Cron] EXCEPT !.ptr = @ + 1]
        <4>1. r.op = "cron" /\ r.pc = "scan" /\ r.ptr = threads[Cron].ptr + 1
          BY <2>1 DEF ThreadState
        <4>2. Becomes(Cron, r) /\ r \in ThreadState
          BY <3>2 DEF Becomes
        <4> HIDE DEF r
        <4> QED  BY <2>1, <2>2, <3>1, <3>2, <4>1, <4>2 DEF Follows, Scans
      <3>3. CASE /\ threads[Cron].ptr \in 1..npipelines
                 /\ Becomes(Cron, [threads[Cron] EXCEPT !.pc = "start"])
        <4> DEFINE r == [threads[Cron] EXCEPT !.pc = "start"]
        <4>1. r.op = "cron" /\ r.pc = "start" /\ r.ptr = threads[Cron].ptr
          BY <2>1 DEF ThreadState
        <4>2. Becomes(Cron, r) /\ r \in ThreadState
          BY <3>3 DEF Becomes
        <4> HIDE DEF r
        <4> QED  BY <2>1, <2>2, <3>1, <3>3, <4>1, <4>2 DEF Follows, Scans
      <3> QED  BY <1>10, <2>4, <3>2, <3>3, CronScanBecomes DEF Inv, CronScan
    <2> QED  BY <2>3, <2>4
  <1> QED  BY <1>1, <1>2, <1>4, <1>5, <1>6, <1>7, <1>8, <1>9, <1>10, ExecutesFollows, NextCases
              DEF Looks

LEMMA NamedKept ==
    ASSUME Inv, Next
    PROVE  Named'
  <1>1. mix' = mix /\ Named
    BY MixKept DEF Inv
  <1>2. CASE UNCHANGED threads
    BY <1>1, <1>2 DEF Named
  <1>3. ASSUME NEW t \in Threads, NEW r \in ThreadState, Becomes(t, r), Follows(t, r)
        PROVE  Named'
    <2>1. /\ r.op = "none" => r.pc = "idle"
          /\ r.op # "none" => r.op \in mix
          /\ r.op \notin {"none", "cron"} => r.id \in Ids
          /\ r.op \notin {"none", "cron", "watch"} => t \in Https
          /\ r.op = "create" => r.pc \in {"find", "catalog"}
      <3>1. CASE r = Idle
        BY <3>1 DEF Idle
      <3>2. CASE Arrives(t, r) \/ Scans(t, r)
        BY <3>2 DEF Arrives, Scans
      <3>3. CASE Finds(t, r) \/ Moves(t, r) \/ Leaves(t, r)
        BY <1>1, <3>3 DEF Named, Finds, Moves, Leaves, Same
      <3> QED  BY <1>3, <3>1, <3>2, <3>3 DEF Follows
    <2> QED  BY <1>1, <1>3, <2>1 DEF Named, Becomes
  <1> QED  BY <1>2, <1>3, ThreadSteps

LEMMA PointedKept ==
    ASSUME Inv, Next
    PROVE  Pointed'
  <1>1. ASSUME NEW u \in Threads, threads'[u] = threads[u], ~(CronUnlock /\ u = Cron)
        PROVE  /\ threads'[u].pc \in {"check", "copy", "start", "exec", "args"}
                    => threads'[u].ptr \in Places
               /\ threads'[u].pc = "go" /\ threads'[u].op # "delete" => threads'[u].ptr \in Places
               /\ threads'[u].op = "cron" =>
                    /\ u = Cron /\ mu' = Cron
                    /\ threads'[u].pc \in {"scan", "start", "exec"}
                    /\ threads'[u].ptr \in 1..(npipelines' + 1)
                    /\ threads'[u].pc # "scan" => threads'[u].ptr <= npipelines'
    <2>1. CASE threads[u].op = "cron"
      <3>1. mu' = Cron /\ npipelines' = npipelines
        BY <1>1, <2>1, CronHas, CronHolds
      <3> QED  BY <1>1, <2>1, <3>1 DEF Inv, Pointed
    <2>2. CASE threads[u].op # "cron"
      BY <1>1, <2>2 DEF Inv, Pointed
    <2> QED  BY <2>1, <2>2
  <1>2. CASE UNCHANGED threads
    <2>1. ~CronUnlock
      BY <1>2, PipelineAssumption DEF CronUnlock, SetThread, Inv, Types, Threads, At, Idle
    <2> QED  BY <1>1, <1>2, <2>1 DEF Pointed
  <1>3. ASSUME NEW t \in Threads, NEW r \in ThreadState, Becomes(t, r), Follows(t, r)
        PROVE  Pointed'
    <2>1. /\ r.pc \in {"check", "copy", "start", "exec", "args"} => r.ptr \in Places
          /\ r.pc = "go" /\ r.op # "delete" => r.ptr \in Places
          /\ r.op = "cron" =>
                /\ t = Cron /\ mu' = Cron
                /\ r.pc \in {"scan", "start", "exec"}
                /\ r.ptr \in 1..(npipelines' + 1)
                /\ r.pc # "scan" => r.ptr <= npipelines'
      <3>1. CASE r = Idle
        BY <3>1 DEF Idle
      <3>2. CASE Arrives(t, r) \/ Finds(t, r) \/ Leaves(t, r)
        BY <3>2 DEF Arrives, Finds, Leaves
      <3>3. CASE Moves(t, r)
        BY <3>3 DEF Moves, Same, Inv, Pointed
      <3>4. CASE Scans(t, r)
        <4>1. npipelines \in 0..Capacity /\ Capacity \in Nat
          BY PipelineAssumption DEF Inv, Registry
        <4> QED  BY <3>4, <4>1 DEF Scans, Places
      <3> QED  BY <1>3, <3>1, <3>2, <3>3, <3>4 DEF Follows
    <2>2. CronUnlock => t = Cron
      <3>1. ASSUME CronUnlock  PROVE threads'[Cron] # threads[Cron] /\ Cron \in Threads
        BY <3>1, ThreadSet, PipelineAssumption DEF CronUnlock, Inv, Threads, At, Idle
      <3> QED  BY <1>3, <3>1 DEF Becomes
    <2>3. \A u \in Threads : u # t => threads'[u] = threads[u] /\ ~(CronUnlock /\ u = Cron)
      BY <1>3, <2>2 DEF Becomes
    <2>4. threads'[t] = r
      BY <1>3 DEF Becomes
    <2> QED  BY <1>1, <2>1, <2>3, <2>4 DEF Pointed
  <1> QED  BY <1>2, <1>3, ThreadSteps

LEMMA DenotedKept ==
    ASSUME Inv, Next
    PROVE  Denoted'
  <1> SUFFICES ASSUME "delete" \notin mix
               PROVE  \A u \in Threads : Held(u)' => threads'[u].ptr \in Find(threads[u].id)'
    BY MixKept DEF Denoted
  <1>1. \A u \in Threads : Held(u) => threads[u].ptr \in Find(threads[u].id)
    BY DEF Inv, Denoted
  <1>2. \A id : Find(id) \subseteq Find(id)'
    BY Steady
  <1>3. ASSUME NEW u \in Threads, threads'[u] = threads[u], Held(u)
        PROVE  threads'[u].ptr \in Find(threads[u].id)'
    <2>1. \A id : id = threads[u].id => threads[u].ptr \in Find(id)'
      BY <1>1, <1>2, <1>3
    <2> QED  BY <1>3, <2>1 DEF Find
  <1>4. CASE UNCHANGED threads
    BY <1>3, <1>4 DEF Held
  <1>5. ASSUME NEW t \in Threads, NEW r \in ThreadState, Becomes(t, r), Follows(t, r)
        PROVE  \A u \in Threads : Held(u)' => threads'[u].ptr \in Find(threads[u].id)'
    <2>1. ASSUME NEW u \in Threads, u # t, Held(u)'
          PROVE  threads'[u].ptr \in Find(threads[u].id)'
      BY <1>3, <1>5, <2>1 DEF Becomes, Held
    <2>2. ASSUME Held(t)'  PROVE threads'[t].ptr \in Find(threads[t].id)'
      <3>1. threads'[t] = r /\ r.op \in {"run", "wait", "webhook", "watch"}
            /\ r.pc \in {"check", "go", "copy", "start", "exec", "args"}
        BY <1>5, <2>2 DEF Becomes, Held
      <3>2. r.ptr \in Find(r.id)
        <4>1. CASE Finds(t, r)
          BY <4>1 DEF Finds
        <4>2. CASE Moves(t, r)
          BY <1>1, <3>1, <4>2 DEF Moves, Same, Held
        <4> QED  BY <1>5, <3>1, <4>1, <4>2 DEF Follows, Idle, Arrives, Leaves, Scans
      <3>3. \A id : id = r.id => r.ptr \in Find(id)'
        BY <1>2, <3>2
      <3> QED  BY <3>1, <3>3 DEF Find
    <2> QED  BY <2>1, <2>2
  <1> QED  BY <1>4, <1>5, ThreadSteps

LEMMA TasksEndKept ==
    ASSUME Inv, Next
    PROVE  TasksEnd'
  <1>0. tasks \in [Keys -> TaskState] /\ TasksEnd
    BY DEF Inv, Types
  <1>1. ASSUME NEW t \in Threads,
               Asks(t) \/ Looks(t) \/ Starts(t) \/ Executes(t)
               \/ FinishArgs(t) \/ FinishRun(t) \/ Remove(t) \/ Add(t) \/ Catalog(t)
        PROVE  tasks' = tasks
    BY <1>1 DEF Asks, Arrive, Looks, FindPipeline, Check, Starts, MarkRunning, RunNow,
                Executes, ExecStart, ExecEnd, FinishArgs, FinishRun, Remove, Add, Catalog
  <1>2. ASSUME NEW t \in Threads, CopyAndSubmit(t)  PROVE TasksEnd'
    BY <1>0, <1>2 DEF CopyAndSubmit, TasksEnd
  <1>3. ASSUME NEW k \in Keys, Task(k)  PROVE TasksEnd'
    BY <1>0, <1>3 DEF Task, TaskStart, TaskEnd, TaskFinish, TasksEnd, TaskState
  <1>4. CASE CronLock \/ CronSkip \/ CronFire \/ CronUnlock
    BY <1>0, <1>4 DEF CronLock, CronSkip, CronFire, CronUnlock, TasksEnd
  <1>5. tasks' = tasks => TasksEnd'
    BY <1>0 DEF TasksEnd
  <1> QED  BY <1>1, <1>2, <1>3, <1>4, <1>5, NextCases

-----------------------------------------------------------------------------
(* No pipeline is left RUNNING                                               *)

Busy == {"copy", "start", "exec"}
Under(i) == \/ \E t \in Threads : ThreadSettles(t, i)
            \/ \E k \in Keys : TaskSettles(k, i)

LEMMA ThreadsSettle ==
    ASSUME NEW t \in Threads, NEW r, Becomes(t, r),
           threads[t].pc \in Busy => r.pc \in Busy /\ r.ptr = threads[t].ptr
    PROVE  \A u \in Threads : \A i : ThreadSettles(u, i) => ThreadSettles(u, i)'
  BY DEF Becomes, ThreadSettles, Busy

LEMMA TasksSettle ==
    ASSUME Inv, Next, "delete" \notin mix, NEW k \in Keys,
           tasks'[k].id = tasks[k].id,
           tasks'[k].pc \in {"queued", "exec", "finish"} \/ tasks'[k] = tasks[k]
    PROVE  \A i : TaskSettles(k, i) => TaskSettles(k, i)'
  <1>1. \A id : Find(id) \subseteq Find(id)'
    BY Steady
  <1>2. ASSUME NEW i, TaskSettles(k, i)  PROVE i \in Find(tasks[k].id)'
    <2>1. \A id : id = tasks[k].id => i \in Find(id)'
      BY <1>1, <1>2 DEF TaskSettles
    <2> QED  BY <2>1 DEF Find
  <1> QED  BY <1>2 DEF TaskSettles

LEMMA QuietStepsSettle ==
    ASSUME Inv, Next, "delete" \notin mix, NEW t \in Threads, UNCHANGED tasks,
           NEW r, Becomes(t, r),
           threads[t].pc \in Busy => r.pc \in Busy /\ r.ptr = threads[t].ptr
    PROVE  \A i : Under(i) => Under(i)'
  <1>1. \A u \in Threads : \A i : ThreadSettles(u, i) => ThreadSettles(u, i)'
    BY ThreadsSettle
  <1>2. \A k \in Keys : \A i : TaskSettles(k, i) => TaskSettles(k, i)'
    BY TasksSettle
  <1> QED  BY <1>1, <1>2 DEF Under

(* A thread with a pipeline under way points into the registry.              *)
LEMMA BusyPoints ==
    ASSUME Inv, "delete" \notin mix, NEW t \in Threads, threads[t].pc \in Busy
    PROVE  /\ threads[t].ptr \in 1..npipelines
           /\ threads[t].op \in {"run", "wait", "webhook", "watch"} =>
                /\ threads[t].ptr \in Find(threads[t].id)
                /\ pipelines[threads[t].ptr].id = threads[t].id
           /\ threads[t].op \in {"run", "wait", "webhook", "watch", "cron"}
  <1>1. threads[t].op \in {"run", "wait", "webhook", "watch", "cron"}
    BY ThreadFields DEF Inv, Named, Busy, AllOps
  <1>2. CASE threads[t].op = "cron"
    BY <1>2, CronHas DEF Busy
  <1>3. CASE threads[t].op # "cron"
    <2>1. threads[t].ptr \in Find(threads[t].id)
      BY <1>1, <1>3 DEF Inv, Denoted, Held, Busy
    <2> QED  BY <1>1, <1>3, <2>1 DEF Find
  <1> QED  BY <1>1, <1>2, <1>3

LEMMA SettledKept ==
    ASSUME Inv, Next
    PROVE  Settled'
  <1> SUFFICES ASSUME mix \intersect {"wait", "delete"} = {}
               PROVE  \A i \in 1..npipelines' : pipelines'[i].status = Running => Under(i)'
    BY MixKept DEF Settled, Under
  <1>1. "delete" \notin mix /\ "wait" \notin mix /\ Registry /\ Types /\ Pointed
        /\ \A t \in Threads : threads[t].op \notin {"wait", "delete"}
    BY DEF Inv, Named
  <1>2. \A i \in 1..npipelines : pipelines[i].status = Running => Under(i)
    BY DEF Inv, Settled, Under
  <1>3. \A i \in 1..npipelines : i \in Places
    BY <1>1, Steady
  <1>s. Running \in Statuses /\ Final \subseteq Statuses /\ Running \notin Final
        /\ Running # "idle"
    BY DEF Statuses, Running, Final
  <1>4. ASSUME NEW t \in Threads, NEW r, Becomes(t, r), UNCHANGED <<pipelines, npipelines, tasks>>,
               threads[t].pc \in Busy => r.pc \in Busy /\ r.ptr = threads[t].ptr
        PROVE  \A i \in 1..npipelines' : pipelines'[i].status = Running => Under(i)'
    BY <1>1, <1>2, <1>4, QuietStepsSettle
  <1>5. ASSUME NEW t \in Threads, Asks(t)
        PROVE  \A i \in 1..npipelines' : pipelines'[i].status = Running => Under(i)'
    <2>1. threads[t].pc \notin Busy /\ UNCHANGED <<pipelines, npipelines, tasks>>
      BY <1>5 DEF Asks, Arrive, registry, Idle, Busy
    <2>2. \E r : Becomes(t, r)
      <3>1. PICK op \in {"run", "wait", "webhook", "delete", "create", "watch"}, id \in Ids :
                Arrive(t, op, id)
        BY <1>5 DEF Asks
      <3>2. Becomes(t, [Idle EXCEPT !.op = op, !.pc = "find", !.id = id])
        BY <1>1, <3>1, AsksBecomes
      <3> QED  BY <3>2
    <2> QED  BY <1>4, <2>1, <2>2
  <1>6. ASSUME NEW t \in Threads, Looks(t) \/ Catalog(t)
        PROVE  \A i \in 1..npipelines' : pipelines'[i].status = Running => Under(i)'
    <2>1. threads[t].pc \notin Busy /\ UNCHANGED <<pipelines, npipelines, tasks>>
      BY <1>6 DEF Looks, FindPipeline, Check, Catalog, At, registry, Busy
    <2>2. \E r : Becomes(t, r)
      BY <1>1, <1>6, FindBecomes, CheckBecomes, StopsBecomes DEF Looks
    <2> QED  BY <1>4, <2>1, <2>2
  <1>7. ASSUME NEW t \in Threads, FinishArgs(t) \/ FinishRun(t) \/ Remove(t)  PROVE FALSE
    BY <1>1, <1>7 DEF FinishArgs, FinishRun, Remove, At
  <1>8. ASSUME NEW t \in Threads, Starts(t)
        PROVE  \A i \in 1..npipelines' : pipelines'[i].status = Running => Under(i)'
    <2> DEFINE r == [threads[t] EXCEPT !.pc = IF threads[t].op = "run" THEN "copy" ELSE "start"]
    <2>1. threads[t].pc = "go" /\ Becomes(t, r) /\ r.pc \in Busy /\ r.ptr = threads[t].ptr
      BY <1>1, <1>8, StartsBecomes, ThreadFields DEF Busy, ThreadState
    <2> HIDE DEF r
    <2>2. npipelines' = npipelines /\ UNCHANGED tasks /\ SetStatus(threads[t].ptr, Running)
      BY <1>8 DEF Starts, MarkRunning, RunNow
    <2>3. \A i : Under(i) => Under(i)'
      BY <1>1, <2>1, <2>2, QuietStepsSettle DEF Busy
    <2>4. \A j \in Places : pipelines'[j].status =
              IF j = threads[t].ptr THEN Running ELSE pipelines[j].status
      BY <1>1, <1>s, <2>2, StatusSet
    <2>5. \A i : i = threads[t].ptr => Under(i)'
      BY <2>1 DEF ThreadSettles, Becomes, Busy, Under
    <2> QED  BY <1>2, <1>3, <2>2, <2>3, <2>4, <2>5
  <1>9. ASSUME NEW t \in Threads, CopyAndSubmit(t)
        PROVE  \A i \in 1..npipelines' : pipelines'[i].status = Running => Under(i)'
    <2>1. UNCHANGED <<pipelines, npipelines>> /\ threads[t].pc = "copy" /\ threads[t].op = "run"
      BY <1>9 DEF CopyAndSubmit, registry, At
    <2>2. PICK k \in Keys : /\ tasks[k] = NoTask
                            /\ tasks'[k].pc = "queued"
                            /\ tasks'[k].id = pipelines[threads[t].ptr].id
                            /\ \A j \in Keys : j # k => tasks'[j] = tasks[j]
      BY <1>1, <1>9 DEF CopyAndSubmit, Types
    <2>3. \A u \in Threads : u # t => threads'[u] = threads[u]
      BY <1>1, <1>9, StopsBecomes DEF Becomes
    <2>4. ASSUME NEW u \in Threads, NEW i, u # t, ThreadSettles(u, i)  PROVE ThreadSettles(u, i)'
      BY <2>3, <2>4 DEF ThreadSettles
    <2>5. ASSUME NEW j \in Keys, NEW i, TaskSettles(j, i)  PROVE TaskSettles(j, i)'
      <3>1. j # k
        BY <2>2, <2>5 DEF TaskSettles, NoTask
      <3> QED  BY <1>1, <2>2, <2>5, <3>1, TasksSettle
    <2>6. ASSUME NEW i, ThreadSettles(t, i)  PROVE TaskSettles(k, i)'
      <3>1. i = threads[t].ptr /\ i \in Find(threads[t].id) /\ pipelines[i].id = threads[t].id
        BY <1>1, <2>1, <2>6, BusyPoints DEF ThreadSettles, Busy
      <3>2. \A id : id = tasks'[k].id => i \in Find(id)'
        BY <2>1, <2>2, <3>1 DEF Find
      <3> QED  BY <2>2, <3>2 DEF TaskSettles, Find
    <2> QED  BY <1>2, <2>1, <2>4, <2>5, <2>6 DEF Under
  <1>10. ASSUME NEW t \in Threads, Executes(t)
         PROVE  \A i \in 1..npipelines' : pipelines'[i].status = Running => Under(i)'
    <2>1. CASE ExecStart(t)
      <3> DEFINE r == [threads[t] EXCEPT !.pc = "exec", !.run = pipelines[threads[t].ptr].id]
      <3>1. Becomes(t, r) /\ r.pc \in Busy /\ r.ptr = threads[t].ptr
        BY <1>1, <2>1, ExecStartBecomes, ThreadFields DEF Busy, ThreadState
      <3> HIDE DEF r
      <3>2. UNCHANGED <<pipelines, npipelines, tasks>>
        BY <2>1 DEF ExecStart, registry
      <3> QED  BY <1>4, <3>1, <3>2
    <2>2. ASSUME NEW st \in Final, ExecEnd(t, st)
          PROVE  \A i \in 1..npipelines' : pipelines'[i].status = Running => Under(i)'
      <3>1. SetStatus(threads[t].ptr, st) /\ UNCHANGED <<npipelines, tasks>>
        BY <2>2 DEF ExecEnd, ExecutedStatus
      <3>2. \A j \in Places : pipelines'[j].status =
                IF j = threads[t].ptr THEN st ELSE pipelines[j].status
        BY <1>1, <1>s, <3>1, StatusSet
      <3>3. \A u \in Threads : u # t => threads'[u] = threads[u]
        BY <1>1, <2>2, ExecEndBecomes DEF Becomes
      <3>4. \A u \in Threads : \A i : ThreadSettles(u, i) /\ u # t => ThreadSettles(u, i)'
        BY <3>3 DEF ThreadSettles
      <3>5. \A k \in Keys : \A i : TaskSettles(k, i) => TaskSettles(k, i)'
        BY <1>1, <3>1, TasksSettle
      <3>6. \A i : ThreadSettles(t, i) => i = threads[t].ptr
        BY DEF ThreadSettles
      <3>7. \A i : Under(i) /\ i # threads[t].ptr => Under(i)'
        BY <3>4, <3>5, <3>6 DEF Under
      <3> QED  BY <1>2, <1>3, <1>s, <3>1, <3>2, <3>7
    <2> QED  BY <1>10, <2>1, <2>2 DEF Executes
  <1>11. ASSUME NEW t \in Threads, Add(t)
         PROVE  \A i \in 1..npipelines' : pipelines'[i].status = Running => Under(i)'
    <2>1. threads[t].pc = "find" /\ UNCHANGED tasks /\ \E r : Becomes(t, r)
      BY <1>1, <1>11, ChangesBecomes DEF Add, At
    <2>2. \A i : Under(i) => Under(i)'
      BY <1>1, <2>1, QuietStepsSettle DEF Busy
    <2>3. /\ \A j \in 1..npipelines : pipelines'[j] = pipelines[j]
          /\ \A j \in 1..npipelines' : j \notin 1..npipelines => pipelines'[j].status = "idle"
      BY <1>11, AddEffect
    <2> QED  BY <1>2, <1>s, <2>2, <2>3
  <1>12. ASSUME NEW k \in Keys, Task(k)
         PROVE  \A i \in 1..npipelines' : pipelines'[i].status = Running => Under(i)'
    <2>1. \A u \in Threads : \A i : ThreadSettles(u, i) => ThreadSettles(u, i)'
      BY <1>12 DEF Task, TaskStart, TaskEnd, TaskFinish, ThreadSettles
    <2>2. CASE TaskStart(k) \/ \E st \in Final : TaskEnd(k, st)
      <3>1. /\ UNCHANGED <<pipelines, npipelines>>
            /\ tasks'[k].id = tasks[k].id /\ tasks'[k].pc \in {"exec", "finish"}
            /\ \A j \in Keys : j # k => tasks'[j] = tasks[j]
        <4>1. tasks \in [Keys -> TaskState] /\ tasks[k] \in TaskState
          BY <1>1 DEF Types
        <4>2. CASE TaskStart(k)
          BY <4>1, <4>2 DEF TaskStart, registry, TaskState
        <4>3. ASSUME NEW st \in Final, TaskEnd(k, st)
              PROVE  /\ UNCHANGED <<pipelines, npipelines>>
                     /\ tasks'[k].id = tasks[k].id /\ tasks'[k].pc = "finish"
                     /\ \A j \in Keys : j # k => tasks'[j] = tasks[j]
          BY <4>1, <4>3 DEF TaskEnd, registry, TaskState
        <4> QED  BY <2>2, <4>2, <4>3
      <3>2. \A j \in Keys : \A i : TaskSettles(j, i) => TaskSettles(j, i)'
        BY <1>1, <3>1, TasksSettle
      <3> QED  BY <1>2, <2>1, <3>1, <3>2 DEF Under
    <2>3. CASE TaskFinish(k)
      <3>1. npipelines' = npipelines /\ \A j \in Keys : j # k => tasks'[j] = tasks[j]
        BY <1>1, <2>3 DEF TaskFinish, Types
      <3>2. tasks[k].st \in Final /\ tasks[k].id \in Ids \union {NoId}
        BY <2>3 DEF TaskFinish, Inv, TasksEnd, Types, TaskState
      <3>3. \A j \in Places : pipelines'[j].status =
                IF j \in Find(tasks[k].id) THEN tasks[k].st ELSE pipelines[j].status
        BY <1>1, <1>s, <2>3, <3>2, StatusWritten DEF TaskFinish
      <3>4. \A j \in Keys : \A i : TaskSettles(j, i) /\ j # k => TaskSettles(j, i)'
        BY <1>1, <3>1, TasksSettle
      <3>5. \A i : TaskSettles(k, i) => i \in Find(tasks[k].id)
        BY DEF TaskSettles
      <3>6. \A i : Under(i) /\ i \notin Find(tasks[k].id) => Under(i)'
        BY <2>1, <3>4, <3>5 DEF Under
      <3> QED  BY <1>2, <1>3, <1>s, <3>1, <3>2, <3>3, <3>6
    <2> QED  BY <1>12, <2>2, <2>3 DEF Task
  <1>13. CASE CronLock
    <2>1. threads[Cron].pc \notin Busy /\ UNCHANGED <<pipelines, npipelines, tasks>>
          /\ Cron \in Threads
      BY <1>13 DEF CronLock, registry, Idle, Busy, Threads
    <2>2. \E r : Becomes(Cron, r)
      BY <1>1, <1>13, CronLockBecomes
    <2> QED  BY <1>4, <2>1, <2>2
  <1>14. CASE CronSkip \/ CronUnlock
    <2>1. threads[Cron].pc \notin Busy /\ UNCHANGED <<pipelines, npipelines, tasks>>
          /\ Cron \in Threads
      BY <1>14 DEF CronSkip, CronUnlock, At, registry, Busy, Threads
    <2>2. \E r : Becomes(Cron, r)
      BY <1>1, <1>14, CronScanBecomes DEF CronScan
    <2> QED  BY <1>4, <2>1, <2>2
  <1>15. CASE CronFire
    <2>1. /\ npipelines' = npipelines /\ UNCHANGED tasks /\ SetStatus(threads[Cron].ptr, Running)
          /\ Cron \in Threads /\ threads[Cron].pc = "scan" /\ Go(Cron, "start")
      BY <1>15 DEF CronFire, At, Threads
    <2> DEFINE r == [threads[Cron] EXCEPT !.pc = "start"]
    <2>2. Becomes(Cron, r) /\ r.pc = "start" /\ r.ptr = threads[Cron].ptr
      BY <1>1, <2>1, Going, ThreadFields DEF ThreadState, Pcs
    <2> HIDE DEF r
    <2>3. \A i : Under(i) => Under(i)'
      BY <1>1, <2>1, <2>2, QuietStepsSettle DEF Busy
    <2>4. \A j \in Places : pipelines'[j].status =
              IF j = threads[Cron].ptr THEN Running ELSE pipelines[j].status
      BY <1>1, <1>s, <2>1, StatusSet
    <2>5. \A i : i = threads[Cron].ptr => Under(i)'
      BY <2>1, <2>2 DEF ThreadSettles, Becomes, Busy, Under
    <2> QED  BY <1>2, <1>3, <2>1, <2>3, <2>4, <2>5
  <1> QED  BY <1>5, <1>6, <1>7, <1>8, <1>9, <1>10, <1>11, <1>12, <1>13, <1>14, <1>15, NextCases

-----------------------------------------------------------------------------
(* Accepted runs and executions                                              *)

LEMMA FiniteCounts ==
    /\ \A id : IsFiniteSet(Coming(id)) /\ Cardinality(Coming(id)) \in Nat
    /\ \A id : IsFiniteSet(Queued(id)) /\ Cardinality(Queued(id)) \in Nat
  <1>1. IsFiniteSet(Threads) /\ IsFiniteSet(Keys)
    <2>1. IsFiniteSet(Https \union {Cron})
      BY PipelineAssumption, FS_AddElement
    <2>a. Threads = (Https \union {Cron}) \union {Watcher}
      BY DEF Threads
    <2>2. IsFiniteSet(Threads)
      BY <2>1, <2>a, FS_AddElement
    <2>3. IsFiniteSet(Keys)
      BY FS_Interval, PipelineAssumption DEF Keys
    <2> QED  BY <2>2, <2>3
  <1>2. \A id : Coming(id) \subseteq Threads /\ Queued(id) \subseteq Keys
    BY DEF Coming, Queued
  <1> QED  BY <1>1, <1>2, FS_Subset, FS_CardinalityType

LEMMA OneMore ==
    ASSUME NEW S, IsFiniteSet(S), NEW x, x \notin S
    PROVE  Cardinality(S \union {x}) = Cardinality(S) + 1
  BY FS_AddElement

LEMMA OneLess ==
    ASSUME NEW S, IsFiniteSet(S), NEW x \in S
    PROVE  Cardinality(S \ {x}) = Cardinality(S) - 1
  BY FS_RemoveElement

(* Whether thread u, or task k, is on its way to an execution of id.         *)
Comes(u, id) == threads[u].pc \in {"copy", "start"} /\ pipelines[threads[u].ptr].id = id
Waits(k, id) == tasks[k].pc = "queued" /\ tasks[k].id = id

(* What a thread points to while it is on its way does not move.             *)
LEMMA ComesKept ==
    ASSUME Inv, Next, "delete" \notin mix, NEW u \in Threads, threads'[u] = threads[u], NEW id
    PROVE  Comes(u, id)' <=> Comes(u, id)
  <1>1. threads[u].pc \in {"copy", "start"} =>
            pipelines'[threads[u].ptr].id = pipelines[threads[u].ptr].id
    BY BusyPoints, Steady DEF Busy
  <1> QED  BY <1>1 DEF Comes

LEMMA SameComing ==
    ASSUME NEW id, \A u \in Threads : Comes(u, id)' <=> Comes(u, id)
    PROVE  Coming(id)' = Coming(id)
  BY DEF Coming, Comes

LEMMA SameQueued ==
    ASSUME NEW id, \A k \in Keys : Waits(k, id)' <=> Waits(k, id)
    PROVE  Queued(id)' = Queued(id)
  BY DEF Queued, Waits

(* A step that puts no thread on its way and takes none off it.              *)
LEMMA NobodyComes ==
    ASSUME Inv, Next, "delete" \notin mix, NEW t \in Threads, NEW r, Becomes(t, r),
           threads[t].pc \notin {"copy", "start"}, r.pc \notin {"copy", "start"}
    PROVE  \A id : Coming(id)' = Coming(id)
  <1>1. ASSUME NEW id, NEW u \in Threads  PROVE Comes(u, id)' <=> Comes(u, id)
    BY ComesKept DEF Becomes, Comes
  <1> QED  BY <1>1, SameComing

(* One more thread on its way, to the pipeline r points to.                  *)
LEMMA OneComes ==
    ASSUME Inv, Next, "delete" \notin mix, NEW t \in Threads, NEW r, Becomes(t, r),
           threads[t].pc \notin {"copy", "start"}, r.pc \in {"copy", "start"},
           r.ptr \in 1..npipelines
    PROVE  \A id : Cardinality(Coming(id)') = IF id = pipelines[r.ptr].id
                                              THEN Cardinality(Coming(id)) + 1
                                              ELSE Cardinality(Coming(id))
  <1>1. threads'[t] = r /\ pipelines'[r.ptr].id = pipelines[r.ptr].id
    BY Steady DEF Becomes
  <1>2. \A u \in Threads : \A id : u # t => (Comes(u, id)' <=> Comes(u, id))
    BY ComesKept DEF Becomes
  <1>3. \A id : /\ ~Comes(t, id)
                /\ Comes(t, id)' <=> id = pipelines[r.ptr].id
    BY <1>1 DEF Comes
  <1>4. ASSUME NEW id, id # pipelines[r.ptr].id  PROVE Coming(id)' = Coming(id)
    BY <1>2, <1>3, <1>4, SameComing
  <1>5. ASSUME NEW id, id = pipelines[r.ptr].id
        PROVE  Cardinality(Coming(id)') = Cardinality(Coming(id)) + 1
    <2>1. Coming(id)' = Coming(id) \union {t} /\ t \notin Coming(id)
      BY <1>2, <1>3, <1>5 DEF Coming, Comes
    <2> QED  BY <2>1, FiniteCounts, OneMore
  <1> QED  BY <1>4, <1>5

(* A thread is at its execution, or has handed it to a task.                 *)
LEMMA OneArrives ==
    ASSUME Inv, Next, "delete" \notin mix, NEW t \in Threads, NEW r, Becomes(t, r),
           threads[t].pc \in {"copy", "start"}, r.pc \notin {"copy", "start"}
    PROVE  \A id : Cardinality(Coming(id)') = IF id = pipelines[threads[t].ptr].id
                                              THEN Cardinality(Coming(id)) - 1
                                              ELSE Cardinality(Coming(id))
  <1>1. \A u \in Threads : \A id : u # t => (Comes(u, id)' <=> Comes(u, id))
    BY ComesKept DEF Becomes
  <1>2. \A id : /\ ~(Comes(t, id)')
                /\ Comes(t, id) <=> id = pipelines[threads[t].ptr].id
    BY DEF Comes, Becomes
  <1>3. ASSUME NEW id, id # pipelines[threads[t].ptr].id  PROVE Coming(id)' = Coming(id)
    BY <1>1, <1>2, <1>3, SameComing
  <1>4. ASSUME NEW id, id = pipelines[threads[t].ptr].id
        PROVE  Cardinality(Coming(id)') = Cardinality(Coming(id)) - 1
    <2>1. Coming(id)' = Coming(id) \ {t} /\ t \in Coming(id)
      BY <1>1, <1>2, <1>4 DEF Coming, Comes
    <2> QED  BY <2>1, FiniteCounts, OneLess
  <1> QED  BY <1>3, <1>4

(* A task is queued; a worker takes it.                                      *)
LEMMA OneQueued ==
    ASSUME NEW k \in Keys, \A q \in Keys : q # k => tasks'[q] = tasks[q],
           tasks[k].pc # "queued", tasks'[k].pc = "queued"
    PROVE  \A id : Cardinality(Queued(id)') = IF id = tasks'[k].id
                                              THEN Cardinality(Queued(id)) + 1
                                              ELSE Cardinality(Queued(id))
  <1>1. \A q \in Keys : \A id : q # k => (Waits(q, id)' <=> Waits(q, id))
    BY DEF Waits
  <1>2. \A id : ~Waits(k, id) /\ (Waits(k, id)' <=> id = tasks'[k].id)
    BY DEF Waits
  <1>3. ASSUME NEW id, id # tasks'[k].id  PROVE Queued(id)' = Queued(id)
    BY <1>1, <1>2, <1>3, SameQueued
  <1>4. ASSUME NEW id, id = tasks'[k].id
        PROVE  Cardinality(Queued(id)') = Cardinality(Queued(id)) + 1
    <2>1. Queued(id)' = Queued(id) \union {k} /\ k \notin Queued(id)
      BY <1>1, <1>2, <1>4 DEF Queued, Waits
    <2> QED  BY <2>1, FiniteCounts, OneMore
  <1> QED  BY <1>3, <1>4

LEMMA OneTaken ==
    ASSUME NEW k \in Keys, \A q \in Keys : q # k => tasks'[q] = tasks[q],
           tasks[k].pc = "queued", tasks'[k].pc # "queued"
    PROVE  \A id : Cardinality(Queued(id)') = IF id = tasks[k].id
                                              THEN Cardinality(Queued(id)) - 1
                                              ELSE Cardinality(Queued(id))
  <1>1. \A q \in Keys : \A id : q # k => (Waits(q, id)' <=> Waits(q, id))
    BY DEF Waits
  <1>2. \A id : ~(Waits(k, id)') /\ (Waits(k, id) <=> id = tasks[k].id)
    BY DEF Waits
  <1>3. ASSUME NEW id, id # tasks[k].id  PROVE Queued(id)' = Queued(id)
    BY <1>1, <1>2, <1>3, SameQueued
  <1>4. ASSUME NEW id, id = tasks[k].id
        PROVE  Cardinality(Queued(id)') = Cardinality(Queued(id)) - 1
    <2>1. Queued(id)' = Queued(id) \ {k} /\ k \in Queued(id)
      BY <1>1, <1>2, <1>4 DEF Queued, Waits
    <2> QED  BY <2>1, FiniteCounts, OneLess
  <1> QED  BY <1>3, <1>4

LEMMA NobodyQueued ==
    ASSUME NEW k \in Keys, \A q \in Keys : q # k => tasks'[q] = tasks[q],
           tasks[k].pc # "queued", tasks'[k].pc # "queued"
    PROVE  \A id : Queued(id)' = Queued(id)
  BY SameQueued DEF Waits

LEMMA OwingKept ==
    ASSUME Inv, Next
    PROVE  Owing'
  <1> SUFFICES ASSUME mix \intersect {"webhook", "delete"} = {}
               PROVE  \A id \in Ids :
                        owed'[id] = Cardinality(Coming(id)') + Cardinality(Queued(id)')
    BY MixKept DEF Owing
  <1>1. "delete" \notin mix /\ "webhook" \notin mix /\ Registry /\ Types /\ Pointed
        /\ \A t \in Threads : threads[t].op \notin {"webhook", "delete"}
    BY DEF Inv, Named
  <1>2. /\ \A id \in Ids : owed[id] = Cardinality(Coming(id)) + Cardinality(Queued(id))
        /\ \A id : Cardinality(Coming(id)) \in Nat /\ Cardinality(Queued(id)) \in Nat
    BY FiniteCounts DEF Inv, Owing
  <1>3. tasks' = tasks => \A id : Queued(id)' = Queued(id)
    BY DEF Queued
  <1>4. ASSUME NEW t \in Threads, NEW r, Becomes(t, r), UNCHANGED <<tasks, owed>>,
               threads[t].pc \notin {"copy", "start"}, r.pc \notin {"copy", "start"}
        PROVE  \A id \in Ids : owed'[id] = Cardinality(Coming(id)') + Cardinality(Queued(id)')
    <2>1. \A id : Coming(id)' = Coming(id)
      BY <1>1, <1>4, NobodyComes
    <2> QED  BY <1>2, <1>3, <1>4, <2>1
  <1>5. ASSUME NEW t \in Threads, Asks(t)
        PROVE  \A id \in Ids : owed'[id] = Cardinality(Coming(id)') + Cardinality(Queued(id)')
    <2>1. threads[t].pc = "idle" /\ UNCHANGED <<tasks, owed>>
      BY <1>5 DEF Asks, Arrive, Idle
    <2>2. PICK op \in {"run", "wait", "webhook", "delete", "create", "watch"}, id \in Ids :
              Arrive(t, op, id)
      BY <1>5 DEF Asks
    <2> DEFINE r == [Idle EXCEPT !.op = op, !.pc = "find", !.id = id]
    <2>3. Becomes(t, r) /\ r.pc = "find"
      BY <1>1, <2>2, AsksBecomes DEF Idle
    <2> HIDE DEF r
    <2> QED  BY <1>4, <2>1, <2>3
  <1>6. ASSUME NEW t \in Threads, NEW pc \in Pcs \ {"copy", "start"},
               Becomes(t, [threads[t] EXCEPT !.pc = pc]), UNCHANGED <<tasks, owed>>,
               threads[t].pc \notin {"copy", "start"}
        PROVE  \A id \in Ids : owed'[id] = Cardinality(Coming(id)') + Cardinality(Queued(id)')
    <2> DEFINE r == [threads[t] EXCEPT !.pc = pc]
    <2>1. r.pc = pc /\ Becomes(t, r)
      BY <1>1, <1>6, ThreadFields DEF ThreadState
    <2> HIDE DEF r
    <2> QED  BY <1>4, <1>6, <2>1
  <1>7. ASSUME NEW t \in Threads, Becomes(t, Idle), UNCHANGED <<tasks, owed>>,
               threads[t].pc \notin {"copy", "start"}
        PROVE  \A id \in Ids : owed'[id] = Cardinality(Coming(id)') + Cardinality(Queued(id)')
    BY <1>4, <1>7 DEF Idle
  <1>8. ASSUME NEW t \in Threads, Looks(t)
        PROVE  \A id \in Ids : owed'[id] = Cardinality(Coming(id)') + Cardinality(Queued(id)')
    <2>1. threads[t].pc \notin {"copy", "start"} /\ UNCHANGED <<tasks, owed>>
          /\ "go" \in Pcs \ {"copy", "start"}
      BY <1>8 DEF Looks, FindPipeline, Check, At, Pcs
    <2>2. ASSUME NEW i \in Places, Becomes(t, [threads[t] EXCEPT !.pc = "check", !.ptr = i])
          PROVE  \A id \in Ids : owed'[id] = Cardinality(Coming(id)') + Cardinality(Queued(id)')
      <3> DEFINE r == [threads[t] EXCEPT !.pc = "check", !.ptr = i]
      <3>1. r.pc = "check" /\ Becomes(t, r)
        BY <1>1, <2>2, ThreadFields DEF ThreadState
      <3> HIDE DEF r
      <3> QED  BY <1>4, <2>1, <3>1
    <2> QED  BY <1>1, <1>6, <1>7, <1>8, <2>1, <2>2, FindBecomes, CheckBecomes DEF Looks
  <1>9. ASSUME NEW t \in Threads, FinishRun(t) \/ Catalog(t)
        PROVE  \A id \in Ids : owed'[id] = Cardinality(Coming(id)') + Cardinality(Queued(id)')
    <2>1. threads[t].pc \notin {"copy", "start"} /\ UNCHANGED <<tasks, owed>>
      BY <1>9 DEF FinishRun, Catalog, At
    <2> QED  BY <1>1, <1>7, <1>9, <2>1, StopsBecomes
  <1>10. ASSUME NEW t \in Threads, FinishArgs(t)
         PROVE  \A id \in Ids : owed'[id] = Cardinality(Coming(id)') + Cardinality(Queued(id)')
    <2>1. threads[t].pc \notin {"copy", "start"} /\ UNCHANGED <<tasks, owed>>
      BY <1>10 DEF FinishArgs, At
    <2>2. PICK run \in Ids \union {NoId}, st \in Statuses :
              Becomes(t, [threads[t] EXCEPT !.pc = "finish", !.run = run, !.st = st])
      BY <1>1, <1>10, FinishArgsBecomes
    <2> DEFINE r == [threads[t] EXCEPT !.pc = "finish", !.run = run, !.st = st]
    <2>3. r.pc = "finish" /\ Becomes(t, r)
      BY <1>1, <2>2, ThreadFields DEF ThreadState
    <2> HIDE DEF r
    <2> QED  BY <1>4, <2>1, <2>3
  <1>11. ASSUME NEW t \in Threads, Remove(t) \/ Add(t)
         PROVE  \A id \in Ids : owed'[id] = Cardinality(Coming(id)') + Cardinality(Queued(id)')
    <2>1. threads[t].pc \notin {"copy", "start"} /\ UNCHANGED <<tasks, owed>>
          /\ "catalog" \in Pcs \ {"copy", "start"}
      BY <1>11 DEF Remove, Add, At, Pcs
    <2> QED  BY <1>1, <1>6, <1>11, <2>1, ChangesBecomes
  <1>12. ASSUME NEW t \in Threads, Starts(t)
         PROVE  \A id \in Ids : owed'[id] = Cardinality(Coming(id)') + Cardinality(Queued(id)')
    <2> DEFINE r == [threads[t] EXCEPT !.pc = IF threads[t].op = "run" THEN "copy" ELSE "start"]
    <2>1. threads[t].pc = "go" /\ Becomes(t, r) /\ r.pc \in {"copy", "start"}
          /\ r.ptr = threads[t].ptr /\ threads[t].op \in {"run", "wait", "webhook", "watch"}
      BY <1>1, <1>12, StartsBecomes, ThreadFields DEF ThreadState
    <2> HIDE DEF r
    <2>2. r.ptr \in 1..npipelines /\ threads[t].id = pipelines[r.ptr].id
      BY <1>1, <2>1 DEF Inv, Denoted, Held, Find
    <2>3. \A id : Cardinality(Coming(id)') = IF id = threads[t].id THEN Cardinality(Coming(id)) + 1
                                             ELSE Cardinality(Coming(id))
      BY <1>1, <2>1, <2>2, OneComes
    <2>4. UNCHANGED tasks /\ Owe(threads[t].id, 1) /\ threads[t].id \in Ids \union {NoId}
      BY <1>1, <1>12, ThreadFields DEF Starts, MarkRunning, RunNow
    <2>5. \A id \in Ids : owed'[id] = IF id = threads[t].id THEN owed[id] + 1 ELSE owed[id]
      BY <1>1, <2>4, Owes
    <2> QED  BY <1>2, <1>3, <2>3, <2>4, <2>5
  <1>13. ASSUME NEW t \in Threads, CopyAndSubmit(t)
         PROVE  \A id \in Ids : owed'[id] = Cardinality(Coming(id)') + Cardinality(Queued(id)')
    <2>1. threads[t].pc = "copy" /\ UNCHANGED owed /\ Becomes(t, Idle)
      BY <1>1, <1>13, StopsBecomes DEF CopyAndSubmit, At
    <2>2. \A id : Cardinality(Coming(id)') = IF id = pipelines[threads[t].ptr].id
                                             THEN Cardinality(Coming(id)) - 1
                                             ELSE Cardinality(Coming(id))
      <3>1. Idle.pc \notin {"copy", "start"} /\ threads[t].pc \in {"copy", "start"}
        BY <2>1 DEF Idle
      <3> QED  BY <1>1, <2>1, <3>1, OneArrives
    <2>3. PICK k \in Keys : /\ tasks[k] = NoTask
                            /\ tasks'[k].pc = "queued"
                            /\ tasks'[k].id = pipelines[threads[t].ptr].id
                            /\ \A q \in Keys : q # k => tasks'[q] = tasks[q]
      BY <1>1, <1>13 DEF CopyAndSubmit, Types
    <2>4. \A id : Cardinality(Queued(id)') = IF id = pipelines[threads[t].ptr].id
                                             THEN Cardinality(Queued(id)) + 1
                                             ELSE Cardinality(Queued(id))
      <3>1. tasks[k].pc # "queued"
        BY <2>3 DEF NoTask
      <3> QED  BY <2>3, <3>1, OneQueued
    <2> QED  BY <1>2, <2>1, <2>2, <2>4
  <1>14. ASSUME NEW t \in Threads, ExecStart(t)
         PROVE  \A id \in Ids : owed'[id] = Cardinality(Coming(id)') + Cardinality(Queued(id)')
    <2> DEFINE r == [threads[t] EXCEPT !.pc = "exec", !.run = pipelines[threads[t].ptr].id]
    <2>1. threads[t].pc = "start" /\ UNCHANGED tasks /\ Becomes(t, r) /\ r.pc = "exec"
          /\ Owe(pipelines[threads[t].ptr].id, -1)
          /\ pipelines[threads[t].ptr].id \in Ids \union {NoId}
      BY <1>1, <1>14, ExecStartBecomes, ThreadFields
         DEF ExecStart, ThreadState, Registry, Pipeline
    <2> HIDE DEF r
    <2>2. \A id : Cardinality(Coming(id)') = IF id = pipelines[threads[t].ptr].id
                                             THEN Cardinality(Coming(id)) - 1
                                             ELSE Cardinality(Coming(id))
      BY <1>1, <2>1, OneArrives
    <2>3. \A id \in Ids : owed'[id] = IF id = pipelines[threads[t].ptr].id THEN owed[id] + (-1)
                                      ELSE owed[id]
      BY <1>1, <2>1, Owes
    <2> QED  BY <1>2, <1>3, <2>1, <2>2, <2>3
  <1>15. ASSUME NEW t \in Threads, NEW st \in Final, ExecEnd(t, st)
         PROVE  \A id \in Ids : owed'[id] = Cardinality(Coming(id)') + Cardinality(Queued(id)')
    <2>1. threads[t].pc = "exec" /\ UNCHANGED <<tasks, owed>>
      BY <1>15 DEF ExecEnd
    <2>2. CASE Becomes(t, [threads[t] EXCEPT !.pc = "args", !.run = NoId])
      <3> DEFINE r == [threads[t] EXCEPT !.pc = "args", !.run = NoId]
      <3>1. r.pc = "args" /\ Becomes(t, r)
        BY <1>1, <2>2, ThreadFields DEF ThreadState
      <3> HIDE DEF r
      <3> QED  BY <1>4, <2>1, <3>1
    <2>3. CASE Becomes(t, [threads[t] EXCEPT !.pc = "scan", !.ptr = @ + 1, !.run = NoId])
      <3> DEFINE r == [threads[t] EXCEPT !.pc = "scan", !.ptr = @ + 1, !.run = NoId]
      <3>1. r.pc = "scan" /\ Becomes(t, r)
        BY <1>1, <2>3, ThreadFields DEF ThreadState
      <3> HIDE DEF r
      <3> QED  BY <1>4, <2>1, <3>1
    <2>4. CASE Becomes(t, Idle)
      BY <1>7, <2>1, <2>4
    <2> QED  BY <1>1, <1>15, <2>2, <2>3, <2>4, ExecEndBecomes
  <1>16. ASSUME NEW k \in Keys, Task(k)
         PROVE  \A id \in Ids : owed'[id] = Cardinality(Coming(id)') + Cardinality(Queued(id)')
    <2>1. \A id : Coming(id)' = Coming(id)
      <3>1. UNCHANGED threads
        BY <1>16 DEF Task, TaskStart, TaskEnd, TaskFinish
      <3> QED  BY <1>1, <3>1, ComesKept, SameComing
    <2>2. CASE TaskStart(k)
      <3>1. /\ tasks[k].pc = "queued" /\ tasks'[k].pc = "exec" /\ Owe(tasks[k].id, -1)
            /\ tasks[k].id \in Ids \union {NoId}
            /\ \A q \in Keys : q # k => tasks'[q] = tasks[q]
        BY <1>1, <2>2 DEF TaskStart, Types, TaskState
      <3>2. \A id : Cardinality(Queued(id)') = IF id = tasks[k].id
                                               THEN Cardinality(Queued(id)) - 1
                                               ELSE Cardinality(Queued(id))
        BY <3>1, OneTaken
      <3>3. \A id \in Ids : owed'[id] = IF id = tasks[k].id THEN owed[id] + (-1) ELSE owed[id]
        BY <1>1, <3>1, Owes
      <3> QED  BY <1>2, <2>1, <3>2, <3>3
    <2>3. CASE TaskFinish(k) \/ \E st \in Final : TaskEnd(k, st)
      <3>1. /\ tasks[k].pc # "queued" /\ tasks'[k].pc # "queued" /\ UNCHANGED owed
            /\ \A q \in Keys : q # k => tasks'[q] = tasks[q]
        BY <1>1, <2>3 DEF TaskEnd, TaskFinish, Types, TaskState
      <3>2. \A id : Queued(id)' = Queued(id)
        BY <3>1, NobodyQueued
      <3> QED  BY <1>2, <2>1, <3>1, <3>2
    <2> QED  BY <1>16, <2>2, <2>3 DEF Task
  <1>17. CASE CronLock
    <2>1. threads[Cron].pc = "idle" /\ UNCHANGED <<tasks, owed>> /\ Cron \in Threads
      BY <1>17 DEF CronLock, Idle, Threads
    <2> DEFINE r == [Idle EXCEPT !.op = "cron", !.pc = "scan", !.ptr = 1]
    <2>2. Becomes(Cron, r) /\ r.pc = "scan"
      BY <1>1, <1>17, CronLockBecomes DEF Idle
    <2> HIDE DEF r
    <2> QED  BY <1>4, <2>1, <2>2
  <1>18. CASE CronSkip \/ CronUnlock
    <2>1. threads[Cron].pc = "scan" /\ UNCHANGED <<tasks, owed>> /\ Cron \in Threads
      BY <1>18 DEF CronSkip, CronUnlock, At, Threads
    <2>2. CASE CronSkip
      <3> DEFINE r == [threads[Cron] EXCEPT !.ptr = @ + 1]
      <3>1. Becomes(Cron, r)
        <4>1. threads[Cron].op = "cron" /\ threads[Cron].ptr <= npipelines
          BY <2>2 DEF CronSkip, At
        <4>2. r \in ThreadState
          <5>1. threads[Cron].ptr + 1 \in 0..(Capacity + 1)
            BY <2>1, <4>1, CronHas, PipelineAssumption DEF Inv, Registry
          <5> QED  BY <1>1, <2>1, <5>1, ThreadFields DEF ThreadState
        <4> QED  BY <1>1, <2>1, <2>2, <4>2, Becoming DEF CronSkip
      <3>2. r.pc = "scan"
        BY <1>1, <2>1, ThreadFields DEF ThreadState
      <3> HIDE DEF r
      <3> QED  BY <1>4, <2>1, <3>1, <3>2
    <2>3. CASE CronUnlock
      <3>1. Becomes(Cron, Idle)
        BY <1>1, <2>1, <2>3, Becoming, IdleTyped DEF CronUnlock
      <3> QED  BY <1>7, <2>1, <3>1
    <2> QED  BY <1>18, <2>2, <2>3
  <1>19. CASE CronFire
    <2> DEFINE r == [threads[Cron] EXCEPT !.pc = "start"]
    <2>1. /\ UNCHANGED tasks /\ Owe(pipelines[threads[Cron].ptr].id, 1) /\ Cron \in Threads
          /\ threads[Cron].pc = "scan" /\ threads[Cron].op = "cron"
          /\ threads[Cron].ptr <= npipelines /\ Go(Cron, "start")
      BY <1>19 DEF CronFire, At, Threads
    <2>2. Becomes(Cron, r) /\ r.pc = "start" /\ r.ptr = threads[Cron].ptr
      BY <1>1, <2>1, Going, ThreadFields DEF ThreadState, Pcs
    <2> HIDE DEF r
    <2>3. r.ptr \in 1..npipelines /\ pipelines[threads[Cron].ptr].id \in Ids \union {NoId}
      <3>1. r.ptr \in 1..npipelines
        BY <2>1, <2>2, CronHas
      <3>2. r.ptr \in Places
        BY <1>1, <3>1, Steady
      <3> QED  BY <1>1, <2>2, <3>1, <3>2 DEF Registry, Pipeline
    <2>4. \A id : Cardinality(Coming(id)') = IF id = pipelines[threads[Cron].ptr].id
                                             THEN Cardinality(Coming(id)) + 1
                                             ELSE Cardinality(Coming(id))
      BY <1>1, <2>1, <2>2, <2>3, OneComes
    <2>5. \A id \in Ids : owed'[id] = IF id = pipelines[threads[Cron].ptr].id THEN owed[id] + 1
                                      ELSE owed[id]
      BY <1>1, <2>1, <2>3, Owes
    <2> QED  BY <1>2, <1>3, <2>1, <2>4, <2>5
  <1> QED  BY <1>5, <1>8, <1>9, <1>10, <1>11, <1>12, <1>13, <1>14, <1>15, <1>16, <1>17, <1>18,
              <1>19, NextCases DEF Executes

-----------------------------------------------------------------------------
(* The invariant                                                             *)

LEMMA InitInv == Init => Inv
  <1> SUFFICES ASSUME Init  PROVE Inv
    OBVIOUS
  <1>1. npipelines \in 0..Capacity /\ npipelines = Cardinality(Loaded)
    BY PipelineAssumption, FS_CardinalityType DEF Init
  <1>2. PICK order \in [1..npipelines -> Loaded] :
            pipelines = [i \in Places |-> IF i <= npipelines
                                          THEN [id |-> order[i], status |-> "idle"]
                                          ELSE NoPipeline]
    BY DEF Init
  <1>3. /\ \A i \in Places : i <= npipelines => order[i] \in Ids
        /\ \A i \in 1..npipelines : i \in Places /\ i <= npipelines
    BY <1>1, PipelineAssumption DEF Places
  <1>4. Registry
    <2>1. NoPipeline \in Pipeline /\ \A x \in Ids : [id |-> x, status |-> "idle"] \in Pipeline
      BY DEF NoPipeline, Pipeline, Statuses
    <2>2. pipelines \in [Places -> Pipeline]
      BY <1>2, <1>3, <2>1
    <2>3. \A i \in 1..npipelines : pipelines[i].id # NoId
      BY <1>2, <1>3, PipelineAssumption
    <2> QED  BY <1>1, <2>2, <2>3 DEF Registry
  <1>5. \A t \in Threads : threads[t] = Idle
    BY DEF Init
  <1>6. \A k \in Keys : tasks[k] = NoTask
    BY DEF Init
  <1>7. Types
    <2>1. NoTask \in TaskState
      BY DEF NoTask, TaskState, Statuses
    <2> QED  BY <2>1, IdleTyped, PipelineAssumption DEF Init, Types
  <1>8. Named /\ Pointed /\ Denoted /\ TasksEnd
    BY <1>5, <1>6 DEF Named, Pointed, Denoted, Held, TasksEnd, Idle, NoTask
  <1>9. Settled
    <2>1. \A i \in 1..npipelines : pipelines[i].status = "idle"
      BY <1>2, <1>3
    <2> QED  BY <2>1 DEF Settled, Running
  <1>10. Owing
    <2>1. \A id : Coming(id) = {} /\ Queued(id) = {}
      BY <1>5, <1>6 DEF Coming, Queued, Idle, NoTask
    <2>2. \A id \in Ids : owed[id] = 0
      BY DEF Init
    <2>3. \A id : Cardinality(Coming(id)) = 0 /\ Cardinality(Queued(id)) = 0
      BY <2>1, FS_EmptySet
    <2> QED  BY <2>2, <2>3 DEF Owing
  <1> QED  BY <1>4, <1>7, <1>8, <1>9, <1>10 DEF Inv

LEMMA StutterInv == Inv /\ UNCHANGED vars => Inv'
  <1> SUFFICES ASSUME Inv, UNCHANGED vars  PROVE Inv'
    OBVIOUS
  <1>1. UNCHANGED <<pipelines, npipelines, mu, saved, threads, tasks, mix, requests, owed>>
    BY DEF vars
  <1>2. (Registry /\ Types /\ Named /\ Pointed /\ TasksEnd)'
    BY <1>1 DEF Inv, Registry, Types, Named, Pointed, TasksEnd
  <1>3. Denoted'
    BY <1>1 DEF Inv, Denoted, Held, Find
  <1>4. Settled'
    BY <1>1 DEF Inv, Settled, ThreadSettles, TaskSettles, Find
  <1>5. Owing'
    BY <1>1 DEF Inv, Owing, Coming, Queued
  <1> QED  BY <1>2, <1>3, <1>4, <1>5 DEF Inv

LEMMA InvHolds == Spec => []Inv
  <1>1. Inv /\ [Next]_vars => Inv'
    BY RegistryKept, TypesKept, NamedKept, PointedKept, DenotedKept, TasksEndKept, SettledKept,
       OwingKept, StutterInv DEF Inv
  <1> QED  BY InitInv, <1>1, PTL DEF Spec

(* Every reachable state is well typed: the registry keeps to its capacity,  *)
(* its places to real pipelines, and pointers to the array (scheduler.c:76). *)
THEOREM RunsTypes == Spec => []TypeOK
  <1>1. Inv => TypeOK
    BY DEF Inv, Registry, Types, TypeOK, Pipeline, ThreadState, TaskState, Pcs
  <1> QED  BY <1>1, InvHolds, PTL

(* Once everything in flight is over no pipeline is left RUNNING, whatever   *)
(* runs, webhooks, arrived files, cron firings and creations raced for it    *)
(* (api.c:7759, scheduler.c:454).                                            *)
THEOREM NothingStaysRunning == Spec => []NoPipelineStaysRunning
  <1>1. ASSUME Inv, Quiet, mix \intersect {"wait", "delete"} = {}, NEW i \in 1..npipelines,
               pipelines[i].status = Running
        PROVE  FALSE
    <2>1. \A t \in Threads : ~ThreadSettles(t, i)
      BY <1>1 DEF Quiet, ThreadSettles
    <2>2. \A k \in Keys : ~TaskSettles(k, i)
      BY <1>1 DEF Quiet, TaskSettles
    <2> QED  BY <1>1, <2>1, <2>2 DEF Inv, Settled
  <1>2. Inv => NoPipelineStaysRunning
    BY <1>1 DEF NoPipelineStaysRunning
  <1> QED  BY <1>2, InvHolds, PTL

(* Once everything in flight is over each accepted run has been executed     *)
(* exactly once, whichever thread or task it was handed to (api.c:7780).     *)
THEOREM RunsOnce == Spec => []AcceptedRunsOnce
  <1>1. ASSUME Inv, Quiet, mix \intersect {"webhook", "delete"} = {}, NEW id \in Ids
        PROVE  owed[id] = 0
    <2>1. Coming(id) = {} /\ Queued(id) = {}
      BY <1>1 DEF Quiet, Coming, Queued
    <2> QED  BY <1>1, <2>1, FS_EmptySet DEF Inv, Owing
  <1>2. Inv => AcceptedRunsOnce
    BY <1>1 DEF AcceptedRunsOnce
  <1> QED  BY <1>2, InvHolds, PTL

(* A pipeline leaves the registry only by a DELETE of its own id: what the   *)
(* compaction moves, and what an update adds, loses no other                 *)
(* (scheduler.c:491).                                                        *)
THEOREM OnlyDeletesRemove == Spec => OnlyItsDeleteRemoves
  <1>1. ASSUME Inv, Next, NEW id \in Registered \ Registered'
        PROVE  \E t \in Https : At(t, {"delete"}, "go") /\ threads[t].id = id
    <2>1. PICK i \in 1..npipelines : pipelines[i].id = id
      BY <1>1 DEF Registered
    <2>2. \A j \in 1..npipelines' : pipelines'[j].id # id
      BY <1>1 DEF Registered
    <2>3. npipelines \in 0..Capacity /\ Capacity \in Nat /\ i \in Places
      BY PipelineAssumption, <1>1, <2>1 DEF Inv, Registry, Places
    <2>4. ~StatusOnly
      BY <2>1, <2>2, <2>3 DEF StatusOnly
    <2>5. ASSUME NEW t \in Threads, Add(t)  PROVE FALSE
      BY <1>1, <2>1, <2>2, <2>3, <2>5, AddEffect
    <2>6. ASSUME NEW t \in Threads, Remove(t)
          PROVE  t \in Https /\ At(t, {"delete"}, "go") /\ threads[t].id = id
      <3>1. At(t, {"delete"}, "go")
        BY <2>6 DEF Remove
      <3>2. t \in Https
        BY <1>1, <3>1 DEF At, Inv, Named
      <3>3. threads[t].id = id
        <4>1. CASE UNCHANGED <<pipelines, npipelines>>
          BY <2>1, <2>2, <4>1
        <4>2. ASSUME NEW m \in 1..npipelines, pipelines[m].id = threads[t].id,
                     npipelines' = npipelines - 1,
                     \A j \in Places : pipelines'[j] = IF j = m THEN pipelines[npipelines]
                                                       ELSE pipelines[j]
              PROVE  threads[t].id = id
          <5>1. CASE i = m
            BY <2>1, <4>2, <5>1
          <5>2. CASE i # m /\ i = npipelines
            <6>1. m \in 1..npipelines' /\ m \in Places
              BY <2>3, <4>2, <5>2 DEF Places
            <6> QED  BY <2>1, <2>2, <4>2, <5>2, <6>1
          <5>3. CASE i # m /\ i # npipelines
            <6>1. i \in 1..npipelines'
              BY <2>3, <4>2, <5>3
            <6> QED  BY <2>1, <2>2, <2>3, <4>2, <5>3, <6>1
          <5> QED  BY <5>1, <5>2, <5>3
        <4> QED  BY <1>1, <2>6, <4>1, <4>2, RemoveEffect
      <3> QED  BY <3>1, <3>2, <3>3
    <2> QED  BY <1>1, <2>4, <2>5, <2>6, OnlyStatuses
  <1>2. Inv /\ [Next]_vars =>
            [\A id \in Registered \ Registered' :
                \E t \in Https : At(t, {"delete"}, "go") /\ threads[t].id = id]_vars
    BY <1>1
  <1> QED  BY <1>2, InvHolds, PTL DEF Spec, OnlyItsDeleteRemoves
=============================================================================
