----------------------------- MODULE PipelineRuns -----------------------------
(***************************************************************************)
(* The registry of pipelines (lib/scheduler/scheduler.c) and everything    *)
(* that runs, adds or removes one: the handlers of src/gateway/api.c, the  *)
(* worker tasks they queue, the cron loop and the file watcher.            *)
(*                                                                         *)
(* The registry is an array compacted on removal, and callers keep         *)
(* pointers into it after scheduler_find has released s->mu: a pointer is  *)
(* an index here, and what lies beyond npipelines stays readable.  An      *)
(* execution of the steps is a start and an end; cron and the event        *)
(* triggers execute with s->mu held.                                       *)
(*                                                                         *)
(* The clock, `enabled' and the triggers' contents are free choices: any   *)
(* pipeline may be due, match a token, or match an arrived file.           *)
(***************************************************************************)
EXTENDS Integers, FiniteSets

CONSTANTS
    Ids,         \* ids of pipelines
    NoId,
    Capacity,    \* 256
    Loaded,      \* the pipelines main.c loads from the catalog at start
    Https,       \* connection threads
    Cron,        \* the thread of sched_loop
    Watcher,     \* the thread of watcher_loop
    NoThread,
    Mixes,       \* bound: the mixes of requests and triggers considered
    MaxRequests  \* bound: requests and triggers in one behaviour

AllOps == {"run", "wait", "webhook", "delete", "create", "watch", "cron"}

ASSUME PipelineAssumption ==
    /\ NoId \notin Ids
    /\ Loaded \subseteq Ids /\ IsFiniteSet(Loaded) /\ Cardinality(Loaded) <= Capacity
    /\ IsFiniteSet(Https)
    /\ Capacity \in Nat \ {0}
    /\ Cron \notin Https /\ Watcher \notin Https /\ Cron # Watcher
    /\ NoThread \notin Https \union {Cron, Watcher}
    /\ Mixes \subseteq SUBSET AllOps
    /\ MaxRequests \in Nat

VARIABLES
    pipelines,   \* Scheduler.pipelines
    npipelines,  \* Scheduler.npipelines
    mu,          \* who holds s->mu across an execution, NoThread if nobody
    saved,       \* ids in the catalog
    threads,     \* the local state of each thread
    tasks,       \* the RunTasks handed to the worker pool
    mix,         \* bound: the mix of this behaviour
    requests,    \* bound: requests and triggers so far
    owed         \* history, by id: runs accepted minus runs executed

vars == <<pipelines, npipelines, mu, saved, threads, tasks, mix, requests, owed>>
registry == <<pipelines, npipelines, saved>>
work == <<mix, requests>>

Threads == Https \union {Cron, Watcher}
Places == 1..Capacity
Keys == 1..MaxRequests
Running == "running"
Final == {"success", "failed"}

NoPipeline == [id |-> NoId, status |-> "idle"]   \* calloc
Idle == [op |-> "none", pc |-> "idle", id |-> NoId, ptr |-> 0, run |-> NoId, st |-> "idle"]
NoTask == [pc |-> "none", asked |-> NoId, id |-> NoId, st |-> "idle"]

Init ==
    /\ npipelines = Cardinality(Loaded)
    /\ \E order \in [1..npipelines -> Loaded] :
        /\ \A i, j \in 1..npipelines : order[i] = order[j] => i = j
        /\ pipelines = [i \in Places |-> IF i <= npipelines
                                         THEN [id |-> order[i], status |-> "idle"]
                                         ELSE NoPipeline]
    /\ mu = NoThread
    /\ saved = Loaded
    /\ threads = [t \in Threads |-> Idle]
    /\ tasks = [k \in Keys |-> NoTask]
    /\ mix \in Mixes
    /\ requests = 0
    /\ owed = [id \in Ids |-> 0]

-----------------------------------------------------------------------------
(* Helpers *)

Registered == {pipelines[i].id : i \in 1..npipelines}

(* scheduler_find: the first place with this id.                             *)
Find(id) == {i \in 1..npipelines : pipelines[i].id = id /\
                                  \A j \in 1..(i - 1) : pipelines[j].id # id}

SetThread(t, r) == threads' = [threads EXCEPT ![t] = r]
Go(t, pc) == SetThread(t, [threads[t] EXCEPT !.pc = pc])
At(t, ops, pc) == threads[t].op \in ops /\ threads[t].pc = pc

MuFree == mu = NoThread
SetStatus(i, st) == pipelines' = [pipelines EXCEPT ![i].status = st]

(* A run of whatever the pointer denotes is accepted / executed.             *)
Owe(id, d) == owed' = IF id = NoId THEN owed ELSE [owed EXCEPT ![id] = @ + d]

-----------------------------------------------------------------------------
(* Requests and triggers: scheduler_find (or _by_webhook_token), the check   *)

Arrive(t, op, id) ==
    /\ threads[t] = Idle
    /\ op \in mix
    /\ requests < MaxRequests
    /\ requests' = requests + 1
    /\ SetThread(t, [Idle EXCEPT !.op = op, !.pc = "find", !.id = id])
    /\ UNCHANGED <<registry, mu, tasks, mix, owed>>

FindPipeline(t) ==
    LET id == threads[t].id IN
    /\ At(t, {"run", "wait", "webhook", "delete", "watch"}, "find")
    /\ MuFree
    /\ \/ \E i \in Find(id) : SetThread(t, [threads[t] EXCEPT !.pc = "check", !.ptr = i])
       \/ Find(id) = {} /\ IF threads[t].op = "delete" THEN Go(t, "go") ELSE SetThread(t, Idle)
    /\ UNCHANGED <<registry, mu, tasks, work, owed>>

(* The 409 of the handlers, through the pointer; the watcher has none.       *)
Check(t) ==
    LET p == pipelines[threads[t].ptr] IN
    /\ At(t, {"run", "wait", "webhook", "delete", "watch"}, "check")
    /\ IF threads[t].op # "watch" /\ p.status = Running
       THEN SetThread(t, Idle) ELSE Go(t, "go")
    /\ UNCHANGED <<registry, mu, tasks, work, owed>>

-----------------------------------------------------------------------------
(* POST /api/pipelines/:id/run *)

MarkRunning(t) ==
    LET i == threads[t].ptr IN
    /\ At(t, {"run", "wait"}, "go")
    /\ SetStatus(i, Running)
    /\ Owe(threads[t].id, 1)
    /\ Go(t, IF threads[t].op = "run" THEN "copy" ELSE "start")
    /\ UNCHANGED <<npipelines, mu, saved, tasks, work>>

(* The copy, tp_submit and the answer "queued".                              *)
CopyAndSubmit(t) ==
    /\ At(t, {"run"}, "copy")
    /\ \E k \in Keys :
        /\ tasks[k] = NoTask /\ \A j \in 1..(k - 1) : tasks[j] # NoTask
        /\ tasks' = [tasks EXCEPT ![k] = [pc |-> "queued", asked |-> threads[t].id,
                                         id |-> pipelines[threads[t].ptr].id, st |-> Running]]
    /\ SetThread(t, Idle)
    /\ UNCHANGED <<registry, mu, work, owed>>

(* scheduler_finish_run on the live pipeline of a wait=true run: its         *)
(* arguments are read first, then the mutex is taken.                        *)
FinishArgs(t) ==
    LET p == pipelines[threads[t].ptr] IN
    /\ At(t, {"wait"}, "args")
    /\ SetThread(t, [threads[t] EXCEPT !.pc = "finish", !.run = p.id, !.st = p.status])
    /\ UNCHANGED <<registry, mu, tasks, work, owed>>

WriteBack(id, st) ==
    pipelines' = [i \in Places |-> IF i \in Find(id) THEN [id |-> id, status |-> st]
                                   ELSE pipelines[i]]

FinishRun(t) ==
    /\ At(t, {"wait"}, "finish")
    /\ MuFree
    /\ WriteBack(threads[t].run, threads[t].st)
    /\ SetThread(t, Idle)
    /\ UNCHANGED <<npipelines, mu, saved, tasks, work, owed>>

-----------------------------------------------------------------------------
(* pipeline_execute_steps on a pipeline of the registry *)

ExecStart(t) ==
    LET p == pipelines[threads[t].ptr] IN
    /\ threads[t].pc = "start"
    /\ SetThread(t, [threads[t] EXCEPT !.pc = "exec", !.run = p.id])
    /\ Owe(p.id, -1)
    /\ UNCHANGED <<registry, mu, tasks, work>>

(* The end of the execution: run_status is set, and the caller goes on.      *)
(* scheduler_run_pipeline_now releases s->mu; the webhook handler then       *)
(* executes once more by itself; the cron loop looks at the next pipeline.   *)
MuAfterRun(t) == IF mu = t /\ t # Cron THEN NoThread ELSE mu
StatusAfterExec(i, st) == UNCHANGED pipelines                     \* mutant
ExecutedStatus(i, st) == SetStatus(i, st)

AfterExecWatchTwice(t) ==                                         \* mutant
    IF threads[t].op \in {"webhook", "watch"} /\ mu = t
    THEN [threads[t] EXCEPT !.pc = "start", !.run = NoId] ELSE Idle
AfterExecWaitAgain(t) ==                                          \* mutant
    CASE threads[t].op = "wait" -> [threads[t] EXCEPT !.run = NoId]
      [] threads[t].op = "cron" -> [threads[t] EXCEPT !.pc = "scan", !.ptr = @ + 1, !.run = NoId]
      [] OTHER -> Idle
AfterExec(t) ==
    CASE threads[t].op = "wait" -> [threads[t] EXCEPT !.pc = "args", !.run = NoId]
      [] threads[t].op = "cron" -> [threads[t] EXCEPT !.pc = "scan", !.ptr = @ + 1, !.run = NoId]
      [] threads[t].op = "webhook" /\ mu = t -> [threads[t] EXCEPT !.pc = "start", !.run = NoId]
      [] OTHER -> Idle

ExecEnd(t, st) ==
    /\ threads[t].pc = "exec"
    /\ ExecutedStatus(threads[t].ptr, st)
    /\ mu' = MuAfterRun(t)
    /\ SetThread(t, AfterExec(t))
    /\ UNCHANGED <<npipelines, saved, tasks, work, owed>>

(* scheduler_run_pipeline_now, for a webhook or an arrived file.             *)
RunNow(t) ==
    /\ At(t, {"webhook", "watch"}, "go")
    /\ MuFree
    /\ mu' = t
    /\ SetStatus(threads[t].ptr, Running)
    /\ Owe(threads[t].id, 1)
    /\ Go(t, "start")
    /\ UNCHANGED <<npipelines, saved, tasks, work>>

-----------------------------------------------------------------------------
(* run_task_fn, on a worker *)

TaskStart(k) ==
    /\ tasks[k].pc = "queued"
    /\ tasks' = [tasks EXCEPT ![k].pc = "exec"]
    /\ Owe(tasks[k].id, -1)
    /\ UNCHANGED <<registry, mu, threads, work>>

TaskEnd(k, st) ==
    /\ tasks[k].pc = "exec"
    /\ tasks' = [tasks EXCEPT ![k] = [@ EXCEPT !.pc = "finish", !.st = st]]
    /\ UNCHANGED <<registry, mu, threads, work, owed>>

TaskFinish(k) ==
    /\ tasks[k].pc = "finish"
    /\ MuFree
    /\ WriteBack(tasks[k].id, tasks[k].st)
    /\ tasks' = [tasks EXCEPT ![k].pc = "done"]
    /\ UNCHANGED <<npipelines, mu, saved, threads, work, owed>>

-----------------------------------------------------------------------------
(* sched_loop: one pass over the registry under s->mu *)

CronLock ==
    /\ "cron" \in mix
    /\ threads[Cron] = Idle
    /\ MuFree
    /\ mu' = Cron
    /\ SetThread(Cron, [Idle EXCEPT !.op = "cron", !.pc = "scan", !.ptr = 1])
    /\ UNCHANGED <<registry, tasks, work, owed>>

CronSkip ==
    /\ At(Cron, {"cron"}, "scan")
    /\ threads[Cron].ptr <= npipelines
    /\ SetThread(Cron, [threads[Cron] EXCEPT !.ptr = @ + 1])
    /\ UNCHANGED <<registry, mu, tasks, work, owed>>

CronFire ==
    LET i == threads[Cron].ptr IN
    /\ At(Cron, {"cron"}, "scan")
    /\ i <= npipelines
    /\ pipelines[i].status # Running
    /\ requests < MaxRequests
    /\ requests' = requests + 1
    /\ SetStatus(i, Running)
    /\ Owe(pipelines[i].id, 1)
    /\ Go(Cron, "start")
    /\ UNCHANGED <<npipelines, mu, saved, tasks, mix>>

CronUnlock ==
    /\ At(Cron, {"cron"}, "scan")
    /\ threads[Cron].ptr > npipelines
    /\ mu' = NoThread
    /\ SetThread(Cron, Idle)
    /\ UNCHANGED <<registry, tasks, work, owed>>

-----------------------------------------------------------------------------
(* DELETE /api/pipelines/:id after its check (the engine tables it drops are *)
(* left out), and POST /api/pipelines: the scheduler, then the catalog.      *)

RemovedAt(i) == [pipelines EXCEPT ![i] = pipelines[npipelines]]

Remove(t) ==
    LET id == threads[t].id IN
    /\ At(t, {"delete"}, "go")
    /\ MuFree
    /\ \/ \E i \in Find(id) : pipelines' = RemovedAt(i) /\ npipelines' = npipelines - 1
       \/ Find(id) = {} /\ UNCHANGED <<pipelines, npipelines>>
    /\ Go(t, "catalog")
    /\ UNCHANGED <<mu, saved, tasks, work, owed>>

Add(t) ==
    /\ At(t, {"create"}, "find")
    /\ MuFree
    /\ IF npipelines < Capacity
       THEN /\ pipelines' = [pipelines EXCEPT ![npipelines + 1] =
                                [id |-> threads[t].id, status |-> "idle"]]
            /\ npipelines' = npipelines + 1
       ELSE UNCHANGED <<pipelines, npipelines>>
    /\ Go(t, "catalog")
    /\ UNCHANGED <<mu, saved, tasks, work, owed>>

Catalog(t) ==
    LET id == threads[t].id IN
    /\ At(t, {"create", "delete"}, "catalog")
    /\ saved' = IF threads[t].op = "create" THEN saved \union {id} ELSE saved \ {id}
    /\ SetThread(t, Idle)
    /\ UNCHANGED <<pipelines, npipelines, mu, tasks, work, owed>>

-----------------------------------------------------------------------------
Local(t) ==
    \/ Check(t) \/ MarkRunning(t) \/ CopyAndSubmit(t) \/ FinishArgs(t) \/ Catalog(t)
    \/ ExecStart(t)
    \/ \E st \in Final : ExecEnd(t, st)
Locking(t) == FindPipeline(t) \/ FinishRun(t) \/ RunNow(t) \/ Remove(t) \/ Add(t)
CronScan == CronSkip \/ CronFire \/ CronUnlock
Task(k) == TaskStart(k) \/ TaskFinish(k) \/ \E st \in Final : TaskEnd(k, st)

Next ==
    \/ \E t \in Https, op \in {"run", "wait", "webhook", "delete", "create"}, id \in Ids :
            Arrive(t, op, id)
    \/ \E id \in Ids : Arrive(Watcher, "watch", id)
    \/ \E t \in Threads : Local(t) \/ Locking(t)
    \/ \E k \in Keys : Task(k)
    \/ CronLock \/ CronScan

(* Threads run, executions end, and the mutex is given in the end to each    *)
(* thread that waits for it.  Nothing is asked of the workers.               *)
Fairness ==
    /\ \A t \in Threads : WF_vars(Local(t)) /\ SF_vars(Locking(t))
    /\ WF_vars(CronScan)

Spec == Init /\ [][Next]_vars
FairSpec == Spec /\ Fairness

-----------------------------------------------------------------------------
(* Properties *)

Statuses == {"idle", Running} \union Final
TypeOK ==
    /\ pipelines \in [Places -> [id : Ids \union {NoId}, status : Statuses]]
    /\ npipelines \in 0..Capacity
    /\ \A i \in 1..npipelines : pipelines[i].id # NoId
    /\ mu \in Threads \union {NoThread}
    /\ saved \subseteq Ids
    /\ threads \in [Threads ->
            [op : AllOps \union {"none"}, id : Ids \union {NoId}, ptr : 0..(Capacity + 1),
             pc : {"idle", "find", "check", "go", "copy", "start", "exec", "args", "finish",
                   "scan", "catalog"},
             run : Ids \union {NoId}, st : Statuses]]
    /\ tasks \in [Keys -> [pc : {"none", "queued", "exec", "finish", "done"},
                           asked : Ids \union {NoId}, id : Ids \union {NoId}, st : Statuses]]
    /\ mix \in Mixes
    /\ requests \in 0..MaxRequests
    /\ owed \in [Ids -> Int]

Quiet ==
    /\ \A t \in Threads : threads[t].pc = "idle"
    /\ \A k \in Keys : tasks[k].pc \in {"none", "done"}

(* A registered pipeline leaves the registry only by a DELETE of its own id: *)
(* the compaction loses no other (scheduler.c:491).                          *)
OnlyItsDeleteRemoves ==
    [][\A id \in Registered \ Registered' :
        \E t \in Https : At(t, {"delete"}, "go") /\ threads[t].id = id]_vars

(* Once everything in flight is over no pipeline is left RUNNING, which      *)
(* would answer 409 to every run and be skipped by cron for ever             *)
(* (api.c:7759, scheduler.c:454).  Runs with wait=true, and removals, which  *)
(* move what the handlers point to, are excepted.                            *)
NoPipelineStaysRunning ==
    (Quiet /\ mix \intersect {"wait", "delete"} = {}) =>
        \A i \in 1..npipelines : pipelines[i].status # Running

(* Once everything in flight is over, each accepted run has been executed    *)
(* exactly once, whichever of the threads raced for it (api.c:7780).         *)
(* Webhooks, and removals again, are excepted.                               *)
AcceptedRunsOnce ==
    (Quiet /\ mix \intersect {"webhook", "delete"} = {}) => \A id \in Ids : owed[id] = 0

(* Every request and trigger is answered, though runs hold s->mu: the one    *)
(* that holds it never waits for it (scheduler.c:564-570).                   *)
EveryRequestAnswered ==
    \A t \in Threads : threads[t].pc # "idle" ~> threads[t].pc = "idle"

-----------------------------------------------------------------------------
(* What docs and comments promise and the code does not keep.                *)

RunsOf(id) ==
    {<<"thread", t>> : t \in {u \in Threads : threads[u].pc = "exec" /\ threads[u].run = id}}
    \union {<<"task", k>> : k \in {j \in Keys : tasks[j].pc = "exec" /\ tasks[j].id = id}}

(* "409: Pipeline is already running" (docs/TRIGGERS.md:58): no pipeline has *)
(* two executions under way.                                                 *)
OneRunAtATime == \A id \in Ids : Cardinality(RunsOf(id)) <= 1

(* "on_run must not do the work synchronously" (scheduler.c:430-432).        *)
NoRunUnderTheMutex == \A t \in Threads : mu = t => threads[t].pc # "exec"

(* A webhook "looks up a pipeline by its token, fires it" (api.c:7897): one  *)
(* run for one call.                                                         *)
WebhookRunsOnce == Quiet => \A id \in Ids : owed[id] >= 0

(* "Refuse to delete while a run is in flight" (api.c:7850): what executes   *)
(* is registered.                                                            *)
RunsAreRegistered == \A id \in Ids \ Registered : RunsOf(id) = {}

(* "The same POST serves as the update" (api.c:4746): one entry for an id.   *)
OneEntryPerId ==
    \A i, j \in 1..npipelines : pipelines[i].id = pipelines[j].id => i = j

(* "SAVES it (catalog + scheduler)" (api.c:4997): the two agree once         *)
(* everything in flight is over.                                             *)
CatalogAgrees == Quiet => Registered = saved

(* "The copy is self-contained, immune to concurrent add/remove"             *)
(* (api.c:7756-7759): the task runs the pipeline the request named.          *)
TaskIsThePipelineAsked == \A k \in Keys : tasks[k].id = tasks[k].asked

(* wait=true "returns only after it finishes, with the terminal status"      *)
(* (api.c:7786-7788): what it writes back is a terminal status.              *)
WaitWritesTerminalStatus ==
    \A t \in Threads : At(t, {"wait"}, "finish") => threads[t].st \in Final

=============================================================================
