----------------------------- MODULE Connections ------------------------------
(***************************************************************************)
(* The directory of connections (the h_connection handlers, conn_save,     *)
(* conn_set_disabled, api_conn_pool_maintain of src/gateway/api.c) beside  *)
(* the pool of sessions: operators edit forms that show the mask of a      *)
(* secret instead of it, connect and disconnect, the keep-alive thread     *)
(* warms sessions up from a list it has read, and steps of pipelines are   *)
(* given sessions opened with the directory's settings laid over theirs.   *)
(*                                                                         *)
(* Settings are a function from keys to values; a key is [name, spelling], *)
(* the spellings of one property share the name.  What the pool does about *)
(* its places and waiters is in ConnPool.                                  *)
(***************************************************************************)
EXTENDS Naturals, Sequences, FiniteSets, SequencesExt

CONSTANTS
    Order,     \* the ids of the directory, in the order it lists them
    Forms,     \* settings a connection may be created with
    Typed,     \* secrets an operator may type
    StepConfigs,   \* settings of the steps
    Clients,   \* requests and pipeline runs
    Sweeper,   \* the keep-alive thread
    MAX_WARMUP_PER_TICK,
    MaxJobs    \* bound on the jobs begun

VARIABLES
    directory,  \* id -> record [cfg, disabled], or Absent
    pool,       \* the sessions: [conn, cfg, by, opening, dead]
    job,        \* what each client and the thread is doing
    typed,      \* history: the secrets typed for each id ("": created without)
    jobs

(* Settings are functions of keys, in snake case, dotted, or with a prefix;   *)
(* no request and no run is the thread.                                      *)
Key == [name : STRING, spelling : {"_", ".", "kafka."}]
Nobody == "nobody"
ASSUME ConnectionsAssumption ==
    /\ Sweeper \notin Clients /\ Nobody \notin Clients \union {Sweeper}
    /\ \A f \in Forms : \A k \in DOMAIN f : k \in Key

connVars == <<directory, pool, job, typed, jobs>>

-----------------------------------------------------------------------------
Mask == "********"
Absent == [cfg |-> <<>>, disabled |-> TRUE, none |-> TRUE]
Record(c, off) == [cfg |-> c, disabled |-> off, none |-> FALSE]
Conns == {Order[i] : i \in DOMAIN Order}
Resting == [do |-> "", at |-> "", conn |-> Order[1], body |-> <<>>, rec |-> Absent, todo |-> <<>>, left |-> 0]

IsSecret(k) == k.name = "sasl_password"
IsDestination(k) == k.name = "brokers"

(* conn_cfg_get_canon: the value of the property, however it is spelled.     *)
GetCanon(cfg, k) ==
    IF k \in DOMAIN cfg THEN cfg[k]
    ELSE IF \E h \in DOMAIN cfg : h.name = k.name THEN cfg[CHOOSE h \in DOMAIN cfg : h.name = k.name]
    ELSE ""

(* What a reader is shown, and what is kept of what comes back.              *)
ConfigMasked(cfg) == [k \in DOMAIN cfg |-> IF IsSecret(k) /\ cfg[k] # "" THEN Mask ELSE cfg[k]]
ConfigMergedExact(incoming, stored) ==
    [k \in DOMAIN incoming |->
        IF IsSecret(k) /\ incoming[k] \in {"", Mask} THEN (IF k \in DOMAIN stored THEN stored[k] ELSE "")
        ELSE incoming[k]]
ConfigMerged(incoming, stored) ==
    [k \in DOMAIN incoming |->
        IF IsSecret(k) /\ incoming[k] \in {"", Mask} THEN GetCanon(stored, k) ELSE incoming[k]]

(* conn_merge_config_ex with the directory as the base: secrets and the      *)
(* destination are the directory's, the rest is the step's.                  *)
Held(base, k) == IsSecret(k) /\ GetCanon(base, k) # ""
Over(base, over) ==
    {k \in DOMAIN over : over[k] # Mask /\ ~IsDestination(k) /\ ~Held(base, k)}
Effective(base, over) ==
    [k \in (DOMAIN base) \union Over(base, over) |->
        IF k \in DOMAIN base /\ (k \notin DOMAIN over \/ over[k] = Mask \/ IsSecret(k) \/ IsDestination(k))
        THEN base[k] ELSE over[k]]

-----------------------------------------------------------------------------
(* The pool.                                                                 *)
Live(c) == \E s \in pool : s.conn = c /\ ~s.opening
PoolInvalidated(c) ==
    {IF s.conn = c THEN [s EXCEPT !.dead = TRUE] ELSE s : s \in {s \in pool : s.conn # c \/ s.by # Nobody}}
ReusableAnyCfg(s, c, cfg) == s.conn = c /\ s.by = Nobody
Reusable(s, c, cfg) == s.conn = c /\ s.by = Nobody /\ s.cfg = cfg
Outdated(c, cfg) == {s \in pool : s.conn = c /\ s.by = Nobody /\ s.cfg # cfg}

Acquire(a, c, cfg) ==
    \/ \E s \in pool : /\ Reusable(s, c, cfg)
                       /\ pool' = (pool \ {s}) \union {[s EXCEPT !.by = a]}
                       /\ job' = [job EXCEPT ![a].at = "use"]
    \/ /\ ~ \E s \in pool : Reusable(s, c, cfg)
       /\ pool' = (pool \ Outdated(c, cfg)) \union
                    {[conn |-> c, cfg |-> cfg, by |-> a, opening |-> TRUE, dead |-> FALSE]}
       /\ job' = [job EXCEPT ![a].at = "open"]

Rest(a) == job' = [job EXCEPT ![a] = Resting]
GoesOn(a) == IF a = Sweeper THEN job' = [job EXCEPT ![a].at = "next"] ELSE Rest(a)

(* slot_open: the slot's fingerprint is written after the connector is       *)
(* loaded, over an invalidation that came before.                            *)
Opened(a) ==
    /\ job[a].at = "open"
    /\ \E s \in pool :
        /\ s.by = a
        /\ \/ /\ pool' = pool \ {s}
              /\ GoesOn(a)
           \/ /\ \E d \in {s.dead, FALSE} : pool' = (pool \ {s}) \union {[s EXCEPT !.opening = FALSE, !.dead = d]}
              /\ job' = [job EXCEPT ![a].at = "use"]
    /\ UNCHANGED <<directory, typed, jobs>>

Release(a) ==
    /\ job[a].at = "use"
    /\ \E s \in pool, healthy \in IF job[a].do = "run" THEN BOOLEAN ELSE {TRUE} :
        /\ s.by = a
        /\ pool' = (pool \ {s}) \union {r \in {[s EXCEPT !.by = Nobody]} : healthy /\ ~s.dead}
    /\ GoesOn(a)
    /\ UNCHANGED <<directory, typed, jobs>>

AcquireNow(a) ==
    /\ job[a].at = "acquire"
    /\ Acquire(a, job[a].conn, job[a].body)
    /\ UNCHANGED <<directory, typed, jobs>>

-----------------------------------------------------------------------------
(* The handlers.                                                             *)
Begin(a, j) ==
    /\ job[a] = Resting /\ jobs < MaxJobs
    /\ jobs' = jobs + 1
    /\ job' = [job EXCEPT ![a] = j]

(* A form: what GET showed, with a secret typed or with the key respelled.   *)
Respelled(cfg) ==
    [k \in {[h EXCEPT !.spelling = "_"] : h \in DOMAIN cfg} |-> GetCanon(cfg, k)]
Edited(cfg) ==
    {Respelled(cfg)} \union {[k \in DOMAIN cfg |-> IF IsSecret(k) THEN p ELSE cfg[k]] : p \in Typed}

Create(a, c) ==
    /\ \E f \in Forms : Begin(a, [Resting EXCEPT !.do = "create", !.at = "save", !.conn = c, !.body = f])
    /\ UNCHANGED <<directory, pool, typed>>
OpenForm(a, c) ==
    /\ ~directory[c].none
    /\ \E f \in Edited(ConfigMasked(directory[c].cfg)) :
          Begin(a, [Resting EXCEPT !.do = "update", !.at = "load", !.conn = c, !.body = f])
    /\ UNCHANGED <<directory, pool, typed>>
Ask(a, c) ==
    /\ \E d \in {"connect", "disconnect"} : Begin(a, [Resting EXCEPT !.do = d, !.at = "load", !.conn = c])
    /\ UNCHANGED <<directory, pool, typed>>
Delete(a, c) ==
    /\ Begin(a, [Resting EXCEPT !.do = "delete", !.at = "invalidate", !.conn = c])
    /\ directory' = [directory EXCEPT ![c] = Absent]
    /\ UNCHANGED <<pool, typed>>

(* catalog_load_connection.                                                  *)
Load(a) ==
    /\ job[a].at = "load"
    /\ \E r \in {directory[job[a].conn]} :
        IF r.none THEN Rest(a) ELSE job' = [job EXCEPT ![a].rec = r, ![a].at = "save"]
    /\ UNCHANGED <<directory, pool, typed, jobs>>

(* catalog_save_connection: the record as it was read, or the form over it.  *)
Saved(j) ==
    CASE j.do = "connect" -> Record(j.rec.cfg, FALSE)
      [] j.do = "disconnect" -> Record(j.rec.cfg, TRUE)
      [] OTHER -> Record(ConfigMerged(j.body, j.rec.cfg), FALSE)
SecretOf(cfg) == GetCanon(cfg, [name |-> "sasl_password", spelling |-> "_"])
SecretsIn(cfg) == {SecretOf(cfg)} \union {cfg[k] : k \in {k \in DOMAIN cfg : IsSecret(k)}}
TypedIn(j) == SecretsIn(j.body) \ {"", Mask}
Save(a) ==
    /\ job[a].at = "save"
    /\ \E j \in {job[a]} :
        /\ directory' = [directory EXCEPT ![j.conn] = Saved(j)]
        /\ typed' = [typed EXCEPT ![j.conn] =
                        CASE j.do = "create" -> @ \union SecretsIn(ConfigMerged(j.body, <<>>))
                          [] j.do = "update" -> @ \union TypedIn(j)
                          [] OTHER -> @]
        /\ job' = [job EXCEPT ![a].at = IF j.do = "connect" THEN "reload" ELSE "invalidate"]
    /\ UNCHANGED <<pool, jobs>>

InvalidateSessions(a) ==
    /\ job[a].at = "invalidate"
    /\ pool' = PoolInvalidated(job[a].conn)
    /\ Rest(a)
    /\ UNCHANGED <<directory, typed, jobs>>

(* h_connection_connect reads the record again for its settings.             *)
Reload(a) ==
    /\ job[a].at = "reload"
    /\ \E r \in {directory[job[a].conn]} :
        IF r.none THEN Rest(a)
        ELSE job' = [job EXCEPT ![a].rec = r, ![a].body = r.cfg, ![a].at = "acquire"]
    /\ UNCHANGED <<directory, pool, typed, jobs>>

(* step_effective_connector, step_conn_open.                                 *)
Resolve(a, c) ==
    /\ \E s \in StepConfigs, r \in {directory[c]} :
        /\ ~r.none
        /\ Begin(a, [Resting EXCEPT !.do = "run", !.at = "acquire", !.conn = c, !.rec = r,
                            !.body = Effective(r.cfg, s)])
    /\ UNCHANGED <<directory, pool, typed>>

(* api_conn_pool_maintain: the list is read once.                            *)
Sweep(a) ==
    /\ a = Sweeper
    /\ Begin(a, [Resting EXCEPT !.do = "sweep", !.at = "next", !.left = MAX_WARMUP_PER_TICK,
                    !.todo = SelectSeq([i \in DOMAIN Order |-> [conn |-> Order[i], rec |-> directory[Order[i]]]],
                                       LAMBDA t : ~t.rec.none)])
    /\ UNCHANGED <<directory, pool, typed>>
WarmUp(a) ==
    /\ job[a].at = "next"
    /\ IF job[a].todo = <<>> \/ job[a].left = 0 THEN Rest(a)
       ELSE \E t \in {Head(job[a].todo)} :
              IF t.rec.disabled \/ Live(t.conn) THEN job' = [job EXCEPT ![a].todo = Tail(@)]
              ELSE job' = [job EXCEPT ![a].todo = Tail(@), ![a].left = @ - 1, ![a].conn = t.conn,
                                      ![a].rec = t.rec, ![a].body = t.rec.cfg, ![a].at = "acquire"]
    /\ UNCHANGED <<directory, pool, typed, jobs>>

(* The gateway starts with the directory the catalog kept.                   *)
Kept == {Absent} \union {Record(ConfigMerged(f, <<>>), FALSE) : f \in Forms}
DirectoryInit ==
    /\ directory \in [Conns -> Kept]
    /\ pool = {}
    /\ job = [a \in Clients \union {Sweeper} |-> Resting]
    /\ typed = [c \in Conns |-> IF directory[c].none THEN {} ELSE SecretsIn(directory[c].cfg)]
    /\ jobs = 0

DirectoryRequest(a) == \E c \in Conns : Create(a, c) \/ OpenForm(a, c) \/ Ask(a, c) \/ Delete(a, c) \/ Resolve(a, c)
Continue(a) ==
    Load(a) \/ Save(a) \/ InvalidateSessions(a) \/ Reload(a) \/ AcquireNow(a) \/ Opened(a) \/ Release(a) \/ WarmUp(a)
DirectoryNext == (\E a \in Clients : DirectoryRequest(a)) \/ Sweep(Sweeper) \/ (\E a \in Clients \union {Sweeper} : Continue(a))

DirectorySpec == DirectoryInit /\ [][DirectoryNext]_connVars

-----------------------------------------------------------------------------
(* Forms carry the mask back instead of the secret, under any spelling of    *)
(* its key, requests load and save without a lock, and flags are written     *)
(* with the whole record: what the directory holds as the secret of a        *)
(* connection, under each spelling, is something typed for it, never the     *)
(* mask and never lost (conn_write_config_merged, conn_set_disabled).        *)
SecretWasTyped ==
    \A c \in Conns : ~directory[c].none => SecretsIn(directory[c].cfg) \subseteq typed[c] \ {Mask}

(* Sessions outlive the settings they were opened with, and are opened       *)
(* outside the lock while the directory changes: a run works in a session    *)
(* that has the secret and the address the directory had when the run looked *)
(* (step_effective_connector, conn_pool_acquire).                            *)
RunsUseTheDirectory ==
    \A a \in Clients : \A s \in pool :
        (job[a].do = "run" /\ job[a].at = "use" /\ s.by = a) =>
            \A k \in DOMAIN job[a].rec.cfg :
                (IsSecret(k) \/ IsDestination(k)) => GetCanon(s.cfg, k) = job[a].rec.cfg[k]

-----------------------------------------------------------------------------
(* What comments say and the code does not keep.                             *)
AllRest == \A a \in DOMAIN job : job[a] = Resting

(* api.c:9317-9321: disconnecting must outlive the sweep: a sweep under way  *)
(* has read its list before, a run does not look at the flag.                *)
DisabledHasNoSession == AllRest => \A c \in Conns : directory[c].disabled => ~Live(c)

(* api.c:9162-9163: sessions of the former settings are torn down.           *)
SessionsAreCurrent ==
    AllRest => \A s \in pool : \E p \in StepConfigs \union {<<>>} : s.cfg = Effective(directory[s.conn].cfg, p)

(* conn_save drops the flag: a saved form connects what was disconnected.    *)
DisabledUntilConnected ==
    [][\A c \in Conns : (directory[c].disabled /\ ~directory[c].none /\ ~directory'[c].disabled) =>
          \E a \in Clients : job[a].at = "save" /\ job[a].do \in {"connect", "create"}]_connVars
=============================================================================
