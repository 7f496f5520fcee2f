------------------------------- MODULE MatView -------------------------------
(***************************************************************************)
(* Materialised views (lib/matview/matview.c) with the code that writes    *)
(* their tables (write_rs_to_table, matview_exec_fn) and the thread that   *)
(* refreshes them (mv_ticker_loop).  The content of a table is the number  *)
(* of the write that filled it; of a view, the contents it was made from;  *)
(* <<>> is a table that was recreated and not filled yet.  The history of  *)
(* refreshes, metrics and JSON are left out; the queue's 64 places are     *)
(* more than the views of an instance, and a view keeps its mode.          *)
(***************************************************************************)
EXTENDS Integers, Sequences, FiniteSets

CONSTANTS
    Tables, Views,   \* base tables, and views: the names of tables too
    Sources,         \* [Views -> sequence of the tables its SQL reads]
    Hits,            \* [Views -> names found, as text, in its source_tables]
    Mode,            \* [Views -> {"manual", "on_write", "schedule"}]
    Workers,         \* threads of requests and pipeline runs
    MaxEvents        \* bound: requests, writes, errors and restarts together

Names == Tables \cup Views
Reads(v) == {Sources[v][i] : i \in DOMAIN Sources[v]}

(* The views that are in scope: source_tables, which a creator sends with the *)
(* SQL, has what that reads, and no view is over itself, directly or through  *)
(* others.  Both are up to the creator: api.c:8875-8902 compares nothing.     *)
ASSUME MatViewAssumption ==
    /\ Tables \cap Views = {} /\ IsFiniteSet(Views)
    /\ Sources \in [Views -> Seq(Names)] /\ \A v \in Views : Reads(v) \subseteq Hits[v]
    /\ \E rank \in [Names -> 0..Cardinality(Views)] :
            \A v \in Views : \A t \in Reads(v) : rank[t] < rank[v]

VARIABLES
    tables,      \* names in the catalog
    content,     \* [Tables \cup Views -> content]
    filler,      \* [Tables \cup Views -> thread whose recreate_table was the last]
    defined,     \* rows of matviews
    is_stale,    \* [Views -> BOOLEAN]
    pending,     \* pending_refresh
    doing,       \* [thread -> what it does]
    tick,        \* mvs_tick: [stage, todo]
    events,
    failed,      \* views whose automatic refresh was lost: an error, a crash
    muddled      \* views whose refresh overlapped a change it did not see

mvVars == <<tables, content, filler, defined, is_stale, pending, doing, tick,
            events, failed, muddled>>

Ticker == "ticker"
Threads == Workers \cup {Ticker}
Idle == [task |-> "none", on |-> "", phase |-> "idle", rows |-> <<>>, refs |-> {}]
NoTick == [stage |-> "due", todo |-> {}]

TypeOK ==
    /\ tables \subseteq Names /\ defined \subseteq Views /\ pending \subseteq Views
    /\ failed \subseteq Views /\ muddled \subseteq Views
    /\ is_stale \in [Views -> BOOLEAN] /\ tick.todo \subseteq Views
    /\ \A th \in Threads : doing[th].on \in Names \cup {""}

At(th, phase) == doing[th].phase = phase
Free(th) == At(th, "idle")
To(th, phase) == doing' = [doing EXCEPT ![th].phase = phase]
Read(v) == [i \in DOMAIN Sources[v] |-> content[Sources[v][i]]]

Refreshing(th, v) == doing[th].task = "refresh" /\ doing[th].on = v
HasRead(th, v) == Refreshing(th, v) /\ doing[th].phase # "exec"
(* The views a change of the content of t catches between read and outcome.  *)
Caught(t) == {v \in Views : t \in Reads(v) /\ \E th \in Threads : HasRead(th, v)}

Event == events < MaxEvents /\ events' = events + 1

(* app.tables[t] is filled anew; the contents of the database change.        *)
Fill(t, c) == content' = [content EXCEPT ![t] = c] /\ muddled' = muddled \cup Caught(t)

-----------------------------------------------------------------------------
(* write_rs_to_table, by a pipeline step or for a refresh                    *)

StartWrite(w, t) ==
    /\ Free(w) /\ Event
    /\ doing' = [doing EXCEPT ![w] =
                    [Idle EXCEPT !.task = "write", !.on = t, !.phase = "recreate", !.rows = <<events + 1>>]]
    /\ UNCHANGED <<tables, content, filler, defined, is_stale, pending, tick, failed, muddled>>

RecreateTable(th) ==
    /\ At(th, "recreate") /\ To(th, "append")
    /\ Fill(doing[th].on, <<>>)
    /\ filler' = [filler EXCEPT ![doing[th].on] = th]
    /\ tables' = tables \cup {doing[th].on}
    /\ UNCHANGED <<defined, is_stale, pending, tick, events, failed>>

(* The rows go to the file this thread created: lost if it was replaced.     *)
AppendRows(th) ==
    /\ At(th, "append")
    /\ doing' = [doing EXCEPT ![th].phase = "invalidate", ![th].rows = <<>>]
    /\ IF filler[doing[th].on] = th
       THEN Fill(doing[th].on, doing[th].rows) /\ filler' = [filler EXCEPT ![doing[th].on] = ""]
       ELSE UNCHANGED <<content, filler, muddled>>
    /\ UNCHANGED <<tables, defined, is_stale, pending, tick, events, failed>>

Parked(th, phase) ==
    doing' = [doing EXCEPT ![th] = IF phase = "idle" THEN Idle ELSE [@ EXCEPT !.phase = phase]]

(* mvs_invalidate: only the views that are not stale yet, under mu ..        *)
DependsOnWriteOnly(v, t) == v \in defined /\ ~is_stale[v] /\ t \in Hits[v] /\ Mode[v] = "on_write"  \* mutant
Depends(v, t) == v \in defined /\ ~is_stale[v] /\ t \in Hits[v]
Invalidated(t) == {v \in Views : Depends(v, t)}
Invalidate(th) ==
    /\ At(th, "invalidate")
    /\ is_stale' = [v \in Views |-> is_stale[v] \/ Depends(v, doing[th].on)]
    /\ doing' = [doing EXCEPT ![th].phase = "queue",
                              ![th].refs = {v \in Invalidated(doing[th].on) : Mode[v] = "on_write"}]
    /\ UNCHANGED <<tables, content, filler, defined, pending, tick, events, failed, muddled>>
(* .. then those of mode on_write go into the queue, under pending_mu.       *)
Enqueue(th) ==
    /\ At(th, "queue")
    /\ pending' = pending \cup doing[th].refs
    /\ doing' = [doing EXCEPT ![th] =
                    IF @.task = "refresh" THEN [@ EXCEPT !.phase = "outcome", !.refs = {}] ELSE Idle]
    /\ UNCHANGED <<tables, content, filler, defined, is_stale, tick, events, failed, muddled>>

(* Rows that come another way (DML, ingest, a connector step) tell no view.  *)
OtherWrite(t) ==
    /\ t \in tables /\ Event
    /\ content' = [content EXCEPT ![t] = <<events + 1>>]
    /\ muddled' = muddled \cup {v \in Views : t \in Reads(v)}
    /\ UNCHANGED <<tables, filler, defined, is_stale, pending, doing, tick, failed>>

-----------------------------------------------------------------------------
(* mvs_refresh, of a handler or of the ticker, of a view that is there       *)

Refresh(v) == [Idle EXCEPT !.task = "refresh", !.on = v, !.phase = "exec"]
StartRefresh(w, v) ==
    /\ Free(w) /\ v \in defined /\ Event
    /\ doing' = [doing EXCEPT ![w] = Refresh(v)]
    /\ UNCHANGED <<tables, content, filler, defined, is_stale, pending, tick, failed, muddled>>
(* h_matview_create: mvs_create_view, then the first refresh                 *)
CreateView(w, v) ==
    /\ Free(w) /\ Event
    /\ defined' = defined \cup {v}
    /\ is_stale' = [is_stale EXCEPT ![v] = TRUE]
    /\ failed' = failed \ {v}
    /\ doing' = [doing EXCEPT ![w] = Refresh(v)]
    /\ UNCHANGED <<tables, content, filler, pending, tick, muddled>>

(* matview_exec_fn: parse, execute; an error or a truncated result fails.    *)
AloneWith(th, v) == \A other \in Threads \ {th} : ~Refreshing(other, v)
ExecuteView(th) ==
    /\ At(th, "exec") /\ Reads(doing[th].on) \subseteq tables
    /\ doing' = [doing EXCEPT ![th].phase = "recreate", ![th].rows = Read(doing[th].on)]
    /\ muddled' = IF AloneWith(th, doing[th].on) THEN muddled \ {doing[th].on}
                  ELSE muddled \cup {doing[th].on}
    /\ UNCHANGED <<tables, content, filler, defined, is_stale, pending, tick, events, failed>>
ExecuteFails(th) ==
    /\ At(th, "exec") /\ To(th, "error")
    /\ \/ ~(Reads(doing[th].on) \subseteq tables) /\ UNCHANGED events
       \/ Event
    /\ UNCHANGED <<tables, content, filler, defined, is_stale, pending, tick, failed, muddled>>

(* Success clears stale, whatever was invalidated meanwhile; failure sets it. *)
Outcome(th) ==
    /\ doing[th].phase \in {"outcome", "error"} /\ Parked(th, "idle")
    /\ is_stale' = [v \in Views |-> IF v = doing[th].on /\ v \in defined THEN At(th, "error") ELSE is_stale[v]]
    /\ failed' = IF At(th, "error") THEN failed \cup {doing[th].on} ELSE failed \ {doing[th].on}
    /\ UNCHANGED <<tables, content, filler, defined, pending, tick, events, muddled>>

-----------------------------------------------------------------------------
(* mvs_tick: the queue, then the scheduled views that are not stale          *)

TakeQueue ==
    /\ Free(Ticker) /\ tick = NoTick
    /\ tick' = [stage |-> "queued", todo |-> pending]
    /\ pending' = {}
    /\ UNCHANGED <<tables, content, filler, defined, is_stale, doing, events, failed, muddled>>
NextOfQueue(v) ==
    /\ Free(Ticker) /\ v \in tick.todo
    /\ tick' = [tick EXCEPT !.todo = @ \ {v}]
    /\ doing' = IF v \in defined THEN [doing EXCEPT ![Ticker] = Refresh(v)] ELSE doing
    /\ UNCHANGED <<tables, content, filler, defined, is_stale, pending, events, failed, muddled>>
(* Any set of them may be due.                                               *)
Schedulable(v) == v \in defined /\ Mode[v] = "schedule" /\ ~is_stale[v]
TakeDueClears(due) ==
    /\ Free(Ticker) /\ tick = [stage |-> "queued", todo |-> {}]
    /\ \A v \in due : Schedulable(v)
    /\ tick' = [stage |-> "due", todo |-> due] /\ pending' = {}      \* mutant
    /\ UNCHANGED <<tables, content, filler, defined, is_stale, doing, events, failed, muddled>>
TakeDue(due) ==
    /\ Free(Ticker) /\ tick = [stage |-> "queued", todo |-> {}]
    /\ \A v \in due : Schedulable(v)
    /\ tick' = [stage |-> "due", todo |-> due]
    /\ UNCHANGED <<tables, content, filler, defined, is_stale, pending, doing, events, failed, muddled>>

-----------------------------------------------------------------------------
(* h_matview_drop: the table unless another view reads it, then the row      *)

DropTable(w, v) ==
    /\ Free(w) /\ v \in defined /\ Event
    /\ tables' = IF \E u \in defined \ {v} : v \in Reads(u) THEN tables ELSE tables \ {v}
    /\ doing' = [doing EXCEPT ![w] = [Idle EXCEPT !.task = "drop", !.on = v, !.phase = "drop"]]
    /\ UNCHANGED <<content, filler, defined, is_stale, pending, tick, failed, muddled>>
DropView(th) ==
    /\ At(th, "drop") /\ Parked(th, "idle")
    /\ defined' = defined \ {doing[th].on}
    /\ is_stale' = [is_stale EXCEPT ![doing[th].on] = TRUE]     \* of no row any more
    /\ UNCHANGED <<tables, content, filler, pending, tick, events, failed, muddled>>

(* The process ends and starts again: definitions and tables are on disk,    *)
(* the queue is not.                                                         *)
Unsettled(t) == \E th \in Threads : doing[th].on = t /\ doing[th].phase \in {"append", "invalidate"}
Crash ==
    /\ Event
    /\ doing' = [th \in Threads |-> Idle] /\ tick' = NoTick /\ pending' = {}
    /\ failed' = failed \cup {v \in defined : is_stale[v]}
    /\ muddled' = muddled \cup {v \in Views : \/ \E t \in Reads(v) \cup {v} : Unsettled(t)
                                              \/ \E th \in Threads : HasRead(th, v)}
    /\ UNCHANGED <<tables, content, filler, defined, is_stale>>

-----------------------------------------------------------------------------

(* The process starts with views made from the tables as they are.           *)
Made[n \in Names] == IF n \in Tables THEN <<0>> ELSE [i \in DOMAIN Sources[n] |-> Made[Sources[n][i]]]
Init ==
    /\ tables = Names /\ content = Made /\ filler = [n \in Names |-> ""]
    /\ defined = Views /\ is_stale = [v \in Views |-> FALSE] /\ pending = {}
    /\ doing = [th \in Threads |-> Idle] /\ tick = NoTick
    /\ events = 0 /\ failed = {} /\ muddled = {}

(* What a thread goes on with once it began.                                 *)
Step(th) ==
    \/ RecreateTable(th) \/ AppendRows(th) \/ Invalidate(th) \/ Enqueue(th)
    \/ ExecuteView(th) \/ ExecuteFails(th) \/ Outcome(th) \/ DropView(th)
Tick ==
    \/ TakeQueue
    \/ \E v \in Views : NextOfQueue(v)
    \/ \E due \in SUBSET Views : TakeDue(due)
Request(w) ==
    \/ \E t \in Tables : StartWrite(w, t)
    \/ \E v \in Views : StartRefresh(w, v) \/ CreateView(w, v) \/ DropTable(w, v)
Next ==
    \/ \E th \in Threads : Step(th)
    \/ Tick
    \/ \E w \in Workers : Request(w)
    \/ \E t \in Tables : OtherWrite(t)
    \/ Crash

Spec == Init /\ [][Next]_mvVars
(* A thread goes on, and the ticker's loop comes round.                      *)
FairSpec == Spec /\ (\A th \in Threads : WF_mvVars(Step(th))) /\ WF_mvVars(Tick)

-----------------------------------------------------------------------------

(* A view that is not stale holds what its definition reads now, once the    *)
(* write of a source reached mvs_invalidate; but for changes nothing tells   *)
(* the view of: a write that is no write_rs_to_table, one that overlapped a  *)
(* refresh of the view, two refreshes at once, a crash in the middle.        *)
FreshIsCurrent ==
    \A v \in defined \ muddled :
        \/ is_stale[v] \/ \E th \in Threads : Refreshing(th, v)
        \/ \E t \in Reads(v) : Unsettled(t)
        \/ content[v] = Read(v)

(* A stale view of mode on_write is refreshed by itself, unless its refresh  *)
(* failed or a crash lost the queue.                                         *)
Waits(v) == v \in defined /\ Mode[v] = "on_write" /\ is_stale[v] /\ v \notin failed
OnWriteViewsCatchUp == \A v \in Views : Waits(v) ~> ~Waits(v)

(* What the code does not keep: every write of a source makes its views      *)
(* stale, and a view that is stale is refreshed sooner or later.             *)
FreshIsAlwaysCurrent ==
    \A v \in defined :
        \/ is_stale[v] \/ \E th \in Threads : Refreshing(th, v)
        \/ \E t \in Reads(v) : Unsettled(t)
        \/ content[v] = Read(v)
StaleViewsCatchUp ==
    \A v \in Views : (v \in defined /\ Mode[v] # "manual" /\ is_stale[v])
                        ~> ~(v \in defined /\ is_stale[v])
=============================================================================
