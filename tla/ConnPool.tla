------------------------------- MODULE ConnPool -------------------------------
(***************************************************************************)
(* lib/connector/conn_pool.c: the pool of persistent connector sessions.   *)
(* Connection threads and workers lease sessions (step_conn_open and       *)
(* step_conn_close of src/gateway/api.c), the connection ticker pings idle *)
(* ones, and an administrator edits or deletes directory entries, which    *)
(* invalidates the sessions opened from them.                              *)
(*                                                                         *)
(* Everything under p->mu is one action.  Two things run with the mutex    *)
(* released, on a slot marked leased: slot_open (SlotOpen, then OpenDone)  *)
(* and the keepalive ping (PingStart, then PingDone).  cond_wait is the    *)
(* state "waiting" of a thread, which only a broadcast ends.               *)
(*                                                                         *)
(* A configuration is what cfg_fingerprint tells apart: the version of the *)
(* directory entry and the overlay of the step merged over it.  The clock  *)
(* (retry throttle, idle time, least recently used) is a free choice.      *)
(***************************************************************************)
EXTENDS Integers, FiniteSets

CONSTANTS
    NSlots,      \* POOL_MAX_SLOTS
    MaxPerConn,  \* max_per_conn
    Threads,     \* threads that run steps or warm sessions up
    Conns,       \* ids of directory entries
    Overlays,    \* the steps' own connector_config, merged over the entry
    MaxVersion,  \* bound: edits of one directory entry
    MaxRequests, \* bound: acquisitions in one behaviour
    None         \* no fingerprint, no session, no connection

ASSUME ConnPoolAssumption ==
    /\ NSlots \in Nat \ {0}
    /\ MaxPerConn \in Nat \ {0}
    /\ MaxVersion \in Nat \ {0}
    /\ MaxRequests \in Nat
    /\ None \notin Conns
    /\ None \notin [version : 1..MaxVersion, overlay : Overlays]

VARIABLES
    slots,     \* ConnPool.slots
    threads,   \* what each client thread is doing
    pinging,   \* the slot conn_pool_tick has taken, 0 if none
    catalog,   \* the version of each directory entry, 0 once deleted
    pending,   \* the entry saved or deleted whose invalidation is still to run
    doomed,    \* history: who held a slot when it was found out of date
    requests   \* bound: acquisitions made so far

vars == <<slots, threads, pinging, catalog, pending, doomed, requests>>

Slots == 1..NSlots
Deleted == 0
Configs == [version : 1..MaxVersion, overlay : Overlays]

EmptySlot == [used |-> FALSE, conn |-> None, fp |-> None, inst |-> None,
              leased |-> FALSE, opening |-> FALSE, error |-> FALSE]
IdleThread == [pc |-> "idle", conn |-> None, cfg |-> None, slot |-> 0]

Init ==
    /\ slots = [s \in Slots |-> EmptySlot]
    /\ threads = [t \in Threads |-> IdleThread]
    /\ pinging = 0
    /\ catalog = [c \in Conns |-> 1]
    /\ pending = None
    /\ doomed = [s \in Slots |-> "no"]
    /\ requests = 0

-----------------------------------------------------------------------------
(* The scan of conn_pool_acquire for connection c with fingerprint f *)

Of(s, c, f) == slots[s].used /\ slots[s].conn = c /\ slots[s].fp = f
Outdated(s, c, f) == slots[s].used /\ slots[s].conn = c /\ slots[s].fp # f

LiveSharesLease(c, f) == {s \in Slots : Of(s, c, f) /\ slots[s].inst # None}    \* mutant
LiveIgnoresConfig(c, f) ==                                                      \* mutant
    {s \in Slots : slots[s].used /\ slots[s].conn = c /\ ~slots[s].leased /\ slots[s].inst # None}
Live(c, f) == {s \in Slots : Of(s, c, f) /\ ~slots[s].leased /\ slots[s].inst # None}
Dead(c, f) == {s \in Slots : Of(s, c, f) /\ ~slots[s].leased /\ slots[s].inst = None}
Mine(c, f) == {s \in Slots : Of(s, c, f)}

First(s, set) == s \in set /\ \A r \in set : s <= r

(* The slots after the scan has passed those below n: idle ones with another *)
(* configuration are freed, busy ones are left for their holder to return.   *)
Scanned(n, c, f) ==
    [s \in Slots |-> IF s < n /\ Outdated(s, c, f) /\ ~slots[s].leased
                     THEN EmptySlot ELSE slots[s]]
DoomedByScan(n, c, f) ==
    [s \in Slots |-> IF s < n /\ Outdated(s, c, f)
                     THEN IF ~slots[s].leased THEN "no"
                          ELSE IF doomed[s] = "no" THEN "skipped" ELSE doomed[s]
                     ELSE doomed[s]]

(* Where a new session may go: a free slot, else an idle one to evict.       *)
Room(sl) ==
    LET free == {s \in Slots : ~sl[s].used} IN
    IF free # {} THEN {s \in free : First(s, free)}
    ELSE {s \in Slots : ~sl[s].leased}

(* slot_open_unlocked up to the unlock.                                      *)
Reserved(slot, c, f) ==
    [used |-> TRUE, conn |-> c, fp |-> f, inst |-> None, leased |-> TRUE,
     opening |-> TRUE, error |-> slot.error]

-----------------------------------------------------------------------------
(* Client threads *)

SetThread(t, r) == threads' = [threads EXCEPT ![t] = r]

(* pthread_cond_broadcast(&p->cv)                                            *)
NobodyWoken(th) == th                                                           \* mutant
Woken(th) == [t \in Threads |-> IF th[t].pc = "waiting" THEN [th[t] EXCEPT !.pc = "want"]
                                ELSE th[t]]

(* The step (or the warm-up) reads the directory entry and merges its overlay. *)
Resolve(t, c, o) ==
    /\ threads[t].pc = "idle"
    /\ requests < MaxRequests
    /\ catalog[c] # Deleted
    /\ requests' = requests + 1
    /\ SetThread(t, [pc |-> "want", conn |-> c, slot |-> 0,
                     cfg |-> [version |-> catalog[c], overlay |-> o]])
    /\ UNCHANGED <<slots, pinging, catalog, pending, doomed>>

(* A live idle session of this configuration: taken as it is.                *)
TakeLive(t, c, f) ==
    \E s \in Slots :
        /\ First(s, Live(c, f))
        /\ slots' = [Scanned(s, c, f) EXCEPT ![s].leased = TRUE]
        /\ doomed' = DoomedByScan(s, c, f)
        /\ SetThread(t, [threads[t] EXCEPT !.pc = "leased", !.slot = s])

(* A slot without a session: reopened in place, or, soon after a failure,    *)
(* the last error is returned again.                                         *)
Reopen(t, c, f) ==
    \E s \in Slots :
        LET sl == Scanned(NSlots + 1, c, f) IN
        /\ Live(c, f) = {}
        /\ First(s, Dead(c, f))
        /\ doomed' = DoomedByScan(NSlots + 1, c, f)
        /\ \/ /\ slots' = [sl EXCEPT ![s] = Reserved(sl[s], c, f)]
              /\ SetThread(t, [threads[t] EXCEPT !.pc = "opening", !.slot = s])
           \/ /\ slots[s].error
              /\ slots' = sl
              /\ SetThread(t, IdleThread)

(* A session more, in a free slot or in place of an idle one.                *)
OpenNew(t, c, f) ==
    LET sl == Scanned(NSlots + 1, c, f) IN
    /\ Live(c, f) = {} /\ Dead(c, f) = {}
    /\ Cardinality(Mine(c, f)) < MaxPerConn
    /\ \E s \in Room(sl) :
        /\ slots' = [sl EXCEPT ![s] = Reserved(EmptySlot, c, f)]
        /\ doomed' = [DoomedByScan(NSlots + 1, c, f) EXCEPT ![s] = "no"]
        /\ SetThread(t, [threads[t] EXCEPT !.pc = "opening", !.slot = s])

(* pthread_cond_wait.                                                        *)
Wait(t, c, f) ==
    LET sl == Scanned(NSlots + 1, c, f) IN
    /\ Live(c, f) = {} /\ Dead(c, f) = {}
    /\ Cardinality(Mine(c, f)) < MaxPerConn => Room(sl) = {}
    /\ slots' = sl
    /\ doomed' = DoomedByScan(NSlots + 1, c, f)
    /\ SetThread(t, [threads[t] EXCEPT !.pc = "waiting"])

Acquire(t) ==
    /\ threads[t].pc = "want"
    /\ LET c == threads[t].conn
           f == threads[t].cfg IN
       TakeLive(t, c, f) \/ Reopen(t, c, f) \/ OpenNew(t, c, f) \/ Wait(t, c, f)
    /\ UNCHANGED <<pinging, catalog, pending, requests>>

(* slot_open, without the mutex: it loads the plugin, writes the slot's      *)
(* identity again, and may fail at the load or at the ping (running out of   *)
(* memory is left out).                                                      *)
SlotOpen(t, ok) ==
    LET s == threads[t].slot IN
    /\ threads[t].pc = "opening"
    /\ slots' = [slots EXCEPT ![s] =
            [used |-> TRUE, conn |-> threads[t].conn, fp |-> threads[t].cfg,
             inst |-> IF ok THEN threads[t].cfg ELSE None,
             leased |-> @.leased, opening |-> @.opening, error |-> ~ok]]
    /\ SetThread(t, [threads[t] EXCEPT !.pc = IF ok THEN "opened" ELSE "failed"])
    /\ UNCHANGED <<pinging, catalog, pending, doomed, requests>>

(* Back under the mutex: the lease is handed out, or given back on failure.  *)
OpenDone(t) ==
    LET s == threads[t].slot IN
    /\ \/ /\ threads[t].pc = "opened"
          /\ slots' = [slots EXCEPT ![s].opening = FALSE]
          /\ SetThread(t, [threads[t] EXCEPT !.pc = "leased"])
       \/ /\ threads[t].pc = "failed"
          /\ slots' = [slots EXCEPT ![s] = [@ EXCEPT !.opening = FALSE, !.leased = FALSE]]
          /\ threads' = Woken([threads EXCEPT ![t] = IdleThread])
    /\ UNCHANGED <<pinging, catalog, pending, doomed, requests>>

(* What conn_pool_release makes of the slot.                                 *)
ReturnedForgetsInvalidation(slot, healthy) ==                                   \* mutant
    IF healthy THEN [slot EXCEPT !.leased = FALSE, !.error = FALSE] ELSE EmptySlot
Returned(slot, healthy) ==
    IF slot.fp = None \/ ~healthy THEN EmptySlot
    ELSE [slot EXCEPT !.leased = FALSE, !.error = FALSE]

Release(t, healthy) ==
    LET s == threads[t].slot IN
    /\ threads[t].pc = "leased"
    /\ slots' = [slots EXCEPT ![s] = Returned(slots[s], healthy)]
    /\ doomed' = IF slots'[s].used THEN doomed ELSE [doomed EXCEPT ![s] = "no"]
    /\ threads' = Woken([threads EXCEPT ![t] = IdleThread])
    /\ UNCHANGED <<pinging, catalog, pending, requests>>

-----------------------------------------------------------------------------
(* The administrator, one request at a time: the entry is saved, deleted or  *)
(* disconnected, then conn_pool_invalidate, with no lock held in between.    *)

EditConnection(c) ==
    /\ pending = None
    /\ catalog[c] # Deleted
    /\ \/ catalog[c] < MaxVersion /\ catalog' = [catalog EXCEPT ![c] = @ + 1]
       \/ catalog' = [catalog EXCEPT ![c] = Deleted]
       \/ UNCHANGED catalog        \* h_connection_disconnect: steps ignore "disabled"
    /\ pending' = c
    /\ UNCHANGED <<slots, threads, pinging, doomed, requests>>

(* The phase of the holder of a leased slot.                                 *)
HolderPhase(s) ==
    IF s = pinging THEN "pinged"
    ELSE IF \E t \in Threads : threads[t].slot = s /\ threads[t].pc = "opening"
    THEN "opening" ELSE "leased"

Invalidate ==
    LET hit == {s \in Slots : slots[s].used /\ slots[s].conn = pending} IN
    /\ pending # None
    /\ slots' = [s \in Slots |-> IF s \notin hit THEN slots[s]
                                 ELSE IF slots[s].leased THEN [slots[s] EXCEPT !.fp = None]
                                 ELSE EmptySlot]
    /\ doomed' = [s \in Slots |-> IF s \notin hit THEN doomed[s]
                                  ELSE IF slots[s].leased THEN HolderPhase(s) ELSE "no"]
    /\ pending' = None
    /\ threads' = Woken(threads)
    /\ UNCHANGED <<pinging, catalog, requests>>

-----------------------------------------------------------------------------
(* conn_pool_tick: one idle session at a time, pinged with the mutex released *)

PingStart(s) ==
    /\ pinging = 0
    /\ slots[s].used /\ ~slots[s].leased /\ slots[s].inst # None
    /\ slots' = [slots EXCEPT ![s].leased = TRUE]
    /\ pinging' = s
    /\ UNCHANGED <<threads, catalog, pending, doomed, requests>>

PingDone(ok) ==
    /\ pinging # 0
    /\ LET s == slots[pinging] IN
       slots' = [slots EXCEPT ![pinging] =
           [s EXCEPT !.leased = FALSE, !.inst = IF ok THEN s.inst ELSE None, !.error = ~ok]]
    /\ doomed' = IF ok THEN doomed ELSE [doomed EXCEPT ![pinging] = "no"]
    /\ pinging' = 0
    /\ threads' = Woken(threads)
    /\ UNCHANGED <<catalog, pending, requests>>

-----------------------------------------------------------------------------
Client(t) ==
    \/ Acquire(t)
    \/ OpenDone(t)
    \/ \E ok \in BOOLEAN : SlotOpen(t, ok) \/ Release(t, ok)

Next ==
    \/ \E t \in Threads : Client(t) \/ \E c \in Conns, o \in Overlays : Resolve(t, c, o)
    \/ \E c \in Conns : EditConnection(c)
    \/ Invalidate
    \/ \E s \in Slots : PingStart(s)
    \/ \E ok \in BOOLEAN : PingDone(ok)

(* A thread inside the pool or a step goes on; the handler that edited the   *)
(* entry and the ticker that started a ping finish.  A pinged session is not *)
(* pinged again for idle_ping_sec, so a thread that keeps waking up finds it *)
(* idle in the end: strong fairness for taking or opening a session.         *)
Fairness ==
    /\ \A t \in Threads : WF_vars(Client(t))
    /\ \A t \in Threads : SF_vars(Acquire(t) /\ threads'[t].pc # "waiting")
    /\ WF_vars(Invalidate)
    /\ WF_vars(\E ok \in BOOLEAN : PingDone(ok))

Spec == Init /\ [][Next]_vars
FairSpec == Spec /\ Fairness

-----------------------------------------------------------------------------
(* Properties *)

SlotType == [used : BOOLEAN, conn : Conns \union {None}, fp : Configs \union {None},
             inst : Configs \union {None}, leased : BOOLEAN, opening : BOOLEAN,
             error : BOOLEAN]
Phases == {"idle", "want", "waiting", "opening", "opened", "failed", "leased"}
ThreadType == [pc : Phases, conn : Conns \union {None}, cfg : Configs \union {None},
               slot : Slots \union {0}]

(* Types of the state; a slot that is not in use is clean (slot_free).       *)
TypeOK ==
    /\ slots \in [Slots -> SlotType]
    /\ \A s \in Slots : ~slots[s].used => slots[s] = EmptySlot
    /\ threads \in [Threads -> ThreadType]
    /\ pinging \in Slots \union {0}
    /\ catalog \in [Conns -> 0..MaxVersion]
    /\ pending \in Conns \union {None}
    /\ doomed \in [Slots -> {"no", "opening", "leased", "pinged", "skipped"}]
    /\ requests \in 0..MaxRequests

Holding == {"opening", "opened", "failed", "leased"}
Holders(s) == {t \in Threads : threads[t].pc \in Holding /\ threads[t].slot = s}

(* "An instance in a lease is held exclusively" (conn_pool.h:9): a slot is   *)
(* marked leased exactly when one party, a thread or the ticker, has it.     *)
LeaseIsExclusive ==
    \A s \in Slots :
        /\ slots[s].leased <=> Holders(s) # {} \/ pinging = s
        /\ \A t, u \in Holders(s) : t = u
        /\ pinging = s => Holders(s) = {}

(* A session stays open, and the one that was asked for, as long as it is    *)
(* leased: no eviction, edit, ping or other acquisition closes or swaps it,  *)
(* and a step never works over another configuration's session.              *)
LeasedSessionIsTheOneAskedFor ==
    \A t \in Threads : threads[t].pc \in {"opened", "leased"} =>
        /\ slots[threads[t].slot].used
        /\ slots[threads[t].slot].conn = threads[t].conn
        /\ slots[threads[t].slot].inst = threads[t].cfg

(* No lost wake-up: a thread in cond_wait is one for which another scan      *)
(* would still find nothing (conn_pool.c:289-290).                           *)
WaiterHasNothingToTake ==
    \A t \in Threads : threads[t].pc = "waiting" =>
        LET c == threads[t].conn
            f == threads[t].cfg IN
        /\ Live(c, f) = {} /\ Dead(c, f) = {}
        /\ Cardinality(Mine(c, f)) < MaxPerConn => Room(Scanned(NSlots + 1, c, f)) = {}

(* A session that an edit or a deletion found in use by a step does not go   *)
(* back into the pool (conn_pool.c:306-311).                                 *)
InvalidatedLeaseIsNotPooled ==
    \A s \in Slots : doomed[s] = "leased" /\ ~slots[s].leased => slots[s].inst = None

(* When no new request arrives any more, everyone who asked is served or     *)
(* told the error: nobody is left in cond_wait (conn_pool.c:290).            *)
EveryRequestEnds ==
    \A t \in Threads : threads[t].pc = "want" ~> threads[t].pc \in {"leased", "idle"}

-----------------------------------------------------------------------------
(* What the comments promise and the code does not keep.                     *)

(* "We do not break a busy session half way: its fingerprint is marked dead  *)
(* and it closes when the lease returns" (conn_pool.c:332-333), for a        *)
(* session that is being opened; slot_open writes the fingerprint again.     *)
InvalidatedOpeningIsNotPooled ==
    \A s \in Slots : doomed[s] = "opening" /\ ~slots[s].leased => slots[s].inst = None

(* The same promise for a session the ticker was pinging.                    *)
InvalidatedPingedIsNotPooled ==
    \A s \in Slots : doomed[s] = "pinged" /\ ~slots[s].leased => slots[s].inst = None

(* "Busy ones cannot be reused, it will close on return" (conn_pool.c:228),  *)
(* for a session whose configuration is not the current one any more.        *)
OutdatedLeaseClosesOnReturn ==
    \A s \in Slots : doomed[s] = "skipped" /\ ~slots[s].leased => slots[s].inst = None

(* "Deleting a connection closes all its instances" (conn_pool.h:16): once   *)
(* the deletion has invalidated and nobody is in the pool or in a step, the  *)
(* pool holds no session of it.                                              *)
DeletedHasNoSession ==
    (pending = None /\ pinging = 0 /\ \A t \in Threads : threads[t].pc = "idle") =>
        \A s \in Slots : slots[s].inst # None => catalog[slots[s].conn] # Deleted

(* "one more (up to max_per_conn)", "how many simultaneous instances per     *)
(* connection" (conn_pool.h:12, 33).                                         *)
AtMostMaxPerConn ==
    \A c \in Conns :
        Cardinality({s \in Slots : slots[s].conn = c /\ slots[s].inst # None}) <= MaxPerConn

=============================================================================
