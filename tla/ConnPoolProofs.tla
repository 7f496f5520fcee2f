---------------------------- MODULE ConnPoolProofs ----------------------------
(***************************************************************************)
(* Proofs about ConnPool: the state keeps its types, and a leased session  *)
(* has one holder, is the session that holder asked for, and does not go   *)
(* back into the pool when it was invalidated meanwhile.                   *)
(***************************************************************************)
EXTENDS ConnPool, TLAPS

USE ConnPoolAssumption DEF ConnPoolAssumption, Deleted

-----------------------------------------------------------------------------
(* Types of the helpers *)

(* A slot that slot_free has cleaned is a slot.                              *)
LEMMA EmptySlotType == EmptySlot \in SlotType
  BY DEF EmptySlot, SlotType

(* A record of a slot is a slot when its fields are typed.                   *)
LEMMA ReservedType ==
  ASSUME NEW slot \in SlotType, NEW c \in Conns, NEW f \in Configs
  PROVE  Reserved(slot, c, f) \in SlotType /\ Reserved(slot, c, f).used
  BY DEF Reserved, SlotType

(* The scan of conn_pool_acquire only frees slots nobody leases.             *)
LEMMA ScannedType ==
  ASSUME TypeOK, NEW n, NEW c, NEW f
  PROVE  /\ Scanned(n, c, f) \in [Slots -> SlotType]
         /\ \A s \in Slots : ~Scanned(n, c, f)[s].used => Scanned(n, c, f)[s] = EmptySlot
         /\ \A s \in Slots : slots[s].leased => Scanned(n, c, f)[s] = slots[s]
         /\ \A s \in Slots : Scanned(n, c, f)[s].leased => slots[s].leased
         /\ \A s \in Slots : Scanned(n, c, f)[s] \in {slots[s], EmptySlot}
         /\ \A s \in Slots : ~Outdated(s, c, f) => Scanned(n, c, f)[s] = slots[s]
  <1>1. Scanned(n, c, f) = [s \in Slots |-> IF s < n /\ Outdated(s, c, f) /\ ~slots[s].leased
                                            THEN EmptySlot ELSE slots[s]]
    BY DEF Scanned
  <1>2. \A s \in Slots : Scanned(n, c, f)[s] \in {slots[s], EmptySlot}
    BY <1>1
  <1>3. EmptySlot.leased = FALSE /\ EmptySlot.used = FALSE
    BY DEF EmptySlot
  <1> QED
    BY <1>1, <1>2, <1>3, EmptySlotType DEF TypeOK

(* What the scan notes about slots that are out of date.                     *)
LEMMA DoomedByScanType ==
  ASSUME TypeOK, NEW n, NEW c, NEW f
  PROVE  DoomedByScan(n, c, f) \in [Slots -> {"no", "opening", "leased", "pinged", "skipped"}]
  BY DEF DoomedByScan, TypeOK

(* A broadcast changes nothing but the phase of the threads in cond_wait.    *)
LEMMA WokenType ==
  ASSUME NEW th \in [Threads -> ThreadType]
  PROVE  /\ Woken(th) \in [Threads -> ThreadType]
         /\ \A t \in Threads : /\ Woken(th)[t].conn = th[t].conn
                               /\ Woken(th)[t].cfg = th[t].cfg
                               /\ Woken(th)[t].slot = th[t].slot
                               /\ Woken(th)[t].pc = IF th[t].pc = "waiting"
                                                    THEN "want" ELSE th[t].pc
  BY DEF Woken, ThreadType, Phases

(* A thread record in a known phase is typed.                                *)
LEMMA IdleThreadType == IdleThread \in ThreadType
  BY DEF IdleThread, ThreadType, Phases

LEMMA PhaseType ==
  ASSUME NEW r \in ThreadType, NEW pc \in Phases
  PROVE  /\ [r EXCEPT !.pc = pc] \in ThreadType
         /\ [r EXCEPT !.pc = pc].pc = pc
         /\ [r EXCEPT !.pc = pc].conn = r.conn
         /\ [r EXCEPT !.pc = pc].cfg = r.cfg
         /\ [r EXCEPT !.pc = pc].slot = r.slot
  BY DEF ThreadType

LEMMA PhaseSlotType ==
  ASSUME NEW r \in ThreadType, NEW pc \in Phases, NEW s \in Slots
  PROVE  /\ [r EXCEPT !.pc = pc, !.slot = s] \in ThreadType
         /\ [r EXCEPT !.pc = pc, !.slot = s].pc = pc
         /\ [r EXCEPT !.pc = pc, !.slot = s].conn = r.conn
         /\ [r EXCEPT !.pc = pc, !.slot = s].cfg = r.cfg
         /\ [r EXCEPT !.pc = pc, !.slot = s].slot = s
  BY DEF ThreadType

-----------------------------------------------------------------------------
(* The inductive invariant *)

(* Thread t has the slot it names, leased.                                   *)
Held(t) == threads[t].pc \in Holding

HolderHasLease ==
  \A t \in Threads : Held(t) => threads[t].slot \in Slots /\ slots[threads[t].slot].leased
OneHolder ==
  \A t, u \in Threads : Held(t) /\ Held(u) /\ threads[t].slot = threads[u].slot => t = u
PingedHasLease ==
  pinging # 0 => /\ slots[pinging].leased
                 /\ \A t \in Threads : Held(t) => threads[t].slot # pinging
LeaseHasHolder ==
  \A s \in Slots : slots[s].leased =>
      pinging = s \/ \E t \in Threads : Held(t) /\ threads[t].slot = s
RequestIsComplete ==
  \A t \in Threads : threads[t].pc # "idle" =>
      threads[t].conn \in Conns /\ threads[t].cfg \in Configs
SessionMatchesFingerprint ==
  \A s \in Slots : slots[s].inst # None => slots[s].fp \in {slots[s].inst, None}

Leases == HolderHasLease /\ OneHolder /\ PingedHasLease /\ LeaseHasHolder
Sessions == SessionMatchesFingerprint /\ LeasedSessionIsTheOneAskedFor
Inv == TypeOK /\ Leases /\ RequestIsComplete /\ Sessions

-----------------------------------------------------------------------------
(* How a step may move the leases *)

SameHolder(u) ==
  /\ Held(u)' <=> Held(u)
  /\ Held(u) => threads'[u].slot = threads[u].slot

(* No lease changes hands.                                                   *)
LEMMA LeasesKept ==
  ASSUME TypeOK, TypeOK', Leases, pinging' = pinging,
         \A s \in Slots : slots'[s].leased <=> slots[s].leased,
         \A u \in Threads : SameHolder(u)
  PROVE  Leases'
  <1> USE DEF Leases, SameHolder, TypeOK
  <1>1. HolderHasLease'
    BY DEF HolderHasLease
  <1>2. OneHolder'
    BY DEF OneHolder
  <1>3. PingedHasLease'
    BY DEF PingedHasLease
  <1>4. LeaseHasHolder'
    BY DEF LeaseHasHolder
  <1> QED
    BY <1>1, <1>2, <1>3, <1>4

(* A thread that holds nothing takes a slot that nobody leases.              *)
LEMMA LeaseTaken ==
  ASSUME TypeOK, TypeOK', Leases, pinging' = pinging,
         NEW t \in Threads, NEW s \in Slots,
         ~Held(t), Held(t)', threads'[t].slot = s,
         ~slots[s].leased, slots'[s].leased,
         \A r \in Slots \ {s} : slots'[r].leased <=> slots[r].leased,
         \A u \in Threads \ {t} : SameHolder(u)
  PROVE  Leases'
  <1> USE DEF Leases, SameHolder, TypeOK
  <1>1. HolderHasLease'
    BY DEF HolderHasLease
  <1>2. \A u \in Threads : Held(u) => threads[u].slot # s
    BY DEF HolderHasLease
  <1>3. OneHolder'
    BY <1>2 DEF OneHolder
  <1>4. PingedHasLease'
    BY DEF PingedHasLease
  <1>5. LeaseHasHolder'
    BY DEF LeaseHasHolder
  <1> QED
    BY <1>1, <1>3, <1>4, <1>5

(* A thread gives its slot back.                                             *)
LEMMA LeaseReturned ==
  ASSUME TypeOK, TypeOK', Leases, pinging' = pinging,
         NEW t \in Threads, Held(t), ~Held(t)',
         ~slots'[threads[t].slot].leased,
         \A r \in Slots \ {threads[t].slot} : slots'[r].leased <=> slots[r].leased,
         \A u \in Threads \ {t} : SameHolder(u)
  PROVE  Leases'
  <1> USE DEF Leases, SameHolder, TypeOK
  <1>1. \A u \in Threads \ {t} : Held(u) => threads[u].slot # threads[t].slot
    BY DEF OneHolder
  <1>2. HolderHasLease'
    BY <1>1 DEF HolderHasLease
  <1>3. OneHolder'
    BY DEF OneHolder
  <1>4. PingedHasLease'
    BY DEF PingedHasLease
  <1>5. LeaseHasHolder'
    BY DEF LeaseHasHolder
  <1> QED
    BY <1>2, <1>3, <1>4, <1>5

-----------------------------------------------------------------------------
(* The actions *)

LEMMA ResolveKeepsInv ==
  ASSUME Inv, NEW t \in Threads, NEW c \in Conns, NEW o \in Overlays, Resolve(t, c, o)
  PROVE  Inv'
  <1> DEFINE r == [pc |-> "want", conn |-> c, slot |-> 0,
                   cfg |-> [version |-> catalog[c], overlay |-> o]]
  <1>1. r.cfg \in Configs /\ r \in ThreadType /\ r.pc = "want" /\ r.conn = c
    BY DEF Resolve, Inv, TypeOK, Configs, ThreadType, Phases
  <1>2. threads' = [threads EXCEPT ![t] = r] /\ threads[t].pc = "idle"
    BY DEF Resolve, SetThread
  <1> HIDE DEF r
  <1>3. \A u \in Threads : threads'[u] = IF u = t THEN r ELSE threads[u]
    BY <1>2 DEF Inv, TypeOK
  <1>4. TypeOK'
    BY <1>1, <1>2 DEF Resolve, Inv, TypeOK, Slots
  <1>5. Leases'
    <2>1. \A u \in Threads : SameHolder(u)
      BY <1>1, <1>2, <1>3 DEF SameHolder, Held, Holding
    <2> QED
      BY <1>4, <2>1, LeasesKept DEF Inv, Resolve
  <1>6. RequestIsComplete'
    BY <1>1, <1>3 DEF RequestIsComplete, Inv
  <1>7. Sessions'
    BY <1>1, <1>2, <1>3 DEF Sessions, SessionMatchesFingerprint, LeasedSessionIsTheOneAskedFor, Inv, Resolve
  <1> QED
    BY <1>4, <1>5, <1>6, <1>7 DEF Inv

(* A thread that wants a session gets a slot that nobody leases.             *)
LEMMA TakenKeepsInv ==
  ASSUME Inv, NEW t \in Threads, threads[t].pc = "want",
         NEW s \in Slots, ~slots[s].leased,
         NEW n, NEW sl, sl = Scanned(n, threads[t].conn, threads[t].cfg),
         NEW taken \in SlotType, taken.leased, taken.used,
         taken.conn = threads[t].conn, taken.fp = threads[t].cfg,
         NEW r \in ThreadType, r.pc \in {"opening", "leased"}, r.slot = s,
         r.conn = threads[t].conn, r.cfg = threads[t].cfg,
         taken.inst = IF r.pc = "leased" THEN threads[t].cfg ELSE None,
         slots' = [sl EXCEPT ![s] = taken],
         threads' = [threads EXCEPT ![t] = r],
         doomed' \in [Slots -> {"no", "opening", "leased", "pinged", "skipped"}],
         UNCHANGED <<pinging, catalog, pending, requests>>
  PROVE  Inv'
  <1>1. /\ sl \in [Slots -> SlotType]
        /\ \A q \in Slots : ~sl[q].used => sl[q] = EmptySlot
        /\ \A q \in Slots : slots[q].leased => sl[q] = slots[q]
        /\ \A q \in Slots : sl[q].leased => slots[q].leased
        /\ \A q \in Slots : sl[q] \in {slots[q], EmptySlot}
    BY ScannedType DEF Inv
  <1>3. \A q \in Slots : slots'[q] = IF q = s THEN taken ELSE sl[q]
    BY <1>1
  <1>4. \A u \in Threads : threads'[u] = IF u = t THEN r ELSE threads[u]
    BY DEF Inv, TypeOK
  <1>5. threads[t].conn \in Conns /\ threads[t].cfg \in Configs
    BY DEF Inv, RequestIsComplete
  <1>6. TypeOK'
    <2>1. slots' \in [Slots -> SlotType]
      BY <1>1
    <2>2. \A q \in Slots : ~slots'[q].used => slots'[q] = EmptySlot
      BY <1>1, <1>3
    <2>3. threads' \in [Threads -> ThreadType]
      BY DEF Inv, TypeOK
    <2> QED
      BY <2>1, <2>2, <2>3 DEF Inv, TypeOK
  <1>7. Leases'
    <2>1. \A q \in Slots \ {s} : slots'[q].leased <=> slots[q].leased
      <3> TAKE q \in Slots \ {s}
      <3>1. sl[q].leased \in BOOLEAN /\ slots[q].leased \in BOOLEAN
        BY <1>1 DEF Inv, TypeOK, SlotType
      <3> QED
        BY <1>1, <1>3, <3>1
    <2>2. \A u \in Threads \ {t} : SameHolder(u)
      BY <1>4 DEF SameHolder, Held
    <2>3. ~Held(t) /\ Held(t)' /\ threads'[t].slot = s /\ slots'[s].leased
      BY <1>3, <1>4 DEF Held, Holding
    <2> QED
      BY <1>6, <2>1, <2>2, <2>3, LeaseTaken DEF Inv
  <1>8. RequestIsComplete'
    BY <1>4, <1>5 DEF Inv, RequestIsComplete
  <1>9. SessionMatchesFingerprint'
    <2>1. EmptySlot.inst = None
      BY DEF EmptySlot
    <2> QED
      BY <1>1, <1>3, <2>1 DEF Inv, Sessions, SessionMatchesFingerprint
  <1>10. LeasedSessionIsTheOneAskedFor'
    <2>1. \A u \in Threads : threads[u].pc \in {"opened", "leased"} =>
            threads[u].slot \in Slots /\ slots[threads[u].slot].leased
      BY DEF Inv, Leases, HolderHasLease, Held, Holding
    <2>2. \A u \in Threads : threads[u].pc \in {"opened", "leased"} =>
            threads[u].slot # s /\ slots'[threads[u].slot] = slots[threads[u].slot]
      BY <1>1, <1>3, <2>1
    <2> QED
      BY <1>3, <1>4, <2>1, <2>2 DEF Inv, Sessions, LeasedSessionIsTheOneAskedFor
  <1> QED
    BY <1>6, <1>7, <1>8, <1>9, <1>10 DEF Inv, Sessions

(* A scan that takes nothing: the thread gives up or waits.                  *)
LEMMA WaitedKeepsInv ==
  ASSUME Inv, NEW t \in Threads, threads[t].pc = "want",
         NEW sl, sl = Scanned(NSlots + 1, threads[t].conn, threads[t].cfg),
         NEW r \in ThreadType, r.pc \in {"idle", "waiting"},
         r.pc = "waiting" => r.conn = threads[t].conn /\ r.cfg = threads[t].cfg,
         slots' = sl,
         threads' = [threads EXCEPT ![t] = r],
         doomed' \in [Slots -> {"no", "opening", "leased", "pinged", "skipped"}],
         UNCHANGED <<pinging, catalog, pending, requests>>
  PROVE  Inv'
  <1>1. /\ sl \in [Slots -> SlotType]
        /\ \A q \in Slots : ~sl[q].used => sl[q] = EmptySlot
        /\ \A q \in Slots : slots[q].leased => sl[q] = slots[q]
        /\ \A q \in Slots : sl[q].leased => slots[q].leased
        /\ \A q \in Slots : sl[q] \in {slots[q], EmptySlot}
    BY ScannedType DEF Inv
  <1>2. \A u \in Threads : threads'[u] = IF u = t THEN r ELSE threads[u]
    BY DEF Inv, TypeOK
  <1>3. threads[t].conn \in Conns /\ threads[t].cfg \in Configs
    BY DEF Inv, RequestIsComplete
  <1>4. TypeOK'
    BY <1>1 DEF Inv, TypeOK
  <1>5. Leases'
    <2>1. \A q \in Slots : slots'[q].leased <=> slots[q].leased
      <3> TAKE q \in Slots
      <3>1. sl[q].leased \in BOOLEAN /\ slots[q].leased \in BOOLEAN
        BY <1>1 DEF Inv, TypeOK, SlotType
      <3> QED
        BY <1>1, <3>1
    <2>2. \A u \in Threads : SameHolder(u)
      BY <1>2 DEF SameHolder, Held, Holding
    <2> QED
      BY <1>4, <2>1, <2>2, LeasesKept DEF Inv
  <1>6. RequestIsComplete'
    BY <1>2, <1>3 DEF Inv, RequestIsComplete
  <1>7. SessionMatchesFingerprint'
    <2>1. EmptySlot.inst = None
      BY DEF EmptySlot
    <2> QED
      BY <1>1, <2>1 DEF Inv, Sessions, SessionMatchesFingerprint
  <1>8. LeasedSessionIsTheOneAskedFor'
    <2>1. \A u \in Threads : threads[u].pc \in {"opened", "leased"} =>
            threads[u].slot \in Slots /\ slots[threads[u].slot].leased
      BY DEF Inv, Leases, HolderHasLease, Held, Holding
    <2> QED
      BY <1>1, <1>2, <2>1 DEF Inv, Sessions, LeasedSessionIsTheOneAskedFor
  <1> QED
    BY <1>4, <1>5, <1>6, <1>7, <1>8 DEF Inv, Sessions

LEMMA TakeLiveKeepsInv ==
  ASSUME Inv, NEW t \in Threads, threads[t].pc = "want",
         TakeLive(t, threads[t].conn, threads[t].cfg),
         UNCHANGED <<pinging, catalog, pending, requests>>
  PROVE  Inv'
  <1>1. threads[t].cfg # None
    BY DEF Inv, RequestIsComplete, Configs
  <1>2. PICK s \in Slots :
          /\ First(s, Live(threads[t].conn, threads[t].cfg))
          /\ slots' = [Scanned(s, threads[t].conn, threads[t].cfg) EXCEPT ![s].leased = TRUE]
          /\ doomed' = DoomedByScan(s, threads[t].conn, threads[t].cfg)
          /\ threads' = [threads EXCEPT ![t] = [threads[t] EXCEPT !.pc = "leased", !.slot = s]]
    BY DEF TakeLive, SetThread
  <1>3. /\ ~slots[s].leased /\ slots[s].used /\ slots[s].inst # None
        /\ slots[s].conn = threads[t].conn /\ slots[s].fp = threads[t].cfg
    BY <1>2 DEF First, Live, Of
  <1>4. slots[s].inst = threads[t].cfg
    BY <1>1, <1>3 DEF Inv, Sessions, SessionMatchesFingerprint
  <1> DEFINE sl == Scanned(s, threads[t].conn, threads[t].cfg)
             taken == [slots[s] EXCEPT !.leased = TRUE]
  <1>5. sl[s] = slots[s]
    BY <1>3, ScannedType DEF Inv, Outdated
  <1>6. /\ taken \in SlotType /\ taken.leased /\ taken.used
        /\ taken.inst = threads[t].cfg
        /\ taken.conn = threads[t].conn /\ taken.fp = threads[t].cfg
    <2>1. slots[s] \in SlotType
      BY DEF Inv, TypeOK
    <2> QED
      BY <1>3, <1>4, <2>1 DEF SlotType
  <1>7. slots' = [sl EXCEPT ![s] = taken]
    BY <1>2, <1>5
  <1>8. doomed' \in [Slots -> {"no", "opening", "leased", "pinged", "skipped"}]
    BY <1>2, DoomedByScanType DEF Inv
  <1> DEFINE r == [threads[t] EXCEPT !.pc = "leased", !.slot = s]
  <1>9. /\ r \in ThreadType /\ r.pc = "leased" /\ r.slot = s
        /\ r.conn = threads[t].conn /\ r.cfg = threads[t].cfg
    BY DEF Inv, TypeOK, ThreadType, Phases
  <1>10. threads' = [threads EXCEPT ![t] = r]
    BY <1>2
  <1> HIDE DEF taken, sl, r
  <1> QED
    BY <1>3, <1>6, <1>7, <1>8, <1>9, <1>10, TakenKeepsInv DEF sl

LEMMA ReopenKeepsInv ==
  ASSUME Inv, NEW t \in Threads, threads[t].pc = "want",
         Reopen(t, threads[t].conn, threads[t].cfg),
         UNCHANGED <<pinging, catalog, pending, requests>>
  PROVE  Inv'
  <1> DEFINE sl == Scanned(NSlots + 1, threads[t].conn, threads[t].cfg)
  <1>1. PICK s \in Slots :
          /\ First(s, Dead(threads[t].conn, threads[t].cfg))
          /\ doomed' = DoomedByScan(NSlots + 1, threads[t].conn, threads[t].cfg)
          /\ \/ /\ slots' = [sl EXCEPT ![s] = Reserved(sl[s], threads[t].conn, threads[t].cfg)]
                /\ SetThread(t, [threads[t] EXCEPT !.pc = "opening", !.slot = s])
             \/ /\ slots' = sl
                /\ SetThread(t, IdleThread)
    BY DEF Reopen
  <1>2. ~slots[s].leased /\ slots[s].used
    BY <1>1 DEF First, Dead, Of
  <1>3. doomed' \in [Slots -> {"no", "opening", "leased", "pinged", "skipped"}]
    BY <1>1, DoomedByScanType DEF Inv
  <1>4. threads[t].conn \in Conns /\ threads[t].cfg \in Configs
    BY DEF Inv, RequestIsComplete
  <1>5. /\ sl \in [Slots -> SlotType]
        /\ \A q \in Slots : ~sl[q].used => sl[q] = EmptySlot
        /\ \A q \in Slots : slots[q].leased => sl[q] = slots[q]
        /\ \A q \in Slots : sl[q].leased => slots[q].leased
        /\ \A q \in Slots : sl[q] \in {slots[q], EmptySlot}
    BY ScannedType DEF Inv
  <1> DEFINE taken == Reserved(sl[s], threads[t].conn, threads[t].cfg)
  <1>6. CASE /\ slots' = [sl EXCEPT ![s] = taken]
             /\ SetThread(t, [threads[t] EXCEPT !.pc = "opening", !.slot = s])
    <2>1. /\ taken \in SlotType /\ taken.leased /\ taken.used
          /\ taken.inst = None
          /\ taken.conn = threads[t].conn /\ taken.fp = threads[t].cfg
      <3>1. sl[s] \in SlotType
        BY <1>5
      <3> QED
        BY <1>4, <3>1, ReservedType DEF Reserved
    <2> DEFINE r == [threads[t] EXCEPT !.pc = "opening", !.slot = s]
    <2>2. /\ r \in ThreadType /\ r.pc = "opening" /\ r.slot = s
          /\ r.conn = threads[t].conn /\ r.cfg = threads[t].cfg
      BY DEF Inv, TypeOK, ThreadType, Phases
    <2>3. threads' = [threads EXCEPT ![t] = r]
      BY <1>6 DEF SetThread
    <2> HIDE DEF taken, sl, r
    <2> QED
      BY <1>2, <1>3, <1>6, <2>1, <2>2, <2>3, TakenKeepsInv DEF sl
  <1>7. CASE slots' = sl /\ SetThread(t, IdleThread)
    BY <1>3, <1>5, <1>7, WaitedKeepsInv, IdleThreadType DEF SetThread, IdleThread
  <1> QED
    BY <1>1, <1>6, <1>7

LEMMA OpenNewKeepsInv ==
  ASSUME Inv, NEW t \in Threads, threads[t].pc = "want",
         OpenNew(t, threads[t].conn, threads[t].cfg),
         UNCHANGED <<pinging, catalog, pending, requests>>
  PROVE  Inv'
  <1> DEFINE sl == Scanned(NSlots + 1, threads[t].conn, threads[t].cfg)
             taken == Reserved(EmptySlot, threads[t].conn, threads[t].cfg)
             d == DoomedByScan(NSlots + 1, threads[t].conn, threads[t].cfg)
  <1>1. PICK s \in Room(sl) :
          /\ slots' = [sl EXCEPT ![s] = taken]
          /\ doomed' = [d EXCEPT ![s] = "no"]
          /\ threads' = [threads EXCEPT ![t] = [threads[t] EXCEPT !.pc = "opening", !.slot = s]]
    BY DEF OpenNew, SetThread
  <1>2. /\ sl \in [Slots -> SlotType]
        /\ \A q \in Slots : ~sl[q].used => sl[q] = EmptySlot
        /\ \A q \in Slots : slots[q].leased => sl[q] = slots[q]
    BY ScannedType DEF Inv
  <1>3. EmptySlot.leased = FALSE
    BY DEF EmptySlot
  <1> HIDE DEF sl
  <1>4. s \in Slots /\ ~sl[s].leased
    <2>1. s \in Slots /\ (~sl[s].used \/ ~sl[s].leased)
      BY <1>1, Zenon DEF Room
    <2> QED
      BY <1>2, <1>3, <2>1
  <1>5. ~slots[s].leased
    BY <1>2, <1>4
  <1>6. doomed' \in [Slots -> {"no", "opening", "leased", "pinged", "skipped"}]
    BY <1>1, DoomedByScanType DEF Inv
  <1>7. threads[t].conn \in Conns /\ threads[t].cfg \in Configs
    BY DEF Inv, RequestIsComplete
  <1>8. /\ taken \in SlotType /\ taken.leased /\ taken.used
        /\ taken.inst = None
        /\ taken.conn = threads[t].conn /\ taken.fp = threads[t].cfg
    BY <1>7, EmptySlotType, ReservedType DEF Reserved
  <1> DEFINE r == [threads[t] EXCEPT !.pc = "opening", !.slot = s]
  <1>9. /\ r \in ThreadType /\ r.pc = "opening" /\ r.slot = s
        /\ r.conn = threads[t].conn /\ r.cfg = threads[t].cfg
    BY <1>4 DEF Inv, TypeOK, ThreadType, Phases
  <1>10. slots' = [sl EXCEPT ![s] = taken] /\ threads' = [threads EXCEPT ![t] = r]
    BY <1>1
  <1> HIDE DEF taken, r, d
  <1> QED
    BY <1>4, <1>5, <1>6, <1>8, <1>9, <1>10, TakenKeepsInv DEF sl

LEMMA WaitKeepsInv ==
  ASSUME Inv, NEW t \in Threads, threads[t].pc = "want",
         Wait(t, threads[t].conn, threads[t].cfg),
         UNCHANGED <<pinging, catalog, pending, requests>>
  PROVE  Inv'
  <1> DEFINE sl == Scanned(NSlots + 1, threads[t].conn, threads[t].cfg)
             r == [threads[t] EXCEPT !.pc = "waiting"]
  <1>1. /\ r \in ThreadType /\ r.pc = "waiting"
        /\ r.conn = threads[t].conn /\ r.cfg = threads[t].cfg
    BY DEF Inv, TypeOK, ThreadType, Phases
  <1>2. slots' = sl /\ threads' = [threads EXCEPT ![t] = r]
    BY DEF Wait, SetThread
  <1>3. doomed' \in [Slots -> {"no", "opening", "leased", "pinged", "skipped"}]
    BY DoomedByScanType DEF Inv, Wait
  <1> HIDE DEF r, sl
  <1> QED
    BY <1>1, <1>2, <1>3, WaitedKeepsInv DEF sl

(* slot_open writes the slot its own thread holds.                           *)
LEMMA SlotOpenKeepsInv ==
  ASSUME Inv, NEW t \in Threads, NEW ok \in BOOLEAN, SlotOpen(t, ok)
  PROVE  Inv'
  <1> DEFINE s == threads[t].slot
             o == [used |-> TRUE, conn |-> threads[t].conn, fp |-> threads[t].cfg,
                   inst |-> IF ok THEN threads[t].cfg ELSE None,
                   leased |-> slots[s].leased, opening |-> slots[s].opening, error |-> ~ok]
             r == [threads[t] EXCEPT !.pc = IF ok THEN "opened" ELSE "failed"]
  <1>1. threads[t].conn \in Conns /\ threads[t].cfg \in Configs
    BY DEF Inv, RequestIsComplete, SlotOpen
  <1>2. Held(t) /\ s \in Slots /\ slots[s].leased
    BY DEF Inv, Leases, HolderHasLease, Held, Holding, SlotOpen
  <1>3. slots' = [slots EXCEPT ![s] = o] /\ threads' = [threads EXCEPT ![t] = r]
    BY DEF SlotOpen, SetThread
  <1>4. /\ r \in ThreadType /\ r.pc = (IF ok THEN "opened" ELSE "failed")
        /\ r.slot = s /\ r.conn = threads[t].conn /\ r.cfg = threads[t].cfg
    BY DEF Inv, TypeOK, ThreadType, Phases
  <1>5. /\ o \in SlotType /\ o.used /\ o.leased
        /\ o.conn = threads[t].conn /\ o.fp = threads[t].cfg
        /\ o.inst = IF ok THEN threads[t].cfg ELSE None
    BY <1>1, <1>2 DEF Inv, TypeOK, SlotType
  <1> HIDE DEF o, r
  <1>6. \A q \in Slots : slots'[q] = IF q = s THEN o ELSE slots[q]
    BY <1>3 DEF Inv, TypeOK
  <1>7. \A u \in Threads : threads'[u] = IF u = t THEN r ELSE threads[u]
    BY <1>3 DEF Inv, TypeOK
  <1>8. TypeOK'
    <2>1. slots' \in [Slots -> SlotType]
      BY <1>3, <1>5 DEF Inv, TypeOK
    <2>2. \A q \in Slots : ~slots'[q].used => slots'[q] = EmptySlot
      BY <1>5, <1>6 DEF Inv, TypeOK
    <2>3. threads' \in [Threads -> ThreadType]
      BY <1>3, <1>4 DEF Inv, TypeOK
    <2> QED
      BY <2>1, <2>2, <2>3 DEF Inv, TypeOK, SlotOpen
  <1>9. Leases'
    <2>1. \A q \in Slots : slots'[q].leased <=> slots[q].leased
      BY <1>2, <1>5, <1>6
    <2>2. \A u \in Threads : SameHolder(u)
      BY <1>2, <1>4, <1>7 DEF SameHolder, Held, Holding
    <2> QED
      BY <1>8, <2>1, <2>2, LeasesKept DEF Inv, SlotOpen
  <1>10. RequestIsComplete'
    BY <1>1, <1>4, <1>7 DEF Inv, RequestIsComplete
  <1>11. SessionMatchesFingerprint'
    BY <1>5, <1>6 DEF Inv, Sessions, SessionMatchesFingerprint
  <1>12. LeasedSessionIsTheOneAskedFor'
    <2>1. \A u \in Threads \ {t} : threads[u].pc \in {"opened", "leased"} =>
            threads[u].slot \in Slots /\ threads[u].slot # s
      BY <1>2 DEF Inv, Leases, HolderHasLease, OneHolder, Held, Holding
    <2> QED
      BY <1>2, <1>4, <1>5, <1>6, <1>7, <2>1 DEF Inv, Sessions, LeasedSessionIsTheOneAskedFor
  <1> QED
    BY <1>8, <1>9, <1>10, <1>11, <1>12 DEF Inv, Sessions

(* OpenDone hands the lease out, or gives it back.                           *)
LEMMA OpenedKeepsInv ==
  ASSUME Inv, NEW t \in Threads, threads[t].pc = "opened",
         slots' = [slots EXCEPT ![threads[t].slot].opening = FALSE],
         threads' = [threads EXCEPT ![t] = [threads[t] EXCEPT !.pc = "leased"]],
         UNCHANGED <<pinging, catalog, pending, doomed, requests>>
  PROVE  Inv'
  <1> DEFINE s == threads[t].slot
             o == [slots[s] EXCEPT !.opening = FALSE]
             r == [threads[t] EXCEPT !.pc = "leased"]
  <1>1. threads[t].conn \in Conns /\ threads[t].cfg \in Configs
    BY DEF Inv, RequestIsComplete
  <1>2. s \in Slots /\ slots[s].leased
    BY DEF Inv, Leases, HolderHasLease, Held, Holding
  <1>3. slots' = [slots EXCEPT ![s] = o] /\ threads' = [threads EXCEPT ![t] = r]
    OBVIOUS
  <1>4. /\ r \in ThreadType /\ r.pc = "leased"
        /\ r.slot = s /\ r.conn = threads[t].conn /\ r.cfg = threads[t].cfg
    BY DEF Inv, TypeOK, ThreadType, Phases
  <1>5. /\ o \in SlotType /\ o.used = slots[s].used /\ o.leased = slots[s].leased
        /\ o.conn = slots[s].conn /\ o.fp = slots[s].fp /\ o.inst = slots[s].inst
    <2>1. slots[s] \in SlotType
      BY <1>2 DEF Inv, TypeOK
    <2> QED
      BY <2>1 DEF SlotType
  <1>6. slots[s].used
    BY <1>2 DEF Inv, TypeOK, EmptySlot
  <1> HIDE DEF o, r
  <1>7. \A q \in Slots : slots'[q] = IF q = s THEN o ELSE slots[q]
    BY <1>3 DEF Inv, TypeOK
  <1>8. \A u \in Threads : threads'[u] = IF u = t THEN r ELSE threads[u]
    BY <1>3 DEF Inv, TypeOK
  <1>9. TypeOK'
    <2>1. slots' \in [Slots -> SlotType]
      BY <1>3, <1>5 DEF Inv, TypeOK
    <2>2. \A q \in Slots : ~slots'[q].used => slots'[q] = EmptySlot
      BY <1>5, <1>6, <1>7 DEF Inv, TypeOK
    <2>3. threads' \in [Threads -> ThreadType]
      BY <1>3, <1>4 DEF Inv, TypeOK
    <2> QED
      BY <2>1, <2>2, <2>3 DEF Inv, TypeOK
  <1>10. Leases'
    <2>1. \A q \in Slots : slots'[q].leased <=> slots[q].leased
      BY <1>5, <1>7
    <2>2. \A u \in Threads : SameHolder(u)
      BY <1>4, <1>8 DEF SameHolder, Held, Holding
    <2> QED
      BY <1>9, <2>1, <2>2, LeasesKept DEF Inv
  <1>11. RequestIsComplete'
    BY <1>1, <1>4, <1>8 DEF Inv, RequestIsComplete
  <1>12. SessionMatchesFingerprint'
    BY <1>5, <1>7 DEF Inv, Sessions, SessionMatchesFingerprint
  <1>13. LeasedSessionIsTheOneAskedFor'
    <2>1. \A u \in Threads \ {t} : threads[u].pc \in {"opened", "leased"} =>
            threads[u].slot \in Slots /\ threads[u].slot # s
      BY DEF Inv, Leases, HolderHasLease, OneHolder, Held, Holding
    <2> QED
      BY <1>2, <1>4, <1>5, <1>7, <1>8, <2>1 DEF Inv, Sessions, LeasedSessionIsTheOneAskedFor
  <1> QED
    BY <1>9, <1>10, <1>11, <1>12, <1>13 DEF Inv, Sessions

(* A thread gives its slot back, as the slot o, and everyone is woken.       *)
LEMMA GivenBackKeepsInv ==
  ASSUME Inv, NEW t \in Threads, Held(t),
         NEW o \in SlotType, ~o.leased, ~o.used => o = EmptySlot,
         o.inst # None => o.fp \in {o.inst, None},
         slots' = [slots EXCEPT ![threads[t].slot] = o],
         threads' = Woken([threads EXCEPT ![t] = IdleThread]),
         doomed' \in [Slots -> {"no", "opening", "leased", "pinged", "skipped"}],
         UNCHANGED <<pinging, catalog, pending, requests>>
  PROVE  Inv'
  <1> DEFINE s == threads[t].slot
             th == [threads EXCEPT ![t] = IdleThread]
  <1>1. s \in Slots /\ slots[s].leased
    BY DEF Inv, Leases, HolderHasLease
  <1>2. th \in [Threads -> ThreadType]
    BY IdleThreadType DEF Inv, TypeOK
  <1>3. \A u \in Threads : th[u] = IF u = t THEN IdleThread ELSE threads[u]
    BY DEF Inv, TypeOK
  <1> HIDE DEF th
  <1>4. /\ threads' \in [Threads -> ThreadType]
        /\ \A u \in Threads : /\ threads'[u].conn = th[u].conn
                              /\ threads'[u].cfg = th[u].cfg
                              /\ threads'[u].slot = th[u].slot
                              /\ threads'[u].pc = IF th[u].pc = "waiting"
                                                  THEN "want" ELSE th[u].pc
    BY <1>2, WokenType DEF th
  <1>5. threads'[t].pc = "idle"
    <2>1. th[t].pc = "idle"
      BY <1>3 DEF IdleThread
    <2> QED
      BY <1>4, <2>1
  <1>6. \A u \in Threads \ {t} : SameHolder(u)
    BY <1>3, <1>4 DEF SameHolder, Held, Holding
  <1>7. \A q \in Slots : slots'[q] = IF q = s THEN o ELSE slots[q]
    BY DEF Inv, TypeOK
  <1>8. TypeOK'
    <2>1. slots' \in [Slots -> SlotType]
      BY DEF Inv, TypeOK
    <2>2. \A q \in Slots : ~slots'[q].used => slots'[q] = EmptySlot
      BY <1>7 DEF Inv, TypeOK
    <2> QED
      BY <1>4, <2>1, <2>2 DEF Inv, TypeOK
  <1>9. Leases'
    <2>1. ~Held(t)'
      BY <1>5 DEF Held, Holding
    <2> QED
      BY <1>1, <1>6, <1>7, <1>8, <2>1, LeaseReturned DEF Inv
  <1>10. RequestIsComplete'
    BY <1>3, <1>4, <1>5 DEF Inv, RequestIsComplete
  <1>11. SessionMatchesFingerprint'
    BY <1>7 DEF Inv, Sessions, SessionMatchesFingerprint
  <1>12. LeasedSessionIsTheOneAskedFor'
    <2>1. \A u \in Threads \ {t} : threads[u].pc \in {"opened", "leased"} =>
            threads[u].slot \in Slots /\ threads[u].slot # s
      BY DEF Inv, Leases, HolderHasLease, OneHolder, Held, Holding
    <2>2. \A u \in Threads : threads'[u].pc \in {"opened", "leased"} =>
            /\ u # t /\ threads[u].pc \in {"opened", "leased"}
            /\ threads'[u].slot = threads[u].slot
            /\ threads'[u].conn = threads[u].conn
            /\ threads'[u].cfg = threads[u].cfg
      BY <1>3, <1>4, <1>5
    <2>3. \A u \in Threads : threads'[u].pc \in {"opened", "leased"} =>
            slots'[threads[u].slot] = slots[threads[u].slot]
      BY <1>7, <2>1, <2>2
    <2>4. \A u \in Threads : threads[u].pc \in {"opened", "leased"} =>
            /\ slots[threads[u].slot].used
            /\ slots[threads[u].slot].conn = threads[u].conn
            /\ slots[threads[u].slot].inst = threads[u].cfg
      BY DEF Inv, Sessions, LeasedSessionIsTheOneAskedFor
    <2>5. ASSUME NEW u \in Threads, threads'[u].pc \in {"opened", "leased"}
          PROVE  /\ slots'[threads'[u].slot].used
                 /\ slots'[threads'[u].slot].conn = threads'[u].conn
                 /\ slots'[threads'[u].slot].inst = threads'[u].cfg
      <3>1. slots'[threads'[u].slot] = slots[threads[u].slot]
        BY <2>2, <2>3, <2>5
      <3> QED
        BY <2>2, <2>4, <2>5, <3>1
    <2> QED
      BY <2>5 DEF LeasedSessionIsTheOneAskedFor
  <1> QED
    BY <1>8, <1>9, <1>10, <1>11, <1>12 DEF Inv, Sessions

LEMMA OpenDoneKeepsInv ==
  ASSUME Inv, NEW t \in Threads, OpenDone(t)
  PROVE  Inv'
  <1>1. CASE threads[t].pc = "opened"
    BY <1>1, OpenedKeepsInv DEF OpenDone, SetThread
  <1>2. CASE threads[t].pc = "failed"
    <2> DEFINE s == threads[t].slot
               o == [slots[s] EXCEPT !.opening = FALSE, !.leased = FALSE]
    <2>1. Held(t) /\ s \in Slots /\ slots[s].leased
      BY <1>2 DEF Inv, Leases, HolderHasLease, Held, Holding
    <2>2. slots[s].used /\ slots[s] \in SlotType
      BY <2>1 DEF Inv, TypeOK, EmptySlot
    <2>3. /\ o \in SlotType /\ ~o.leased /\ o.used
          /\ o.inst = slots[s].inst /\ o.fp = slots[s].fp
      BY <2>2 DEF SlotType
    <2>4. o.inst # None => o.fp \in {o.inst, None}
      BY <2>1, <2>3 DEF Inv, Sessions, SessionMatchesFingerprint
    <2>5. /\ slots' = [slots EXCEPT ![s] = o]
          /\ threads' = Woken([threads EXCEPT ![t] = IdleThread])
          /\ UNCHANGED <<pinging, catalog, pending, doomed, requests>>
      BY <1>2 DEF OpenDone
    <2>6. doomed' \in [Slots -> {"no", "opening", "leased", "pinged", "skipped"}]
      BY <2>5 DEF Inv, TypeOK
    <2> HIDE DEF o
    <2> QED
      BY <2>1, <2>3, <2>4, <2>5, <2>6, GivenBackKeepsInv
  <1> QED
    BY <1>1, <1>2 DEF OpenDone

LEMMA ReleaseKeepsInv ==
  ASSUME Inv, NEW t \in Threads, NEW healthy \in BOOLEAN, Release(t, healthy)
  PROVE  Inv'
  <1> DEFINE s == threads[t].slot
             o == Returned(slots[s], healthy)
  <1>1. Held(t) /\ s \in Slots /\ slots[s].leased
    BY DEF Inv, Leases, HolderHasLease, Held, Holding, Release
  <1>2. slots[s].used /\ slots[s] \in SlotType
    BY <1>1 DEF Inv, TypeOK, EmptySlot
  <1>4. /\ o \in SlotType /\ ~o.leased /\ (~o.used => o = EmptySlot)
        /\ (o.inst # None => o.fp \in {o.inst, None})
    <2>1. CASE o = EmptySlot
      <3>1. EmptySlot.leased = FALSE /\ EmptySlot.inst = None
        BY DEF EmptySlot
      <3> HIDE DEF o
      <3> QED
        BY <2>1, <3>1, EmptySlotType
    <2>2. CASE o = [slots[s] EXCEPT !.leased = FALSE, !.error = FALSE]
      <3> HIDE DEF o
      <3>1. o \in SlotType /\ ~o.leased /\ o.used /\ o.inst = slots[s].inst /\ o.fp = slots[s].fp
        BY <1>2, <2>2 DEF SlotType
      <3> QED
        BY <1>1, <3>1 DEF Inv, Sessions, SessionMatchesFingerprint
    <2> QED
      BY <2>1, <2>2 DEF Returned
  <1>5. slots' = [slots EXCEPT ![s] = o]
    BY DEF Release
  <1>6. doomed' \in [Slots -> {"no", "opening", "leased", "pinged", "skipped"}]
    BY DEF Inv, TypeOK, Release
  <1> HIDE DEF o
  <1> QED
    BY <1>1, <1>4, <1>5, <1>6, GivenBackKeepsInv DEF Release

LEMMA InvalidateKeepsInv ==
  ASSUME Inv, Invalidate
  PROVE  Inv'
  <1> DEFINE hit == {s \in Slots : slots[s].used /\ slots[s].conn = pending}
  <1>1. \A q \in Slots : slots'[q] = IF q \notin hit THEN slots[q]
                                     ELSE IF slots[q].leased THEN [slots[q] EXCEPT !.fp = None]
                                     ELSE EmptySlot
    BY DEF Invalidate
  <1>2. EmptySlot.leased = FALSE /\ EmptySlot.inst = None /\ EmptySlot.used = FALSE
    BY DEF EmptySlot
  <1>3. ASSUME NEW q \in Slots
        PROVE  /\ slots'[q] \in SlotType
               /\ slots'[q].leased <=> slots[q].leased
               /\ ~slots'[q].used => slots'[q] = EmptySlot
               /\ slots[q].leased => /\ slots'[q].used = slots[q].used
                                     /\ slots'[q].conn = slots[q].conn
                                     /\ slots'[q].inst = slots[q].inst
               /\ slots'[q].inst # None => slots'[q].fp \in {slots'[q].inst, None}
    <2> DEFINE o == [slots[q] EXCEPT !.fp = None]
    <2>1. slots[q] \in SlotType /\ (~slots[q].used => slots[q] = EmptySlot)
      BY DEF Inv, TypeOK
    <2>2. slots[q].inst # None => slots[q].fp \in {slots[q].inst, None}
      BY DEF Inv, Sessions, SessionMatchesFingerprint
    <2>3. /\ o \in SlotType /\ o.used = slots[q].used /\ o.conn = slots[q].conn
          /\ o.leased = slots[q].leased /\ o.inst = slots[q].inst /\ o.fp = None
      BY <2>1 DEF SlotType
    <2> HIDE DEF hit, o
    <2>4. slots'[q] = slots[q] \/ (slots[q].leased /\ slots'[q] = o)
          \/ (~slots[q].leased /\ slots'[q] = EmptySlot)
      BY <1>1 DEF o
    <2>5. CASE slots'[q] = slots[q]
      BY <2>1, <2>2, <2>5
    <2>6. CASE slots[q].leased /\ slots'[q] = o
      BY <1>2, <2>1, <2>3, <2>6
    <2>7. CASE ~slots[q].leased /\ slots'[q] = EmptySlot
      BY <1>2, <2>7, EmptySlotType
    <2> QED
      BY <2>4, <2>5, <2>6, <2>7
  <1>4. /\ threads' \in [Threads -> ThreadType]
        /\ \A u \in Threads : /\ threads'[u].conn = threads[u].conn
                              /\ threads'[u].cfg = threads[u].cfg
                              /\ threads'[u].slot = threads[u].slot
                              /\ threads'[u].pc = IF threads[u].pc = "waiting"
                                                  THEN "want" ELSE threads[u].pc
    BY WokenType DEF Inv, TypeOK, Invalidate
  <1>5. TypeOK'
    <2>1. slots' \in [Slots -> SlotType]
      BY <1>3 DEF Invalidate
    <2>2. doomed' \in [Slots -> {"no", "opening", "leased", "pinged", "skipped"}]
      BY DEF Inv, TypeOK, Invalidate, HolderPhase
    <2> QED
      BY <1>3, <1>4, <2>1, <2>2 DEF Inv, TypeOK, Invalidate
  <1>6. \A u \in Threads : SameHolder(u)
    BY <1>4 DEF SameHolder, Held, Holding
  <1>7. Leases'
    BY <1>3, <1>5, <1>6, LeasesKept DEF Inv, Invalidate
  <1>8. RequestIsComplete'
    BY <1>4 DEF Inv, RequestIsComplete
  <1>9. SessionMatchesFingerprint'
    BY <1>3 DEF SessionMatchesFingerprint
  <1>10. LeasedSessionIsTheOneAskedFor'
    <2>1. \A u \in Threads : threads[u].pc \in {"opened", "leased"} =>
            threads[u].slot \in Slots /\ slots[threads[u].slot].leased
      BY DEF Inv, Leases, HolderHasLease, Held, Holding
    <2>2. \A u \in Threads : threads'[u].pc \in {"opened", "leased"} =>
            /\ threads[u].pc \in {"opened", "leased"}
            /\ threads'[u].slot = threads[u].slot
            /\ threads'[u].conn = threads[u].conn
            /\ threads'[u].cfg = threads[u].cfg
      BY <1>4
    <2> QED
      BY <1>3, <2>1, <2>2 DEF Inv, Sessions, LeasedSessionIsTheOneAskedFor
  <1> QED
    BY <1>5, <1>7, <1>8, <1>9, <1>10 DEF Inv, Sessions

(* The ticker takes an idle session.                                         *)
LEMMA PingStartKeepsInv ==
  ASSUME Inv, NEW s \in Slots, PingStart(s)
  PROVE  Inv'
  <1> DEFINE o == [slots[s] EXCEPT !.leased = TRUE]
  <1>1. slots[s] \in SlotType /\ slots[s].used /\ ~slots[s].leased /\ pinging = 0
    BY DEF Inv, TypeOK, PingStart
  <1>2. /\ o \in SlotType /\ o.leased /\ o.used /\ o.conn = slots[s].conn
        /\ o.fp = slots[s].fp /\ o.inst = slots[s].inst
    BY <1>1 DEF SlotType
  <1>3. slots' = [slots EXCEPT ![s] = o] /\ pinging' = s
    BY DEF PingStart
  <1> HIDE DEF o
  <1>4. \A q \in Slots : slots'[q] = IF q = s THEN o ELSE slots[q]
    BY <1>3 DEF Inv, TypeOK
  <1>5. \A u \in Threads : Held(u) => threads[u].slot # s
    BY <1>1 DEF Inv, Leases, HolderHasLease
  <1>6. TypeOK'
    <2>1. \A q \in Slots : ~slots'[q].used => slots'[q] = EmptySlot
      BY <1>2, <1>4 DEF Inv, TypeOK
    <2> QED
      BY <1>2, <1>3, <2>1 DEF Inv, TypeOK, PingStart
  <1>7. HolderHasLease' /\ OneHolder' /\ RequestIsComplete'
    BY <1>2, <1>4 DEF Inv, Leases, HolderHasLease, OneHolder, RequestIsComplete, Held, PingStart
  <1>8. PingedHasLease'
    BY <1>2, <1>3, <1>4, <1>5 DEF PingedHasLease, Held, PingStart
  <1>9. LeaseHasHolder'
    BY <1>1, <1>3, <1>4 DEF Inv, Leases, LeaseHasHolder, Held, PingStart, Slots
  <1>10. Sessions'
    BY <1>2, <1>4, <1>5
    DEF Inv, Sessions, SessionMatchesFingerprint, LeasedSessionIsTheOneAskedFor, PingStart,
        Leases, HolderHasLease, Held, Holding
  <1> QED
    BY <1>6, <1>7, <1>8, <1>9, <1>10 DEF Inv, Leases

(* The ticker puts it back, closed if the ping failed.                       *)
LEMMA PingDoneKeepsInv ==
  ASSUME Inv, NEW ok \in BOOLEAN, PingDone(ok)
  PROVE  Inv'
  <1> DEFINE o == [slots[pinging] EXCEPT !.leased = FALSE,
                                         !.inst = IF ok THEN slots[pinging].inst ELSE None,
                                         !.error = ~ok]
  <1>1. pinging \in Slots /\ pinging' = 0 /\ slots[pinging].leased
    BY DEF Inv, TypeOK, PingDone, Leases, PingedHasLease
  <1>2. slots[pinging] \in SlotType /\ slots[pinging].used
    BY <1>1 DEF Inv, TypeOK, EmptySlot
  <1>3. /\ o \in SlotType /\ ~o.leased /\ o.used
        /\ o.inst = (IF ok THEN slots[pinging].inst ELSE None) /\ o.fp = slots[pinging].fp
    BY <1>2 DEF SlotType
  <1>4. slots' = [slots EXCEPT ![pinging] = o]
    BY DEF PingDone
  <1> HIDE DEF o
  <1>5. \A q \in Slots : slots'[q] = IF q = pinging THEN o ELSE slots[q]
    BY <1>4 DEF Inv, TypeOK
  <1>6. /\ threads' \in [Threads -> ThreadType]
        /\ \A u \in Threads : /\ threads'[u].conn = threads[u].conn
                              /\ threads'[u].cfg = threads[u].cfg
                              /\ threads'[u].slot = threads[u].slot
                              /\ threads'[u].pc = IF threads[u].pc = "waiting"
                                                  THEN "want" ELSE threads[u].pc
    BY WokenType DEF Inv, TypeOK, PingDone
  <1>7. \A u \in Threads : SameHolder(u)
    BY <1>6 DEF SameHolder, Held, Holding
  <1>8. \A u \in Threads : Held(u) => threads[u].slot # pinging
    BY <1>1 DEF Inv, Leases, PingedHasLease, Slots
  <1>9. TypeOK'
    <2>1. slots' \in [Slots -> SlotType]
      BY <1>3, <1>4 DEF Inv, TypeOK
    <2>2. \A q \in Slots : ~slots'[q].used => slots'[q] = EmptySlot
      BY <1>3, <1>5 DEF Inv, TypeOK
    <2>3. doomed' \in [Slots -> {"no", "opening", "leased", "pinged", "skipped"}]
      BY DEF Inv, TypeOK, PingDone
    <2> QED
      BY <1>1, <1>6, <2>1, <2>2, <2>3 DEF Inv, TypeOK, PingDone
  <1>10. HolderHasLease'
    BY <1>5, <1>7, <1>8 DEF Inv, Leases, HolderHasLease, SameHolder
  <1>11. OneHolder'
    BY <1>7 DEF Inv, Leases, OneHolder, SameHolder
  <1>12. PingedHasLease'
    BY <1>1 DEF PingedHasLease
  <1>13. LeaseHasHolder'
    BY <1>3, <1>5, <1>7 DEF Inv, Leases, LeaseHasHolder, SameHolder
  <1>14. RequestIsComplete'
    BY <1>6 DEF Inv, RequestIsComplete
  <1>15. SessionMatchesFingerprint'
    BY <1>1, <1>3, <1>5 DEF Inv, Sessions, SessionMatchesFingerprint
  <1>16. LeasedSessionIsTheOneAskedFor'
    <2>1. \A u \in Threads : threads'[u].pc \in {"opened", "leased"} =>
            /\ threads[u].pc \in {"opened", "leased"} /\ Held(u)
            /\ threads'[u].slot = threads[u].slot
            /\ threads'[u].conn = threads[u].conn
            /\ threads'[u].cfg = threads[u].cfg
      BY <1>6 DEF Held, Holding
    <2>2. \A u \in Threads : Held(u) => slots'[threads[u].slot] = slots[threads[u].slot]
      BY <1>5, <1>8 DEF Inv, Leases, HolderHasLease
    <2> QED
      BY <2>1, <2>2 DEF Inv, Sessions, LeasedSessionIsTheOneAskedFor
  <1> QED
    BY <1>9, <1>10, <1>11, <1>12, <1>13, <1>14, <1>15, <1>16 DEF Inv, Leases, Sessions

LEMMA EditConnectionKeepsInv ==
  ASSUME Inv, NEW c \in Conns, EditConnection(c)
  PROVE  Inv'
  <1>1. TypeOK'
    <2>1. catalog' \in [Conns -> 0..MaxVersion]
      BY DEF Inv, TypeOK, EditConnection
    <2> QED
      BY <2>1 DEF Inv, TypeOK, EditConnection
  <1>2. UNCHANGED <<slots, threads, pinging>>
    BY DEF EditConnection
  <1> QED
    BY <1>1, <1>2
    DEF Inv, Leases, Sessions, HolderHasLease, OneHolder, PingedHasLease, LeaseHasHolder, Held,
        RequestIsComplete, SessionMatchesFingerprint, LeasedSessionIsTheOneAskedFor

-----------------------------------------------------------------------------
LEMMA InvInit == Init => Inv
  <1> SUFFICES ASSUME Init PROVE Inv
    OBVIOUS
  <1>1. TypeOK
    BY EmptySlotType, IdleThreadType DEF Init, TypeOK
  <1>2. Leases
    BY DEF Init, EmptySlot, IdleThread, Leases, HolderHasLease, OneHolder, PingedHasLease,
           LeaseHasHolder, Held, Holding
  <1>3. RequestIsComplete /\ Sessions
    BY DEF Init, EmptySlot, IdleThread, RequestIsComplete, Sessions,
           SessionMatchesFingerprint, LeasedSessionIsTheOneAskedFor
  <1> QED
    BY <1>1, <1>2, <1>3 DEF Inv

LEMMA InvNext == Inv /\ [Next]_vars => Inv'
  <1> SUFFICES ASSUME Inv, [Next]_vars PROVE Inv'
    OBVIOUS
  <1>1. ASSUME NEW t \in Threads, NEW c \in Conns, NEW o \in Overlays, Resolve(t, c, o)
        PROVE  Inv'
    BY <1>1, ResolveKeepsInv
  <1>2. ASSUME NEW t \in Threads, Acquire(t) PROVE Inv'
    BY <1>2, TakeLiveKeepsInv, ReopenKeepsInv, OpenNewKeepsInv, WaitKeepsInv DEF Acquire
  <1>3. ASSUME NEW t \in Threads, OpenDone(t) PROVE Inv'
    BY <1>3, OpenDoneKeepsInv
  <1>4. ASSUME NEW t \in Threads, NEW ok \in BOOLEAN, SlotOpen(t, ok) PROVE Inv'
    BY <1>4, SlotOpenKeepsInv
  <1>5. ASSUME NEW t \in Threads, NEW ok \in BOOLEAN, Release(t, ok) PROVE Inv'
    BY <1>5, ReleaseKeepsInv
  <1>6. ASSUME NEW c \in Conns, EditConnection(c) PROVE Inv'
    BY <1>6, EditConnectionKeepsInv
  <1>7. CASE Invalidate
    BY <1>7, InvalidateKeepsInv
  <1>8. ASSUME NEW s \in Slots, PingStart(s) PROVE Inv'
    BY <1>8, PingStartKeepsInv
  <1>9. ASSUME NEW ok \in BOOLEAN, PingDone(ok) PROVE Inv'
    BY <1>9, PingDoneKeepsInv
  <1>10. CASE UNCHANGED vars
    BY <1>10
    DEF vars, Inv, TypeOK, Leases, Sessions, HolderHasLease, OneHolder, PingedHasLease,
        LeaseHasHolder, Held, RequestIsComplete, SessionMatchesFingerprint,
        LeasedSessionIsTheOneAskedFor
  <1> QED
    BY <1>1, <1>2, <1>3, <1>4, <1>5, <1>6, <1>7, <1>8, <1>9, <1>10 DEF Next, Client

LEMMA Invariance == Spec => []Inv
  BY InvInit, InvNext, PTL DEF Spec

(* The state of the pool keeps its types, and a slot that slot_free cleaned  *)
(* stays clean until it is used again (conn_pool.c:73-80).                   *)
THEOREM TypeCorrect == Spec => []TypeOK
  <1>1. Inv => TypeOK
    BY DEF Inv
  <1> QED
    BY <1>1, Invariance, PTL

(* However many slots, threads, directory entries and configurations there   *)
(* are, a leased slot has exactly one holder, a thread or the ticker, and a  *)
(* slot that is not leased has none (conn_pool.h:9).                         *)
THEOREM LeaseExclusive == Spec => []LeaseIsExclusive
  <1>1. Inv => LeaseIsExclusive
    <2> SUFFICES ASSUME Inv, NEW s \in Slots
                 PROVE  /\ slots[s].leased <=> Holders(s) # {} \/ pinging = s
                        /\ \A t, u \in Holders(s) : t = u
                        /\ pinging = s => Holders(s) = {}
      BY DEF LeaseIsExclusive
    <2>1. \A t : t \in Holders(s) <=> t \in Threads /\ Held(t) /\ threads[t].slot = s
      BY DEF Holders, Held
    <2>2. pinging = s => pinging # 0
      BY DEF Slots
    <2>3. slots[s].leased <=> Holders(s) # {} \/ pinging = s
      BY <2>1, <2>2 DEF Inv, Leases, HolderHasLease, LeaseHasHolder, PingedHasLease
    <2>4. \A t, u \in Holders(s) : t = u
      BY <2>1 DEF Inv, Leases, OneHolder
    <2>5. pinging = s => Holders(s) = {}
      BY <2>1, <2>2 DEF Inv, Leases, PingedHasLease
    <2> QED
      BY <2>3, <2>4, <2>5
  <1> QED
    BY <1>1, Invariance, PTL

(* Whatever evictions, edits, deletions, pings and other acquisitions        *)
(* happen, the session a step works over stays open and is the one for the   *)
(* configuration that step resolved (conn_pool.c:225-241, 328-338).          *)
THEOREM LeasedSessionIsRight == Spec => []LeasedSessionIsTheOneAskedFor
  <1>1. Inv => LeasedSessionIsTheOneAskedFor
    BY DEF Inv, Sessions
  <1> QED
    BY <1>1, Invariance, PTL

-----------------------------------------------------------------------------
(* What an invalidation found in a step's hands: its fingerprint is dead and *)
(* nobody is about to write it again, so the release closes the session.     *)
DoomedIsClosed ==
  \A s \in Slots : doomed[s] = "leased" =>
      /\ slots[s].fp = None
      /\ pinging # s
      /\ \A t \in Threads : threads[t].pc = "opening" => threads[t].slot # s
      /\ ~slots[s].leased => slots[s].inst = None
FailedIsEmpty ==
  \A t \in Threads : threads[t].pc = "failed" => slots[threads[t].slot].inst = None
Closed == DoomedIsClosed /\ FailedIsEmpty

(* The scan frees a doomed session only together with its mark.              *)
LEMMA ScanKeepsDoomed ==
  ASSUME TypeOK, NEW n, NEW c, NEW f, NEW s \in Slots, DoomedByScan(n, c, f)[s] = "leased"
  PROVE  doomed[s] = "leased" /\ Scanned(n, c, f)[s] = slots[s]
  BY DEF TypeOK, DoomedByScan, Scanned

(* A thread whose open failed still has the slot.                            *)
LEMMA FailedHasLease ==
  ASSUME Inv, NEW u \in Threads, threads[u].pc = "failed"
  PROVE  threads[u].slot \in Slots /\ slots[threads[u].slot].leased
  BY DEF Inv, Leases, HolderHasLease, Held, Holding

LEMMA AcquireKeepsClosed ==
  ASSUME Inv, Closed, NEW t \in Threads, Acquire(t)
  PROVE  Closed'
  <1> DEFINE c == threads[t].conn
             f == threads[t].cfg
             sl == Scanned(NSlots + 1, c, f)
  <1>1. f \in Configs /\ f # None /\ threads[t].pc = "want" /\ UNCHANGED pinging
    BY DEF Inv, RequestIsComplete, Acquire, Configs
  <1>2. threads \in [Threads -> ThreadType] /\ slots \in [Slots -> SlotType]
    BY DEF Inv, TypeOK
  <1>3. \A n : /\ \A s \in Slots : slots[s].leased => Scanned(n, c, f)[s] = slots[s]
               /\ \A s \in Slots : Scanned(n, c, f)[s].leased => slots[s].leased
               /\ DOMAIN Scanned(n, c, f) = Slots
    BY ScannedType DEF Inv
  <1>4. ASSUME NEW n, NEW s \in Slots, ~slots[s].leased,
               slots[s].fp # None \/ doomed'[s] # "leased",
               \A q \in Slots : doomed'[q] = "leased" =>
                   q = s \/ DoomedByScan(n, c, f)[q] = "leased",
               doomed'[s] = "leased" => doomed[s] = "leased",
               \A q \in Slots : q # s => slots'[q] = Scanned(n, c, f)[q],
               \A u \in Threads : u # t => threads'[u] = threads[u],
               threads'[t].pc \in {"opening", "leased"}, threads'[t].slot = s
        PROVE  Closed'
    <2>1. \A q \in Slots : doomed'[q] = "leased" =>
              q # s /\ doomed[q] = "leased" /\ slots'[q] = slots[q]
      BY <1>4, ScanKeepsDoomed DEF Inv, Closed, DoomedIsClosed
    <2>2. DoomedIsClosed'
      BY <1>1, <1>4, <2>1 DEF Closed, DoomedIsClosed
    <2>3. FailedIsEmpty'
      <3> SUFFICES ASSUME NEW u \in Threads, threads'[u].pc = "failed"
                   PROVE  slots'[threads'[u].slot].inst = None
        BY DEF FailedIsEmpty
      <3>1. threads'[u] = threads[u]
        BY <1>4
      <3>2. threads[u].slot \in Slots /\ slots[threads[u].slot].leased
        BY <3>1, FailedHasLease
      <3> QED  BY <1>3, <1>4, <3>1, <3>2 DEF Closed, FailedIsEmpty
    <2> QED  BY <2>2, <2>3 DEF Closed
  <1>5. ASSUME slots' = sl, doomed' = DoomedByScan(NSlots + 1, c, f),
               \A u \in Threads : u # t => threads'[u] = threads[u],
               threads'[t].pc \in {"idle", "waiting"}
        PROVE  Closed'
    <2>1. \A q \in Slots : doomed'[q] = "leased" =>
              doomed[q] = "leased" /\ slots'[q] = slots[q]
      BY <1>5, ScanKeepsDoomed DEF Inv
    <2>2. DoomedIsClosed'
      BY <1>1, <1>5, <2>1 DEF Closed, DoomedIsClosed
    <2>3. FailedIsEmpty'
      <3> SUFFICES ASSUME NEW u \in Threads, threads'[u].pc = "failed"
                   PROVE  slots'[threads'[u].slot].inst = None
        BY DEF FailedIsEmpty
      <3>1. threads'[u] = threads[u]
        BY <1>5
      <3>2. threads[u].slot \in Slots /\ slots[threads[u].slot].leased
        BY <3>1, FailedHasLease
      <3> QED  BY <1>3, <1>5, <3>1, <3>2 DEF Closed, FailedIsEmpty
    <2> QED  BY <2>2, <2>3 DEF Closed
  <1>6. CASE TakeLive(t, c, f)
    <2>1. PICK s \in Slots :
            /\ First(s, Live(c, f))
            /\ slots' = [Scanned(s, c, f) EXCEPT ![s].leased = TRUE]
            /\ doomed' = DoomedByScan(s, c, f)
            /\ SetThread(t, [threads[t] EXCEPT !.pc = "leased", !.slot = s])
      BY <1>6 DEF TakeLive
    <2>2. ~slots[s].leased /\ slots[s].fp = f
      BY <2>1 DEF First, Live, Of
    <2>3. threads'[t].pc = "leased" /\ threads'[t].slot = s
          /\ \A u \in Threads : u # t => threads'[u] = threads[u]
      BY <1>2, <2>1 DEF SetThread, ThreadType
    <2>4. \A q \in Slots : q # s => slots'[q] = Scanned(s, c, f)[q]
      BY <1>3, <2>1
    <2>5. doomed'[s] = "leased" => doomed[s] = "leased"
      BY <2>1, ScanKeepsDoomed DEF Inv
    <2> HIDE DEF c, f
    <2> QED  BY <1>1, <1>4, <2>1, <2>2, <2>3, <2>4, <2>5
  <1>7. CASE Reopen(t, c, f)
    <2>1. PICK s \in Slots :
            /\ First(s, Dead(c, f))
            /\ doomed' = DoomedByScan(NSlots + 1, c, f)
            /\ \/ /\ slots' = [sl EXCEPT ![s] = Reserved(sl[s], c, f)]
                  /\ SetThread(t, [threads[t] EXCEPT !.pc = "opening", !.slot = s])
               \/ slots' = sl /\ SetThread(t, IdleThread)
      BY <1>7 DEF Reopen
    <2>2. ~slots[s].leased /\ slots[s].fp = f
      BY <2>1 DEF First, Dead, Of
    <2>3. CASE /\ slots' = [sl EXCEPT ![s] = Reserved(sl[s], c, f)]
               /\ SetThread(t, [threads[t] EXCEPT !.pc = "opening", !.slot = s])
      <3>1. threads'[t].pc = "opening" /\ threads'[t].slot = s
            /\ \A u \in Threads : u # t => threads'[u] = threads[u]
        BY <1>2, <2>3 DEF SetThread, ThreadType
      <3>2. \A q \in Slots : q # s => slots'[q] = sl[q]
        BY <1>3, <2>3
      <3>3. doomed'[s] = "leased" => doomed[s] = "leased"
        BY <2>1, ScanKeepsDoomed DEF Inv
      <3> HIDE DEF c, f
      <3> QED  BY <1>1, <1>4, <2>1, <2>2, <3>1, <3>2, <3>3
    <2>4. CASE slots' = sl /\ SetThread(t, IdleThread)
      <3>1. threads'[t].pc = "idle" /\ \A u \in Threads : u # t => threads'[u] = threads[u]
        BY <1>2, <2>4 DEF SetThread, IdleThread
      <3> QED  BY <1>5, <2>1, <2>4, <3>1
    <2> QED  BY <2>1, <2>3, <2>4
  <1>8. CASE OpenNew(t, c, f)
    <2>1. PICK s \in Room(sl) :
            /\ slots' = [sl EXCEPT ![s] = Reserved(EmptySlot, c, f)]
            /\ doomed' = [DoomedByScan(NSlots + 1, c, f) EXCEPT ![s] = "no"]
            /\ SetThread(t, [threads[t] EXCEPT !.pc = "opening", !.slot = s])
      BY <1>8 DEF OpenNew
    <2>2. s \in Slots /\ ~sl[s].leased
      <3>1. s \in Slots /\ (~sl[s].used \/ ~sl[s].leased)
        BY <2>1 DEF Room
      <3>2. ~sl[s].used => sl[s] = EmptySlot
        BY <3>1, ScannedType DEF Inv
      <3> QED  BY <3>1, <3>2 DEF EmptySlot
    <2>3. ~slots[s].leased
      BY <1>3, <2>2
    <2>4. /\ doomed'[s] # "leased"
          /\ \A q \in Slots : q # s => doomed'[q] = DoomedByScan(NSlots + 1, c, f)[q]
      BY <2>1, <2>2, DoomedByScanType DEF Inv
    <2>5. threads'[t].pc = "opening" /\ threads'[t].slot = s
          /\ \A u \in Threads : u # t => threads'[u] = threads[u]
      BY <1>2, <2>1, <2>2 DEF SetThread, ThreadType
    <2>6. \A q \in Slots : q # s => slots'[q] = sl[q]
      BY <1>3, <2>1
    <2> HIDE DEF c, f
    <2> QED  BY <1>4, <2>2, <2>3, <2>4, <2>5, <2>6
  <1>9. CASE Wait(t, c, f)
    <2>1. /\ slots' = sl /\ doomed' = DoomedByScan(NSlots + 1, c, f)
          /\ threads'[t].pc = "waiting" /\ \A u \in Threads : u # t => threads'[u] = threads[u]
      BY <1>2, <1>9 DEF Wait, SetThread, ThreadType
    <2> QED  BY <1>5, <2>1
  <1> QED  BY <1>6, <1>7, <1>8, <1>9 DEF Acquire

(* slot_open writes the fingerprint again, but not of a slot marked while a  *)
(* step had it.                                                              *)
LEMMA SlotOpenKeepsClosed ==
  ASSUME Inv, Closed, NEW t \in Threads, NEW ok \in BOOLEAN, SlotOpen(t, ok)
  PROVE  Closed'
  <1> DEFINE s == threads[t].slot
             pc == IF ok THEN "opened" ELSE "failed"
  <1>1. /\ threads[t].pc = "opening" /\ UNCHANGED <<pinging, doomed>>
        /\ \A q \in Slots : q # s => slots'[q] = slots[q]
        /\ s \in Slots /\ (~ok => slots'[s].inst = None)
        /\ threads'[t].slot = s /\ threads'[t].pc = pc
        /\ \A u \in Threads : u # t => threads'[u] = threads[u]
    BY DEF Inv, TypeOK, Leases, HolderHasLease, Held, Holding, SlotOpen, SetThread, ThreadType
  <1>2. \A u \in Threads : u # t /\ threads[u].pc = "failed" => threads[u].slot # s
    BY <1>1 DEF Inv, Leases, OneHolder, Held, Holding
  <1>3. doomed[s] # "leased"
    BY <1>1 DEF Closed, DoomedIsClosed
  <1> HIDE DEF s
  <1>4. DoomedIsClosed'
    BY <1>1, <1>3 DEF Closed, DoomedIsClosed
  <1>5. FailedIsEmpty'
    <2> SUFFICES ASSUME NEW u \in Threads, threads'[u].pc = "failed"
                 PROVE  slots'[threads'[u].slot].inst = None
      BY DEF FailedIsEmpty
    <2>1. CASE u = t
      BY <1>1, <2>1
    <2>2. CASE u # t
      <3>1. threads'[u] = threads[u] /\ threads[u].slot # s /\ threads[u].slot \in Slots
        BY <1>1, <1>2, <2>2, FailedHasLease
      <3> QED  BY <1>1, <3>1 DEF Closed, FailedIsEmpty
    <2> QED  BY <2>1, <2>2
  <1> QED  BY <1>4, <1>5 DEF Closed

LEMMA OpenDoneKeepsClosed ==
  ASSUME Inv, Closed, NEW t \in Threads, OpenDone(t)
  PROVE  Closed'
  <1> DEFINE s == threads[t].slot
  <1>1. /\ UNCHANGED <<pinging, doomed>> /\ threads[t].pc \in {"opened", "failed"} /\ s \in Slots
        /\ \A q \in Slots : q # s => slots'[q] = slots[q]
        /\ slots'[s].fp = slots[s].fp /\ slots'[s].inst = slots[s].inst
        /\ slots'[s].leased \/ threads[t].pc = "failed"
    <2>1. threads[t].pc \in {"opened", "failed"} /\ UNCHANGED <<pinging, doomed>>
      BY DEF OpenDone
    <2>2. s \in Slots /\ slots[s].leased
      BY <2>1 DEF Inv, Leases, HolderHasLease, Held, Holding
    <2>3. slots \in [Slots -> SlotType] /\ slots[s] \in SlotType
      BY <2>2 DEF Inv, TypeOK
    <2>4. CASE threads[t].pc = "opened" /\ slots' = [slots EXCEPT ![s].opening = FALSE]
      BY <2>1, <2>2, <2>3, <2>4 DEF SlotType
    <2>5. CASE /\ threads[t].pc = "failed"
               /\ slots' = [slots EXCEPT ![s] = [@ EXCEPT !.opening = FALSE, !.leased = FALSE]]
      BY <2>1, <2>2, <2>3, <2>5 DEF SlotType
    <2> QED  BY <2>4, <2>5 DEF OpenDone
  <1>2. /\ threads'[t].pc \notin {"opening", "failed"}
        /\ \A u \in Threads : u # t /\ threads'[u].pc \in {"opening", "failed"} =>
              threads'[u].pc = threads[u].pc /\ threads'[u].slot = threads[u].slot
    <2>1. CASE SetThread(t, [threads[t] EXCEPT !.pc = "leased"])
      BY <2>1 DEF Inv, TypeOK, ThreadType, SetThread
    <2>2. CASE threads' = Woken([threads EXCEPT ![t] = IdleThread])
      <3>1. [threads EXCEPT ![t] = IdleThread] \in [Threads -> ThreadType]
        BY IdleThreadType DEF Inv, TypeOK
      <3>2. [threads EXCEPT ![t] = IdleThread][t].pc = "idle"
        BY DEF Inv, TypeOK, IdleThread
      <3> QED  BY <2>2, <3>1, <3>2, WokenType
    <2> QED  BY <2>1, <2>2 DEF OpenDone
  <1> HIDE DEF s
  <1>3. slots'[s].leased \/ slots[s].inst = None
    BY <1>1 DEF s, Closed, FailedIsEmpty
  <1>4. \A q \in Slots : /\ slots'[q].fp = slots[q].fp /\ slots'[q].inst = slots[q].inst
                         /\ ~slots'[q].leased => ~slots[q].leased \/ slots[q].inst = None
    BY <1>1, <1>3
  <1>5. DoomedIsClosed'
    BY <1>1, <1>2, <1>4 DEF Closed, DoomedIsClosed
  <1>6. FailedIsEmpty'
    BY <1>2, <1>4, FailedHasLease DEF Closed, FailedIsEmpty
  <1> QED  BY <1>5, <1>6 DEF Closed

(* The lease of a doomed session ends with the session.                      *)
LEMMA ReleaseKeepsClosed ==
  ASSUME Inv, Closed, NEW t \in Threads, NEW healthy \in BOOLEAN, Release(t, healthy)
  PROVE  Closed'
  <1> DEFINE s == threads[t].slot
  <1>1. /\ threads[t].pc = "leased" /\ UNCHANGED pinging /\ s \in Slots
        /\ slots'[s] = Returned(slots[s], healthy)
        /\ \A q \in Slots : q # s => slots'[q] = slots[q]
        /\ doomed' = IF slots'[s].used THEN doomed ELSE [doomed EXCEPT ![s] = "no"]
    BY DEF Inv, TypeOK, Leases, HolderHasLease, Held, Holding, Release
  <1>2. \A u \in Threads : threads'[u].pc \in {"opening", "failed"} =>
            threads'[u].pc = threads[u].pc /\ threads'[u].slot = threads[u].slot /\ u # t
    <2>1. threads' = Woken([threads EXCEPT ![t] = IdleThread])
      BY DEF Release
    <2>2. [threads EXCEPT ![t] = IdleThread] \in [Threads -> ThreadType]
      BY IdleThreadType DEF Inv, TypeOK
    <2>3. /\ [threads EXCEPT ![t] = IdleThread][t].pc = "idle"
          /\ \A u \in Threads : u # t => [threads EXCEPT ![t] = IdleThread][u] = threads[u]
      BY DEF Inv, TypeOK, IdleThread
    <2> QED  BY <2>1, <2>2, <2>3, WokenType
  <1>3. doomed \in [Slots -> {"no", "opening", "leased", "pinged", "skipped"}]
    BY DEF Inv, TypeOK
  <1>4. doomed'[s] # "leased"
    <2>1. CASE doomed[s] = "leased"
      <3>1. slots[s].fp = None
        BY <1>1, <2>1 DEF Closed, DoomedIsClosed
      <3>2. ~slots'[s].used
        BY <1>1, <3>1 DEF Returned, EmptySlot
      <3> QED  BY <1>1, <1>3, <3>2
    <2>2. CASE doomed[s] # "leased"
      BY <1>1, <1>3, <2>2
    <2> QED  BY <2>1, <2>2
  <1>5. \A u \in Threads : threads[u].pc = "failed" =>
            threads[u].slot # s /\ threads[u].slot \in Slots
    BY <1>1, FailedHasLease DEF Inv, Leases, OneHolder, Held, Holding
  <1>6. \A q \in Slots : doomed'[q] = "leased" => q # s /\ doomed[q] = "leased"
    BY <1>1, <1>3, <1>4
  <1> HIDE DEF s
  <1>7. DoomedIsClosed'
    BY <1>1, <1>2, <1>6 DEF Closed, DoomedIsClosed
  <1>8. FailedIsEmpty'
    BY <1>1, <1>2, <1>5 DEF Closed, FailedIsEmpty
  <1> QED  BY <1>7, <1>8 DEF Closed

(* An edit or a deletion kills the fingerprint of what it finds leased.      *)
LEMMA InvalidateKeepsClosed ==
  ASSUME Inv, Closed, Invalidate
  PROVE  Closed'
  <1> DEFINE hit == {s \in Slots : slots[s].used /\ slots[s].conn = pending}
  <1>1. /\ \A s \in Slots : slots'[s] = IF s \notin hit THEN slots[s]
                                        ELSE IF slots[s].leased THEN [slots[s] EXCEPT !.fp = None]
                                        ELSE EmptySlot
        /\ \A s \in Slots : doomed'[s] = IF s \notin hit THEN doomed[s]
                                         ELSE IF slots[s].leased THEN HolderPhase(s) ELSE "no"
        /\ UNCHANGED pinging
    BY DEF Invalidate
  <1>2. \A u \in Threads : threads'[u].pc \in {"opening", "failed"} =>
            threads'[u].pc = threads[u].pc /\ threads'[u].slot = threads[u].slot
    BY WokenType DEF Invalidate, Inv, TypeOK
  <1>3. \A s \in Slots : slots[s] \in SlotType
    BY DEF Inv, TypeOK
  <1> HIDE DEF hit
  <1>4. DoomedIsClosed'
    <2> SUFFICES ASSUME NEW s \in Slots, doomed'[s] = "leased"
                 PROVE  /\ slots'[s].fp = None /\ pinging # s
                        /\ \A t \in Threads : threads'[t].pc = "opening" => threads'[t].slot # s
                        /\ ~slots'[s].leased => slots'[s].inst = None
      BY <1>1 DEF DoomedIsClosed
    <2>1. CASE s \notin hit
      <3>1. slots'[s] = slots[s] /\ doomed[s] = "leased"
        BY <1>1, <2>1
      <3> QED  BY <1>2, <3>1 DEF Closed, DoomedIsClosed
    <2>2. CASE s \in hit
      <3>1. slots[s].leased /\ HolderPhase(s) = "leased"
        BY <1>1, <2>2
      <3>2. slots'[s].fp = None /\ slots'[s].leased
        BY <1>1, <1>3, <2>2, <3>1 DEF SlotType
      <3>3. s # pinging /\ ~\E t \in Threads : threads[t].slot = s /\ threads[t].pc = "opening"
        BY <3>1 DEF HolderPhase
      <3> QED  BY <1>2, <3>2, <3>3
    <2> QED  BY <2>1, <2>2
  <1>5. FailedIsEmpty'
    <2>1. \A s \in Slots : slots[s].leased => slots'[s].inst = slots[s].inst
      BY <1>1, <1>3 DEF SlotType
    <2> QED  BY <1>2, <2>1, FailedHasLease DEF Closed, FailedIsEmpty
  <1> QED  BY <1>4, <1>5 DEF Closed

(* The ticker takes only an idle live session, which is not doomed.          *)
LEMMA PingStartKeepsClosed ==
  ASSUME Inv, Closed, NEW s \in Slots, PingStart(s)
  PROVE  Closed'
  <1>1. /\ UNCHANGED <<threads, doomed>> /\ pinging' = s /\ ~slots[s].leased
        /\ slots[s].inst # None
        /\ \A q \in Slots : q # s => slots'[q] = slots[q]
        /\ slots'[s].fp = slots[s].fp /\ slots'[s].inst = slots[s].inst /\ slots'[s].leased
    BY DEF PingStart, Inv, TypeOK, SlotType
  <1>2. doomed[s] # "leased"
    BY <1>1 DEF Closed, DoomedIsClosed
  <1>3. DoomedIsClosed'
    BY <1>1, <1>2 DEF Closed, DoomedIsClosed
  <1>4. FailedIsEmpty'
    BY <1>1, FailedHasLease DEF Closed, FailedIsEmpty
  <1> QED  BY <1>3, <1>4 DEF Closed

LEMMA PingDoneKeepsClosed ==
  ASSUME Inv, Closed, NEW ok \in BOOLEAN, PingDone(ok)
  PROVE  Closed'
  <1>1. /\ pinging \in Slots /\ pinging' = 0
        /\ \A q \in Slots : q # pinging => slots'[q] = slots[q]
        /\ doomed' = IF ok THEN doomed ELSE [doomed EXCEPT ![pinging] = "no"]
    BY DEF PingDone, Inv, TypeOK
  <1>2. \A u \in Threads : threads'[u].pc \in {"opening", "failed"} =>
            threads'[u].pc = threads[u].pc /\ threads'[u].slot = threads[u].slot
    BY WokenType DEF PingDone, Inv, TypeOK
  <1>3. doomed[pinging] # "leased" /\ \A s \in Slots : s # 0
    BY <1>1 DEF Closed, DoomedIsClosed, Slots
  <1>4. \A q \in Slots : doomed'[q] = "leased" => q # pinging /\ doomed[q] = "leased"
    BY <1>1, <1>3 DEF Inv, TypeOK
  <1>5. DoomedIsClosed'
    BY <1>1, <1>2, <1>3, <1>4 DEF Closed, DoomedIsClosed
  <1>6. \A u \in Threads : threads[u].pc = "failed" =>
            threads[u].slot # pinging /\ threads[u].slot \in Slots
    BY <1>1, <1>3, FailedHasLease DEF Inv, Leases, PingedHasLease, Held, Holding
  <1>7. FailedIsEmpty'
    BY <1>1, <1>2, <1>6 DEF Closed, FailedIsEmpty
  <1> QED  BY <1>5, <1>7 DEF Closed

LEMMA ClosedNext == Inv /\ Closed /\ [Next]_vars => Closed'
  <1> SUFFICES ASSUME Inv, Closed, [Next]_vars  PROVE Closed'
    OBVIOUS
  <1>1. ASSUME NEW t \in Threads, Client(t)  PROVE Closed'
    BY <1>1, AcquireKeepsClosed, OpenDoneKeepsClosed, SlotOpenKeepsClosed, ReleaseKeepsClosed
       DEF Client
  <1>2. ASSUME NEW t \in Threads, NEW c \in Conns, NEW o \in Overlays, Resolve(t, c, o)
        PROVE  Closed'
    <2>1. /\ UNCHANGED <<slots, pinging, doomed>> /\ threads'[t].pc = "want"
          /\ \A u \in Threads : u # t => threads'[u] = threads[u]
      BY <1>2 DEF Resolve, SetThread, Inv, TypeOK
    <2> QED  BY <2>1 DEF Closed, DoomedIsClosed, FailedIsEmpty
  <1>3. ASSUME NEW c \in Conns, EditConnection(c)  PROVE Closed'
    BY <1>3 DEF EditConnection, Closed, DoomedIsClosed, FailedIsEmpty
  <1>4. CASE Invalidate
    BY <1>4, InvalidateKeepsClosed
  <1>5. ASSUME NEW s \in Slots, PingStart(s)  PROVE Closed'
    BY <1>5, PingStartKeepsClosed
  <1>6. ASSUME NEW ok \in BOOLEAN, PingDone(ok)  PROVE Closed'
    BY <1>6, PingDoneKeepsClosed
  <1>7. CASE UNCHANGED vars
    BY <1>7 DEF vars, Closed, DoomedIsClosed, FailedIsEmpty
  <1> QED  BY <1>1, <1>2, <1>3, <1>4, <1>5, <1>6, <1>7 DEF Next

(* A session that an edit or a deletion found in a step's hands does not go  *)
(* back into the pool, whoever else opens, pings or scans it by then         *)
(* (conn_pool.c:306-311, 328-338).                                           *)
THEOREM DoomedLeaseCloses == Spec => []InvalidatedLeaseIsNotPooled
  <1>1. Init => Closed
    BY DEF Init, Closed, DoomedIsClosed, FailedIsEmpty, IdleThread
  <1>2. Closed => InvalidatedLeaseIsNotPooled
    BY DEF Closed, DoomedIsClosed, InvalidatedLeaseIsNotPooled
  <1> QED  BY <1>1, <1>2, Invariance, ClosedNext, PTL DEF Spec

=============================================================================
