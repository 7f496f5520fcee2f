-------------------------- MODULE StepsAndWireProofs --------------------------
(***************************************************************************)
(* Proofs about two components that share no state.                        *)
(*                                                                         *)
(* PipelineSteps: what a source step leaves in its table                   *)
(* (StageIsWhatWasRead), what a sink step leaves in the destination        *)
(* (SinkGotTheTable), and that a feed carries each row over once           *)
(* (EachRowOnce), for any pipelines, batches, pages, retries and crashes.  *)
(* The invariant follows the rows of an attempt: between two batches of a  *)
(* sink the destination has a prefix of the table, and the page in hand is *)
(* what follows it (Pushing); between two pages of a source the table has  *)
(* the rows from the first cursor to the present one (Pulling).            *)
(*                                                                         *)
(* PgWire: slots, their reuse and the pointers between them implement the  *)
(* maps of PgProtocol, but for the batch that goes on when the engine      *)
(* refuses an Execute (KeepsTheProtocol), for any clients, names, slots,   *)
(* texts and values.  The invariant: a name stands in one slot, a released slot   *)
(* has no text, and a connection that has not logged in has empty slots.   *)
(***************************************************************************)
EXTENDS PipelineSteps, PgWire, FunctionTheorems, SequenceTheorems, FiniteSetTheorems, TLAPS

RunStates(R) ==
    [phase : Phases, order : Seq(Nat), at : Nat, retries : Nat, slept : R, prev : R,
     cursor : Nat, from : Nat, created : BOOLEAN, total : Nat, offset : Nat, first : BOOLEAN,
     page : Seq(Nat), more : BOOLEAN, base : Seq(Nat), done : SUBSET Nat,
     retryable : BOOLEAN, touched : BOOLEAN]

Types ==
    /\ pipe \in Pipelines /\ source \in Nat /\ watermark \in [DOMAIN pipe -> Nat]
    /\ tables \in [TableNames -> Seq(Nat)] /\ existing \subseteq TableNames
    /\ sink \in Seq(Nat)
    /\ counts \in [runs : Nat, faults : Nat, edits : Nat]
    /\ \E R : run \in RunStates(R)

(* Where a run is in its order, and what the step there is doing.            *)
Placed ==
    /\ run.phase # "idle" => run.order = TopoOrder /\ run.at >= 1
    /\ run.phase \notin {"idle", "dispatch"} => run.at <= Len(TopoOrder)
    /\ run.phase \in {"query", "write"} => KindOf(Current) = "sink"
    /\ run.phase \in {"read", "append", "save"} => KindOf(Current) = "connector"
    /\ run.phase = "append" => run.page # <<>>
    /\ run.phase \in {"exec", "store", "fill"} => KindOf(Current) \notin {"sink", "connector"}

-----------------------------------------------------------------------------
(* A sink step.  The first n rows of what it selects, up to its own LIMIT.   *)
Capped(n) == IF Step.limit = -1 THEN n ELSE Shorter(n, Step.limit)
Whole == IF Step.limit = -1 THEN Selected ELSE PageOf(Selected, 0, Step.limit)
Before == IF Step.mode = "overwrite" THEN <<>> ELSE run.base
Pushed(n) == sink = Before \o SubSeq(Selected, 1, n)

Querying ==
    IF run.first THEN run.offset = 0 /\ sink = run.base
    ELSE ~NoSuchTable /\ Capped(run.offset) <= Len(Selected) /\ Pushed(Capped(run.offset))
EndOfPage == Shorter(run.offset + PageLimit, Len(Selected))
WrittenTo(pos) ==
    /\ pos <= EndOfPage /\ run.page = SubSeq(Selected, pos + 1, EndOfPage)
    /\ IF run.first THEN pos = 0 /\ run.offset = 0 /\ sink = run.base ELSE Pushed(pos)
Writing ==
    /\ ~NoSuchTable /\ ~CapReached
    /\ run.more = (EndOfPage = run.offset + PageLimit)
    /\ \E pos \in Nat : WrittenTo(pos)
Pushing ==
    ~run.touched /\ run.phase \notin {"idle", "dispatch"} /\ Step.limit # 0 =>
        /\ run.phase = "query" => Querying
        /\ run.phase = "write" => Writing
        /\ run.phase = "succeeded" /\ KindOf(Current) = "sink" => sink = Before \o Whole

(* A source step.  How many rows of the source were before, and are now.     *)
From == IF Step.incremental THEN RowsUpTo(run.from) ELSE 0
Upto == IF Step.incremental THEN RowsUpTo(run.cursor) ELSE run.cursor
Pulled == Out \in existing /\ tables[Out] = SubSeq(SourceRows, From + 1, Upto)
Pulling ==
    ~run.touched /\ run.phase \in {"read", "append", "save", "succeeded"} /\ PagesAsAsked
    /\ KindOf(Current) = "connector" =>
        /\ From <= Upto /\ (From = Upto \/ Upto <= source)
        /\ IF run.created THEN Pulled ELSE run.phase = "read" /\ From = Upto
        /\ ~Step.incremental => run.total = run.cursor
        /\ run.phase = "append" =>
            /\ run.page # <<>> /\ Upto + Len(run.page) <= source
            /\ run.page = SubSeq(SourceRows, Upto + 1, Upto + Len(run.page))

(* A feed that nothing disturbed: what its sink has, and has to get.         *)
UpToKey(key) == SubSeq(SourceRows, 1, RowsUpTo(key))
Staged(got) ==
    /\ run.prev = OutputTable(1) /\ OutputTable(1) \in existing
    /\ \E key \in Nat : 
        /\ RowsUpTo(key) <= RowsUpTo(watermark[1]) /\ got = UpToKey(key)
        /\ tables[OutputTable(1)]
            = SubSeq(SourceRows, RowsUpTo(key) + 1, RowsUpTo(watermark[1]))
Carrying ==
    /\ ~run.touched /\ run.phase # "failed" /\ RowsUpTo(watermark[1]) <= source
    /\ run.phase = "idle" => sink = UpToKey(watermark[1])
    /\ run.phase # "idle" =>
        /\ run.at = 1 /\ run.phase # "succeeded" => sink = UpToKey(watermark[1])
        /\ run.at = 1 /\ run.phase \in {"read", "append", "save"} => run.from = watermark[1]
        /\ run.at = 1 /\ run.phase = "succeeded" =>
            sink = UpToKey(run.from) /\ watermark[1] = run.cursor
        /\ run.at = 2 =>
            IF run.phase \in {"dispatch", "attempt"} THEN Staged(sink) ELSE Staged(run.base)
        /\ run.at > 2 => sink = UpToKey(watermark[1])
Fed == counts.faults = 0 /\ counts.edits = 0 /\ Feeds => Carrying

Inv == Types /\ Placed /\ Pushing /\ Pulling /\ Fed

-----------------------------------------------------------------------------
(* What depends on the pipeline only.                                        *)
LEMMA PipeKept ==
    ASSUME pipe' = pipe
    PROVE  /\ TopoOrder' = TopoOrder /\ TableNames' = TableNames /\ Feeds' = Feeds
           /\ \A i : KindOf(i)' = KindOf(i) /\ OutputTable(i)' = OutputTable(i)
  <1>1. TopoOrder' = TopoOrder
    BY DEF TopoOrder, ReadyAfter, DependsOn, Lowest
  <1>2. \A i : OutputTable(i)' = OutputTable(i)
    BY DEF OutputTable
  <1>3. \A i : KindOf(i)' = KindOf(i)
    BY DEF KindOf, Lowest
  <1>4. TableNames' = TableNames
    BY <1>2 DEF TableNames
  <1>5. Feeds' = Feeds
    BY <1>1, <1>3 DEF Feeds
  <1> QED  BY <1>1, <1>2, <1>3, <1>4, <1>5

-----------------------------------------------------------------------------
(* The order of the steps is one of steps of the pipeline.                   *)
LEMMA NatMin ==
    ASSUME NEW T \in SUBSET Nat, T # {}
    PROVE  \E m \in T : \A n \in T : m <= n
  <1>1. PICK N \in T : TRUE
    OBVIOUS
  <1> DEFINE R == StrictSubsetOrdering(0..N)
             U == {0..n : n \in {k \in T : k <= N}}
  <1>2. IsWellFoundedOn(R, FiniteSubsetsOf(0..N))
    <2>1. IsFiniteSet(0..N)
      BY FS_Interval
    <2> QED  BY <2>1, FS_StrictSubsetOrderingWellFounded
  <1>3. U \subseteq FiniteSubsetsOf(0..N) /\ U # {}
    <2>1. \A n \in {k \in T : k <= N} : 0..n \in SUBSET (0..N) /\ IsFiniteSet(0..n)
      BY FS_Interval
    <2>2. \A n \in {k \in T : k <= N} : 0..n \in FiniteSubsetsOf(0..N)
      BY <2>1 DEF FiniteSubsetsOf
    <2>3. 0..N \in U
      BY <1>1
    <2> QED  BY <2>2, <2>3
  <1>4. \E x \in U : \A y \in U : ~(<<y, x>> \in R)
    <2> HIDE DEF R, U
    <2> QED BY <1>2, <1>3, WFMin
  <1>5. PICK m \in {k \in T : k <= N} : \A n \in {k \in T : k <= N} : <<0..n, 0..m>> \notin R
    BY <1>4
  <1>6. ASSUME NEW n \in T, n < m  PROVE FALSE
    <2>1. n <= N /\ 0..n \subseteq 0..m /\ m \notin 0..n /\ m \in 0..m
      BY <1>5, <1>6
    <2>2. 0..n \in SUBSET (0..N) /\ 0..m \in SUBSET (0..N) /\ 0..n # 0..m
      BY <2>1, <1>5
    <2> QED  BY <1>5, <1>6, <2>1, <2>2 DEF StrictSubsetOrdering
  <1> QED  BY <1>5, <1>6

(* One more step of Kahn's algorithm.                                        *)
OneMore(s) == IF ReadyAfter(s) = {} THEN s ELSE Append(s, Lowest(ReadyAfter(s)))

LEMMA OneMoreStep ==
    ASSUME Types, NEW s \in Seq(DOMAIN pipe)
    PROVE  OneMore(s) \in Seq(DOMAIN pipe)
  <1>1. DOMAIN pipe = 1..Len(pipe) /\ Len(pipe) \in Nat
    BY StepsAssumption DEF Types, StepsAssumption
  <1>2. CASE ReadyAfter(s) # {}
    <2>1. ReadyAfter(s) \in SUBSET Nat /\ ReadyAfter(s) \subseteq DOMAIN pipe
      BY <1>1 DEF ReadyAfter
    <2>2. \E i \in ReadyAfter(s) : \A j \in ReadyAfter(s) : i <= j
      BY <1>2, <2>1, NatMin
    <2>3. Lowest(ReadyAfter(s)) \in DOMAIN pipe
      BY <2>1, <2>2 DEF Lowest
    <2> QED  BY <1>2, <2>3, AppendProperties DEF OneMore
  <1> QED  BY <1>2 DEF OneMore

Emits(n, g) ==
    /\ g \in [0..n -> Seq(DOMAIN pipe)] /\ g[0] = <<>>
    /\ \A k \in 1..n : g[k] = OneMore(g[k - 1])

LEMMA EmitsExist ==
    ASSUME Types, NEW n \in Nat
    PROVE  \E g : Emits(n, g)
  <1> DEFINE T == {k \in Nat : ~ \E g : Emits(k, g)}
  <1>1. \E g : Emits(0, g)
    <2>1. [k \in 0..0 |-> <<>>] \in [0..0 -> Seq(DOMAIN pipe)] /\ [k \in 0..0 |-> <<>>][0] = <<>>
      BY EmptySeq
    <2>2. Emits(0, [k \in 0..0 |-> <<>>])
      BY <2>1 DEF Emits
    <2> QED  BY <2>2
  <1>2. ASSUME NEW k \in Nat, NEW g, Emits(k, g)  PROVE \E h : Emits(k + 1, h)
    <2>1. PICK h : h = [i \in 0..(k + 1) |-> IF i = k + 1 THEN OneMore(g[k]) ELSE g[i]]
      OBVIOUS
    <2>2. OneMore(g[k]) \in Seq(DOMAIN pipe)
      BY <1>2, OneMoreStep DEF Emits
    <2>3. /\ \A i \in 0..k : h[i] = g[i] /\ g[i] \in Seq(DOMAIN pipe)
          /\ h[k + 1] = OneMore(g[k])
      BY <1>2, <2>1 DEF Emits
    <2>4. h \in [0..(k + 1) -> Seq(DOMAIN pipe)]
      <3>1. \A i \in 0..(k + 1) : h[i] \in Seq(DOMAIN pipe)
        BY <2>2, <2>3
      <3> QED  BY <2>1, <3>1
    <2>5. ASSUME NEW i \in 1..(k + 1)  PROVE h[i] = OneMore(h[i - 1])
      <3>1. i - 1 \in 0..k /\ h[i - 1] = g[i - 1]
        BY <2>3
      <3>2. CASE i = k + 1
        BY <2>3, <3>1, <3>2
      <3>3. CASE i \in 1..k
        BY <1>2, <2>3, <3>1, <3>3 DEF Emits
      <3> QED  BY <3>2, <3>3
    <2>6. h[0] = <<>>
      BY <1>2, <2>3 DEF Emits
    <2> QED  BY <2>4, <2>5, <2>6 DEF Emits
  <1>3. ASSUME T # {}  PROVE FALSE
    <2>1. PICK k \in T : \A j \in T : k <= j
      <3>1. T \in SUBSET Nat
        OBVIOUS
      <3> HIDE DEF T
      <3> QED  BY <1>3, <3>1, NatMin
    <2>2. k \in Nat /\ k # 0
      BY <1>1, <2>1
    <2>3. k - 1 \in Nat /\ k - 1 \notin T /\ (k - 1) + 1 = k
      BY <2>1, <2>2
    <2>4. PICK g : Emits(k - 1, g)
      BY <2>3
    <2> QED  BY <1>2, <2>1, <2>3, <2>4
  <1> QED  BY <1>3

LEMMA OrderOfSteps ==
    ASSUME Types
    PROVE  TopoOrder \in Seq(DOMAIN pipe)
  <1> DEFINE n == Len(pipe)
             Fixed(f) == f = [k \in 0..n |-> IF k = 0 THEN <<>> ELSE OneMore(f[k - 1])]
             f == CHOOSE f : Fixed(f)
  <1>1. n \in Nat
    BY StepsAssumption DEF Types, StepsAssumption
  <1>2. TopoOrder = f[n]
    BY DEF TopoOrder, OneMore
  <1>3. PICK g : Emits(n, g)
    BY <1>1, EmitsExist
  <1>4. Fixed(g)
    <2>1. \A k \in 0..n : g[k] = IF k = 0 THEN <<>> ELSE OneMore(g[k - 1])
      BY <1>1, <1>3 DEF Emits
    <2>2. g = [k \in 0..n |-> g[k]]
      BY <1>3 DEF Emits
    <2> HIDE DEF n
    <2> QED  BY <2>1, <2>2
  <1>5. Fixed(f)
    <2> HIDE DEF Fixed
    <2> QED  BY <1>4
  <1> DEFINE T == {k \in 0..n : f[k] \notin Seq(DOMAIN pipe)}
  <1> HIDE DEF f
  <1>6. ASSUME T # {}  PROVE FALSE
    <2>1. PICK k \in T : \A j \in T : k <= j
      <3>1. T \in SUBSET Nat
        BY <1>1
      <3> HIDE DEF T
      <3> QED  BY <1>6, <3>1, NatMin
    <2>2. k # 0
      BY <1>1, <1>5, <2>1, EmptySeq
    <2>3. k - 1 \in 0..n /\ k - 1 \notin T
      BY <1>1, <2>1, <2>2
    <2>4. f[k - 1] \in Seq(DOMAIN pipe) /\ f[k] = OneMore(f[k - 1])
      BY <1>1, <1>5, <2>1, <2>2, <2>3
    <2> QED  BY <2>1, <2>4, OneMoreStep
  <1> QED  BY <1>1, <1>2, <1>6

-----------------------------------------------------------------------------
(* Types and places.                                                         *)
LEMMA SamePlace ==
    ASSUME pipe' = pipe, run'.order = run.order, run'.at = run.at
    PROVE  /\ Current' = Current /\ Step' = Step /\ Out' = Out
           /\ KindOf(Current)' = KindOf(Current) /\ PagesAsAsked' = PagesAsAsked
  <1>1. Current' = Current
    BY DEF Current
  <1>2. Step' = Step
    BY <1>1 DEF Step
  <1>3. Out' = Out
    BY <1>1 DEF Out, OutputTable
  <1>4. KindOf(Current)' = KindOf(Current)
    BY <1>1 DEF KindOf, Lowest
  <1> QED  BY <1>1, <1>2, <1>3, <1>4 DEF PagesAsAsked

LEMMA AtAStep ==
    ASSUME Types, Placed, run.phase \notin {"idle", "dispatch"}
    PROVE  /\ Current \in DOMAIN pipe /\ Current \in Nat /\ Step \in StepRecord
           /\ Out \in TableNames /\ Out = OutputTable(Current)
  <1>1. run.order = TopoOrder /\ run.at \in Nat /\ run.at >= 1 /\ run.at <= Len(TopoOrder)
    BY DEF Types, Placed, RunStates
  <1>2. Current \in DOMAIN pipe
    BY <1>1, OrderOfSteps, ElementOfSeq DEF Current
  <1>3. pipe \in Seq(StepRecord)
    BY StepsAssumption DEF Types, StepsAssumption
  <1> QED  BY <1>2, <1>3 DEF Step, Out, TableNames

LEMMA IdleIsARun == Idle \in RunStates({0, ""})
  <1>1. <<>> \in Seq(Nat)
    BY EmptySeq
  <1> QED  BY <1>1 DEF Idle, RunStates, Phases

(* What a step of the run leaves of the types and the place: it ends the     *)
(* run, or goes on at the same step of the pipeline.                         *)
Kept ==
    /\ pipe' = pipe /\ source' \in Nat /\ watermark' \in [DOMAIN pipe -> Nat]
    /\ tables' \in [TableNames -> Seq(Nat)] /\ existing' \subseteq TableNames
    /\ sink' \in Seq(Nat) /\ counts' \in [runs : Nat, faults : Nat, edits : Nat]

LEMMA Counted ==
    ASSUME Types, \/ UNCHANGED counts
                  \/ \E what \in {"runs", "faults", "edits"} : Count(what)
    PROVE  counts' \in [runs : Nat, faults : Nat, edits : Nat]
  <1>1. CASE UNCHANGED counts
    BY <1>1 DEF Types
  <1>2. CASE Count("runs")
    BY <1>2 DEF Types, Count
  <1>3. CASE Count("faults")
    BY <1>3 DEF Types, Count
  <1>4. CASE Count("edits")
    BY <1>4 DEF Types, Count
  <1> QED  BY <1>1, <1>2, <1>3, <1>4

LEMMA EndsTyped ==
    ASSUME Kept, Types, run' = Idle
    PROVE  Types' /\ Placed'
  <1>1. run' \in RunStates({0, ""}) /\ run'.phase = "idle"
    BY IdleIsARun DEF Idle
  <1>2. pipe' = pipe
    BY DEF Kept
  <1> QED  BY <1>1, <1>2, PipeKept DEF Types, Placed, Kept

LEMMA GoesOnTyped ==
    ASSUME Kept, Types, Placed, run.phase # "idle", NEW R, run' \in RunStates(R),
           run'.order = run.order, run'.at = run.at,
           run'.phase \notin {"idle", "dispatch"} => run.at <= Len(TopoOrder),
           run'.phase \in {"query", "write"} => KindOf(Current) = "sink",
           run'.phase \in {"read", "append", "save"} => KindOf(Current) = "connector",
           run'.phase = "append" => run'.page # <<>>,
           run'.phase \in {"exec", "store", "fill"} =>
                KindOf(Current) \notin {"sink", "connector"}
    PROVE  Types' /\ Placed'
  <1>1. pipe' = pipe
    BY DEF Kept
  <1>2. TopoOrder' = TopoOrder /\ TableNames' = TableNames /\ KindOf(Current)' = KindOf(Current)
    BY <1>1, PipeKept, SamePlace
  <1>3. Types'
    BY <1>1, <1>2 DEF Types, Kept
  <1> QED  BY <1>2, <1>3 DEF Placed

LEMMA StartRunTyped == ASSUME Types, Placed, StartRun  PROVE Types' /\ Placed'
  <1>1. Kept
    BY DEF StartRun, Count, Types, Kept
  <1>2. CASE run' = run
    <2>1. pipe' = pipe
      BY DEF StartRun
    <2> QED  BY <1>1, <1>2, <2>1, PipeKept DEF StartRun, Types, Placed, Kept
  <1>3. CASE run' = [Idle EXCEPT !.phase = "dispatch", !.order = TopoOrder, !.at = 1]
    <2>1. pipe' = pipe
      BY DEF StartRun
    <2>2. TopoOrder \in Seq(Nat)
      <3>1. DOMAIN pipe \subseteq Nat
        BY StepsAssumption DEF Types, StepsAssumption
      <3> QED  BY <3>1, OrderOfSteps, SeqMonotonic
    <2>3. run' \in RunStates({0, ""}) /\ run'.phase = "dispatch" /\ run'.order = TopoOrder
          /\ run'.at = 1
      BY <1>3, <2>2, IdleIsARun DEF RunStates, Phases
    <2>4. TopoOrder' = TopoOrder /\ TableNames' = TableNames
      BY <2>1, PipeKept
    <2>5. Types'
      BY <1>1, <2>1, <2>3, <2>4 DEF Types, Kept
    <2>6. Placed'
      <3>1. run'.phase = "dispatch" /\ run'.order = TopoOrder' /\ run'.at = 1
        BY <2>3, <2>4
      <3> QED  BY <3>1 DEF Placed
    <2> QED  BY <2>5, <2>6
  <1> QED  BY <1>2, <1>3 DEF StartRun

LEMMA DispatchTyped == ASSUME Types, Placed, Dispatch  PROVE Types' /\ Placed'
  <1>1. Kept
    BY DEF Dispatch, Types, Kept
  <1>2. PICK R : run \in RunStates(R)
    BY DEF Types
  <1>3. CASE run' = [run EXCEPT !.phase = "attempt", !.retries = 0]
    <2>1. run' \in RunStates(R) /\ run'.order = run.order /\ run'.at = run.at
          /\ run'.phase = "attempt"
      BY <1>2, <1>3 DEF RunStates, Phases
    <2>2. run.phase = "dispatch" /\ run.at <= Len(TopoOrder)
      BY DEF Dispatch, Placed
    <2> QED  BY <1>1, <2>1, <2>2, GoesOnTyped
  <1> QED  BY <1>1, <1>3, EndsTyped DEF Dispatch

LEMMA SucceedRunTyped == ASSUME Types, Placed, SucceedRun  PROVE Types' /\ Placed'
  <1>1. Kept
    BY DEF SucceedRun, Types, Kept
  <1> QED  BY <1>1, EndsTyped DEF SucceedRun

LEMMA AttemptTyped == ASSUME Types, Placed, Attempt  PROVE Types' /\ Placed'
  <1>1. Kept
    <2>1. counts' \in [runs : Nat, faults : Nat, edits : Nat]
      BY Counted DEF Attempt, Types
    <2> QED  BY <2>1 DEF Attempt, Types, Kept
  <1>2. PICK R : run \in RunStates(R)
    BY DEF Types
  <1>3. run.phase = "attempt" /\ run.at <= Len(TopoOrder)
    BY DEF Attempt, Placed
  <1>4. ASSUME NEW again \in BOOLEAN, run' = [run EXCEPT !.phase = "failed", !.retryable = again]
        PROVE  Types' /\ Placed'
    <2>1. run' \in RunStates(R) /\ run'.order = run.order /\ run'.at = run.at
          /\ run'.phase = "failed"
      BY <1>2, <1>4 DEF RunStates, Phases
    <2> QED  BY <1>1, <1>3, <2>1, GoesOnTyped
  <1>5. CASE run' = [run EXCEPT !.phase = FirstPhase(KindOf(Current)),
                      !.cursor = LoadedCursor, !.from = LoadedCursor, !.created = FALSE,
                      !.total = 0, !.offset = 0, !.first = TRUE, !.page = <<>>, !.base = sink,
                      !.touched = FALSE]
    <2>1. LoadedCursor \in Nat
      <3>1. Current \in DOMAIN pipe
        BY <1>3, AtAStep
      <3> QED  BY <3>1 DEF LoadedCursor, Types
    <2>2. PICK c : c = LoadedCursor
      OBVIOUS
    <2>3. PICK p : p = FirstPhase(KindOf(Current))
      OBVIOUS
    <2>4. p \in {"query", "read", "succeeded", "exec"}
          /\ (p = "query" => KindOf(Current) = "sink")
          /\ (p = "read" => KindOf(Current) = "connector")
          /\ (p = "exec" => KindOf(Current) \notin {"sink", "connector"})
      BY <2>3 DEF FirstPhase
    <2>5. run' \in RunStates(R) /\ run'.order = run.order /\ run'.at = run.at /\ run'.phase = p
      BY <1>2, <1>5, <2>1, <2>2, <2>3, <2>4, EmptySeq DEF RunStates, Phases, Types
    <2> QED  BY <1>1, <1>3, <2>4, <2>5, GoesOnTyped
  <1> QED  BY <1>4, <1>5 DEF Attempt

-----------------------------------------------------------------------------
(* Parts of sequences.                                                       *)
LEMMA Cut ==
    ASSUME NEW s \in Seq(Nat), NEW a \in Nat, NEW b \in Nat, b <= Len(s)
    PROVE  /\ SubSeq(s, a + 1, b) \in Seq(Nat)
           /\ Len(SubSeq(s, a + 1, b)) = IF a < b THEN b - a ELSE 0
           /\ \A i \in 1..(b - a) : SubSeq(s, a + 1, b)[i] = s[a + i]
  <1>1. \A i \in (a + 1)..b : s[i] \in Nat
    BY ElementOfSeq
  <1>2. /\ SubSeq(s, a + 1, b) \in Seq(Nat)
        /\ Len(SubSeq(s, a + 1, b)) = IF a + 1 <= b THEN b - (a + 1) + 1 ELSE 0
        /\ \A i \in 1..(b - (a + 1) + 1) : SubSeq(s, a + 1, b)[i] = s[(a + 1) + i - 1]
    BY <1>1, SubSeqProperties
  <1> QED  BY <1>2

LEMMA CutOfCut ==
    ASSUME NEW s \in Seq(Nat), NEW a \in Nat, NEW b \in Nat, b <= Len(s), a <= b,
           NEW m \in Nat, NEW n \in Nat, m <= n, n <= b - a
    PROVE  SubSeq(SubSeq(s, a + 1, b), m + 1, n) = SubSeq(s, (a + m) + 1, a + n)
  <1>1. PICK t : t = SubSeq(s, a + 1, b)
    OBVIOUS
  <1>2. t \in Seq(Nat) /\ Len(t) = b - a /\ \A i \in 1..(b - a) : t[i] = s[a + i]
    <2>1. /\ SubSeq(s, a + 1, b) \in Seq(Nat)
          /\ Len(SubSeq(s, a + 1, b)) = IF a < b THEN b - a ELSE 0
          /\ \A i \in 1..(b - a) : SubSeq(s, a + 1, b)[i] = s[a + i]
      BY Cut
    <2>2. (IF a < b THEN b - a ELSE 0) = b - a
      OBVIOUS
    <2> QED  BY <1>1, <2>1, <2>2
  <1>3. PICK u : u = SubSeq(t, m + 1, n)
    OBVIOUS
  <1>4. u \in Seq(Nat) /\ Len(u) = n - m /\ \A i \in 1..(n - m) : u[i] = t[m + i]
    <2>1. n <= Len(t)
      BY <1>2
    <2>2. /\ u \in Seq(Nat) /\ Len(u) = IF m < n THEN n - m ELSE 0
          /\ \A i \in 1..(n - m) : u[i] = t[m + i]
      BY <1>2, <1>3, <2>1, Cut
    <2> QED  BY <2>2
  <1>5. PICK v : v = SubSeq(s, (a + m) + 1, a + n)
    OBVIOUS
  <1>6. a + m \in Nat /\ a + n \in Nat /\ a + n <= Len(s) /\ (a + n) - (a + m) = n - m
    BY LenProperties
  <1>7. v \in Seq(Nat) /\ Len(v) = n - m /\ \A i \in 1..(n - m) : v[i] = s[(a + m) + i]
    BY <1>5, <1>6, Cut
  <1>8. ASSUME NEW i \in 1..Len(u)  PROVE u[i] = v[i]
    <2>1. i \in 1..(n - m) /\ m + i \in 1..(b - a) /\ a + (m + i) = (a + m) + i
      BY <1>4, <1>8
    <2> QED  BY <1>2, <1>4, <1>7, <2>1
  <1>9. u = v
    BY <1>4, <1>7, <1>8, SeqEqual
  <1> QED  BY <1>1, <1>3, <1>5, <1>9

LEMMA Joined ==
    ASSUME NEW s \in Seq(Nat), NEW a \in Nat, NEW b \in Nat, NEW c \in Nat,
           a <= b, b <= c, c <= Len(s)
    PROVE  SubSeq(s, a + 1, b) \o SubSeq(s, b + 1, c) = SubSeq(s, a + 1, c)
  <1>1. a + 1 \in 1..(Len(s) + 1) /\ b \in ((a + 1) - 1)..Len(s) /\ c \in b..Len(s)
    BY LenProperties
  <1> QED  BY <1>1, ConcatAdjacentSubSeq

LEMMA CutAll == \A s \in Seq(Nat) : SubSeq(s, 1, Len(s)) = s /\ SubSeq(s, 1, 0) = <<>>
  BY SubSeqFull, SubSeqEmpty, LenProperties

LEMMA Regrouped ==
    \A s, t, u \in Seq(Nat) : (s \o t) \o u = s \o (t \o u)
  <1> TAKE s, t, u \in Seq(Nat)
  <1> QED  BY ConcatAssociative, SMTT(20)

(* A batch, and what is left.                                                *)
LEMMA BatchAndRest ==
    ASSUME NEW s \in Seq(Nat), NEW n \in Nat, n <= Len(s)
    PROVE  /\ SubSeq(s, 1, n) \in Seq(Nat) /\ Len(SubSeq(s, 1, n)) = n
           /\ SubSeq(s, n + 1, Len(s)) \in Seq(Nat) /\ Len(SubSeq(s, n + 1, Len(s))) = Len(s) - n
  <1>1. Len(s) \in Nat
    BY LenProperties
  <1>2. SubSeq(s, 0 + 1, n) \in Seq(Nat) /\ Len(SubSeq(s, 0 + 1, n)) = IF 0 < n THEN n - 0 ELSE 0
    BY <1>1, Cut
  <1>3. /\ SubSeq(s, n + 1, Len(s)) \in Seq(Nat)
        /\ Len(SubSeq(s, n + 1, Len(s))) = IF n < Len(s) THEN Len(s) - n ELSE 0
    BY <1>1, Cut
  <1> QED  BY <1>1, <1>2, <1>3

LEMMA PageTyped ==
    ASSUME NEW s \in Seq(Nat), NEW a \in Nat, NEW n \in Nat
    PROVE  PageOf(s, a, n) \in Seq(Nat)
  <1>1. Len(s) \in Nat /\ Shorter(a + n, Len(s)) \in Nat /\ Shorter(a + n, Len(s)) <= Len(s)
    BY LenProperties DEF Shorter
  <1> QED  BY <1>1, Cut DEF PageOf

LEMMA SourceRowsTyped ==
    ASSUME Types
    PROVE  /\ SourceRows \in Seq(Nat) /\ Len(SourceRows) = source
           /\ \A k \in 1..source : SourceRows[k] = FirstKey + k - 1
           /\ FirstKey \in Nat /\ FirstKey >= 1 /\ BatchSize \in Nat /\ BatchSize >= 1
           /\ SinkPage \in Nat /\ SinkPage >= 1 /\ MaxRsRows \in Nat
           /\ \A key \in Nat : RowsUpTo(key) \in Nat
  <1>1. FirstKey \in Nat /\ FirstKey >= 1 /\ BatchSize \in Nat /\ BatchSize >= 1
        /\ SinkPage \in Nat /\ SinkPage >= 1 /\ MaxRsRows \in Nat
    BY StepsAssumption DEF StepsAssumption
  <1>2. source \in Nat /\ \A k \in 1..source : FirstKey + k - 1 \in Nat
    BY <1>1 DEF Types
  <1>3. SourceRows \in [1..source -> Nat]
    BY <1>2 DEF SourceRows
  <1>4. SourceRows \in Seq(Nat) /\ Len(SourceRows) = source
    BY <1>2, <1>3, LenProperties, SeqDef
  <1>5. \A k \in 1..source : SourceRows[k] = FirstKey + k - 1
    BY DEF SourceRows
  <1>6. \A key \in Nat : RowsUpTo(key) \in Nat
    BY <1>1 DEF RowsUpTo
  <1> QED  BY <1>1, <1>4, <1>5, <1>6

-----------------------------------------------------------------------------
(* The steps of a run, again.                                                *)
LEMMA FailingTyped ==
    ASSUME Kept, Types, Placed, run.phase \notin {"idle", "dispatch"}, NEW again \in BOOLEAN,
           run' = [run EXCEPT !.phase = "failed", !.retryable = again]
    PROVE  Types' /\ Placed'
  <1>1. PICK R : run \in RunStates(R)
    BY DEF Types
  <1>2. run' \in RunStates(R) /\ run'.order = run.order /\ run'.at = run.at
        /\ run'.phase = "failed"
    BY <1>1 DEF RunStates, Phases
  <1>3. run.at <= Len(TopoOrder)
    BY DEF Placed
  <1> QED  BY <1>2, <1>3, GoesOnTyped

LEMMA RowsOfTables ==
    ASSUME Types, Placed, run.phase \notin {"idle", "dispatch"}
    PROVE  /\ Out \in TableNames /\ tables[Out] \in Seq(Nat)
           /\ ~NoSuchTable => Selected \in Seq(Nat)
  <1>1. ~NoSuchTable => Selected \in Seq(Nat)
    BY EmptySeq DEF NoSuchTable, Selected, Types
  <1> QED  BY <1>1, AtAStep DEF Types

LEMMA RecreateTyped ==
    ASSUME Types, Out \in TableNames, KeepTables \/ Recreate(Out)
    PROVE  tables' \in [TableNames -> Seq(Nat)] /\ existing' \subseteq TableNames
  <1>1. CASE KeepTables
    BY <1>1 DEF Types, KeepTables
  <1>2. CASE Recreate(Out)
    <2>1. <<>> \in Seq(Nat)
      BY EmptySeq
    <2> QED  BY <1>2, <2>1 DEF Types, Recreate
  <1> QED  BY <1>1, <1>2

LEMMA AppendTyped ==
    ASSUME Types, Out \in TableNames, NEW got \in Seq(Nat),
           tables' = [tables EXCEPT ![Out] = @ \o got]
    PROVE  tables' \in [TableNames -> Seq(Nat)]
  <1>1. tables[Out] \o got \in Seq(Nat)
    BY ConcatProperties DEF Types
  <1> QED  BY <1>1 DEF Types

LEMMA BehindTyped ==
    ASSUME Types, Placed, run.phase \notin {"idle", "dispatch"}
    PROVE  /\ Behind(run.cursor) \in Seq(Nat)
           /\ PagesAsAsked => Upto \in Nat /\ From \in Nat
           /\ PagesAsAsked => Behind(run.cursor) = SubSeq(SourceRows, Upto + 1, source)
  <1>1. run.cursor \in Nat /\ run.from \in Nat
    BY DEF Types, RunStates
  <1>2. ASSUME NEW n \in Nat  PROVE SubSeq(SourceRows, n + 1, source) \in Seq(Nat)
    <2>1. SourceRows \in Seq(Nat) /\ Len(SourceRows) = source /\ source \in Nat
      BY SourceRowsTyped DEF Types
    <2> QED  BY <2>1, Cut
  <1>3. Step.paging \in {"key", "key unsaid", "offset", "portion"}
    BY AtAStep DEF StepRecord
  <1>4. RowsUpTo(run.cursor) \in Nat /\ RowsUpTo(run.from) \in Nat
    BY <1>1, SourceRowsTyped
  <1>5. Behind(run.cursor) \in Seq(Nat)
    BY <1>1, <1>2, <1>3, <1>4, SourceRowsTyped DEF Behind
  <1>6. ASSUME PagesAsAsked
        PROVE  Behind(run.cursor) = SubSeq(SourceRows, Upto + 1, source)
    BY <1>6 DEF Behind, PagesAsAsked, Upto
  <1> QED  BY <1>1, <1>4, <1>5, <1>6 DEF Upto, From

(* A page: the first n rows of what is behind the cursor.                    *)
LEMMA PageOfSource ==
    ASSUME Types, Placed, run.phase \notin {"idle", "dispatch"}, NEW p \in TruePages
    PROVE  /\ p[2] \in BOOLEAN
           /\ \E n \in Nat :
                /\ n <= Len(Behind(run.cursor))
                /\ p[1] = SubSeq(Behind(run.cursor), 1, n)
                /\ n = 0 => Behind(run.cursor) = <<>>
                /\ Len(p[1]) = n /\ p[1] \in Seq(Nat)
  <1>1. PICK rest : rest = Behind(run.cursor)
    OBVIOUS
  <1>2. rest \in Seq(Nat) /\ Len(rest) \in Nat
    BY <1>1, BehindTyped, LenProperties
  <1>3. p \in Pages(rest)
    BY <1>1 DEF TruePages
  <1>4. PICK n \in PageLengths(rest), last \in SaysLast : p = <<SubSeq(rest, 1, n), last>>
    BY <1>3 DEF Pages
  <1>5. p[1] = SubSeq(rest, 1, n) /\ p[2] \in BOOLEAN
    BY <1>4 DEF SaysLast
  <1>6. n \in Nat /\ n <= Len(rest) /\ (n = 0 => rest = <<>>)
    <2>1. BatchSize \in Nat /\ BatchSize >= 1
      BY SourceRowsTyped
    <2>2. CASE rest = <<>>
      BY <1>2, <2>2 DEF PageLengths
    <2>3. CASE rest # <<>>
      BY <1>2, <2>1, <2>3 DEF Shorter, PageLengths
    <2> QED  BY <2>2, <2>3
  <1>7. Len(p[1]) = n /\ p[1] \in Seq(Nat)
    BY <1>2, <1>5, <1>6, BatchAndRest
  <1> QED  BY <1>1, <1>5, <1>6, <1>7

LEMMA ReadPageTyped == ASSUME Types, Placed, ReadPage  PROVE Types' /\ Placed'
  <1>1. run.phase = "read" /\ KindOf(Current) = "connector" /\ run.at <= Len(TopoOrder)
    BY DEF ReadPage, Placed
  <1>2. Kept
    <2>1. counts' \in [runs : Nat, faults : Nat, edits : Nat]
      BY Counted DEF ReadPage
    <2>2. tables' \in [TableNames -> Seq(Nat)] /\ existing' \subseteq TableNames
      <3>1. KeepTables \/ Recreate(Out)
        BY DEF ReadPage
      <3> QED  BY <1>1, <3>1, AtAStep, RecreateTyped
    <2> QED  BY <2>1, <2>2 DEF ReadPage, Types, Kept
  <1>3. PICK R : run \in RunStates(R)
    BY DEF Types
  <1>4. ASSUME NEW p \in TruePages,
               run' = [run EXCEPT !.page = p[1], !.more = ~p[2],
                                  !.phase = IF p[1] = <<>> THEN "save" ELSE "append",
                                  !.created = @ \/ Creates(p[1])]
        PROVE  Types' /\ Placed'
    <2>1. p[1] \in Seq(Nat) /\ (~p[2]) \in BOOLEAN
      <3>1. p[1] \in Seq(Nat) /\ p[2] \in BOOLEAN
        BY <1>1, PageOfSource
      <3>2. p[2] \in BOOLEAN => (~p[2]) \in BOOLEAN
        OBVIOUS
      <3> QED  BY <3>1, <3>2
    <2>2. PICK ph \in {"save", "append"} : ph = IF p[1] = <<>> THEN "save" ELSE "append"
      OBVIOUS
    <2>3. PICK c \in BOOLEAN : c = (run.created \/ Creates(p[1]))
      OBVIOUS
    <2>4. PICK got \in Seq(Nat) : got = p[1]
      BY <2>1
    <2>5. run' = [run EXCEPT !.page = got, !.more = ~p[2], !.phase = ph, !.created = c]
      BY <1>4, <2>2, <2>3, <2>4
    <2>6. run' \in RunStates(R) /\ run'.order = run.order /\ run'.at = run.at
          /\ run'.phase = ph /\ run'.page = got
      <3>1. ph \in Phases
        BY DEF Phases
      <3> QED  BY <1>3, <2>1, <2>4, <2>5, <3>1 DEF RunStates
    <2> QED  BY <1>1, <1>2, <2>2, <2>4, <2>6, GoesOnTyped
  <1>5. ASSUME NEW again \in BOOLEAN, run' = [run EXCEPT !.phase = "failed", !.retryable = again]
        PROVE  Types' /\ Placed'
    BY <1>1, <1>2, <1>5, FailingTyped
  <1> QED  BY <1>4, <1>5 DEF ReadPage

LEMMA AppendPageTyped == ASSUME Types, Placed, AppendPage  PROVE Types' /\ Placed'
  <1>1. run.phase = "append" /\ KindOf(Current) = "connector" /\ run.at <= Len(TopoOrder)
    BY DEF AppendPage, Placed
  <1>2. PICK R : run \in RunStates(R)
    BY DEF Types
  <1>3. run.page \in Seq(Nat) /\ run.total \in Nat /\ Len(run.page) \in Nat
    BY <1>2, LenProperties DEF RunStates
  <1>4. Kept
    BY <1>1, <1>3, AtAStep, AppendTyped DEF AppendPage, Types, Kept
  <1>5. PICK t \in Nat : t = run.total + Len(run.page)
    BY <1>3
  <1>6. Advanced(t) \in Nat
    <2>1. Last(run.page) \in Nat
      <3>1. run.page # <<>> /\ Len(run.page) \in 1..Len(run.page)
        BY <1>1, <1>3 DEF Placed
      <3> QED  BY <1>3, <3>1, ElementOfSeq DEF Last
    <2> QED  BY <2>1 DEF Advanced
  <1>7. PICK ph \in {"read", "save"} : ph = IF run.more THEN "read" ELSE "save"
    OBVIOUS
  <1>8. run' = [run EXCEPT !.total = t, !.cursor = Advanced(t), !.page = <<>>, !.phase = ph]
    BY <1>5, <1>7 DEF AppendPage
  <1>9. run' \in RunStates(R) /\ run'.order = run.order /\ run'.at = run.at /\ run'.phase = ph
    BY <1>2, <1>6, <1>8, EmptySeq DEF RunStates, Phases
  <1> QED  BY <1>1, <1>4, <1>9, GoesOnTyped

LEMMA SaveCursorTyped == ASSUME Types, Placed, SaveCursor  PROVE Types' /\ Placed'
  <1>1. run.phase = "save" /\ run.at <= Len(TopoOrder)
    BY DEF SaveCursor, Placed
  <1>2. PICK R : run \in RunStates(R)
    BY DEF Types
  <1>3. Kept
    <2>1. run.cursor \in Nat
      BY <1>2 DEF RunStates
    <2> QED  BY <2>1 DEF SaveCursor, Types, Kept
  <1>4. run' \in RunStates(R) /\ run'.order = run.order /\ run'.at = run.at
        /\ run'.phase = "succeeded"
    BY <1>2 DEF SaveCursor, RunStates, Phases
  <1> QED  BY <1>1, <1>3, <1>4, GoesOnTyped

(* What a query of a page and a script leave as it was.                      *)
SamePosition == run'.order = run.order /\ run'.at = run.at /\ run'.prev = run.prev
SameAttempt ==
    /\ run'.offset = run.offset /\ run'.base = run.base /\ run'.first = run.first
    /\ run'.touched = run.touched

LEMMA QueryPageFrame ==
    ASSUME Types, QueryPage
    PROVE  /\ SamePosition /\ SameAttempt
           /\ run'.phase \in {"succeeded", "failed", "write"}
           /\ run'.phase = "failed" => NoSuchTable \/ Step.sorted
  <1> USE DEF SamePosition, SameAttempt
  <1>1. PICK R : run \in RunStates(R)
    BY DEF Types
  <1>2. CASE CapReached
    <2>1. run' = [run EXCEPT !.phase = "succeeded"]
      BY <1>2 DEF QueryPage
    <2> QED  BY <1>1, <2>1 DEF RunStates
  <1>3. CASE ~CapReached /\ (NoSuchTable \/ (Step.sorted /\ Len(Selected) > MaxRsRows))
    <2>1. PICK again \in BOOLEAN : run' = [run EXCEPT !.phase = "failed", !.retryable = again]
      BY <1>3 DEF QueryPage
    <2> QED  BY <1>1, <1>3, <2>1 DEF RunStates
  <1>4. CASE ~CapReached /\ ~(NoSuchTable \/ (Step.sorted /\ Len(Selected) > MaxRsRows))
    <2>1. PICK got : got = PageOf(Selected, run.offset, PageLimit)
      OBVIOUS
    <2>2. PICK ph \in {"succeeded", "write"} :
                ph = IF got = <<>> /\ ~run.first THEN "succeeded" ELSE "write"
      OBVIOUS
    <2>3. run' = [run EXCEPT !.page = got, !.more = Len(got) = PageLimit, !.phase = ph]
      BY <1>4, <2>1, <2>2 DEF QueryPage
    <2> QED  BY <1>1, <2>3 DEF RunStates
  <1> QED  BY <1>2, <1>3, <1>4

LEMMA ExecFrame ==
    ASSUME Types, Exec
    PROVE  SamePosition /\ run'.phase \in {"failed", "store"}
  <1> USE DEF SamePosition
  <1>1. PICK R : run \in RunStates(R)
    BY DEF Types
  <1>2. CASE \E again \in BOOLEAN : run' = [run EXCEPT !.phase = "failed", !.retryable = again]
    BY <1>1, <1>2 DEF RunStates
  <1>3. CASE run' = [run EXCEPT !.phase = "store", !.page = PageOf(Selected, 0, MaxRsRows)]
    BY <1>1, <1>3 DEF RunStates
  <1> QED  BY <1>2, <1>3 DEF Exec

LEMMA QueryPageTyped == ASSUME Types, Placed, QueryPage  PROVE Types' /\ Placed'
  <1>1. run.phase = "query" /\ KindOf(Current) = "sink" /\ run.at <= Len(TopoOrder)
    BY DEF QueryPage, Placed
  <1>2. PICK R : run \in RunStates(R)
    BY DEF Types
  <1>3. Kept
    BY DEF QueryPage, KeepTables, Types, Kept
  <1>4. CASE run' = [run EXCEPT !.phase = "succeeded"]
    <2>1. run' \in RunStates(R) /\ run'.order = run.order /\ run'.at = run.at
          /\ run'.phase = "succeeded"
      BY <1>2, <1>4 DEF RunStates, Phases
    <2> QED  BY <1>1, <1>3, <2>1, GoesOnTyped
  <1>5. ASSUME NEW again \in BOOLEAN, run' = [run EXCEPT !.phase = "failed", !.retryable = again]
        PROVE  Types' /\ Placed'
    BY <1>1, <1>3, <1>5, FailingTyped
  <1>6. ASSUME ~CapReached, ~NoSuchTable, NEW got, got = PageOf(Selected, run.offset, PageLimit),
               run' = [run EXCEPT !.page = got, !.more = Len(got) = PageLimit,
                          !.phase = IF got = <<>> /\ ~run.first THEN "succeeded" ELSE "write"]
        PROVE  Types' /\ Placed'
    <2>1. run.offset \in Nat
      BY <1>2 DEF RunStates
    <2>2. PageLimit \in Nat
      <3>1. SinkPage \in Nat /\ Step.limit \in Nat \cup {-1}
        BY <1>1, AtAStep, SourceRowsTyped DEF StepRecord
      <3> QED  BY <1>6, <2>1, <3>1 DEF PageLimit, CapReached, Shorter
    <2>3. got \in Seq(Nat)
      BY <1>1, <1>6, <2>1, <2>2, RowsOfTables, PageTyped
    <2>4. PICK m \in BOOLEAN : m = (Len(got) = PageLimit)
      OBVIOUS
    <2>5. PICK ph \in {"succeeded", "write"} :
                ph = IF got = <<>> /\ ~run.first THEN "succeeded" ELSE "write"
      OBVIOUS
    <2>6. run' = [run EXCEPT !.page = got, !.more = m, !.phase = ph]
      BY <1>6, <2>4, <2>5
    <2>7. run' \in RunStates(R) /\ run'.order = run.order /\ run'.at = run.at /\ run'.phase = ph
      BY <1>2, <2>3, <2>6 DEF RunStates, Phases
    <2> QED  BY <1>1, <1>3, <2>7, GoesOnTyped
  <1> QED  BY <1>4, <1>5, <1>6 DEF QueryPage

(* A batch of the page in hand, and the rest of the page.                    *)
Batch == SubSeq(run.page, 1, Shorter(BatchSize, Len(run.page)))
Rest == SubSeq(run.page, Len(Batch) + 1, Len(run.page))

LEMMA BatchTyped ==
    ASSUME Types
    PROVE  /\ run.page \in Seq(Nat) /\ Batch \in Seq(Nat) /\ Rest \in Seq(Nat)
           /\ Len(Batch) = Shorter(BatchSize, Len(run.page)) /\ Len(Batch) \in Nat
           /\ Len(Batch) <= Len(run.page) /\ Len(Rest) = Len(run.page) - Len(Batch)
  <1>1. run.page \in Seq(Nat) /\ Len(run.page) \in Nat
    BY LenProperties DEF Types, RunStates
  <1>2. Shorter(BatchSize, Len(run.page)) \in Nat
        /\ Shorter(BatchSize, Len(run.page)) <= Len(run.page)
    <2>1. BatchSize \in Nat
      BY SourceRowsTyped
    <2> QED  BY <1>1, <2>1 DEF Shorter
  <1>3. Batch \in Seq(Nat) /\ Len(Batch) = Shorter(BatchSize, Len(run.page))
    BY <1>1, <1>2, BatchAndRest DEF Batch
  <1> QED  BY <1>1, <1>2, <1>3, BatchAndRest DEF Rest

LEMMA WrittenTyped ==
    ASSUME Types, NEW mode
    PROVE  Written(Batch, mode) \in Seq(Nat)
  <1>1. sink \o Batch \in Seq(Nat)
    BY BatchTyped, ConcatProperties DEF Types
  <1> QED  BY <1>1, BatchTyped DEF Written

LEMMA WriteBatchTyped == ASSUME Types, Placed, WriteBatch  PROVE Types' /\ Placed'
  <1>1. run.phase = "write" /\ KindOf(Current) = "sink" /\ run.at <= Len(TopoOrder)
    BY DEF WriteBatch, Placed
  <1>2. PICK R : run \in RunStates(R)
    BY DEF Types
  <1>3. Kept
    <2>1. counts' \in [runs : Nat, faults : Nat, edits : Nat]
      BY Counted DEF WriteBatch
    <2>2. sink' \in Seq(Nat)
      <3>1. sink \in Seq(Nat) /\ Written(Batch, Mode(run.first)) \in Seq(Nat)
        BY WrittenTyped DEF Types
      <3>2. sink' \in {sink, Written(Batch, Mode(run.first))}
        BY DEF WriteBatch, Batch
      <3> QED  BY <3>1, <3>2
    <2> QED  BY <2>1, <2>2 DEF WriteBatch, KeepTables, Types, Kept
  <1>4. ASSUME NEW again \in BOOLEAN, run' = [run EXCEPT !.phase = "failed", !.retryable = again]
        PROVE  Types' /\ Placed'
    BY <1>1, <1>3, <1>4, FailingTyped
  <1>5. CASE run' = [run EXCEPT !.page = Rest, !.first = FALSE,
                           !.phase = AfterBatch(Rest), !.offset = NextOffset(Rest)]
    <2>1. Rest \in Seq(Nat)
      BY BatchTyped
    <2>2. PICK ph \in {"write", "query", "succeeded"} : ph = AfterBatch(Rest)
      BY DEF AfterBatch
    <2>3. PICK n \in Nat : n = NextOffset(Rest)
      <3>1. run.offset \in Nat /\ SinkPage \in Nat
        BY <1>2, SourceRowsTyped DEF RunStates
      <3> QED  BY <3>1 DEF NextOffset
    <2>4. run' = [run EXCEPT !.page = Rest, !.first = FALSE, !.phase = ph, !.offset = n]
      BY <1>5, <2>2, <2>3
    <2>5. run' \in RunStates(R) /\ run'.order = run.order /\ run'.at = run.at /\ run'.phase = ph
      BY <1>2, <2>1, <2>4 DEF RunStates, Phases
    <2> QED  BY <1>1, <1>3, <2>5, GoesOnTyped
  <1> QED  BY <1>4, <1>5 DEF WriteBatch, Batch, Rest

LEMMA ExecTyped == ASSUME Types, Placed, Exec  PROVE Types' /\ Placed'
  <1>1. run.phase = "exec" /\ KindOf(Current) \notin {"sink", "connector"}
        /\ run.at <= Len(TopoOrder)
    BY DEF Exec, Placed
  <1>2. PICK R : run \in RunStates(R)
    BY DEF Types
  <1>3. Kept
    <2>1. counts' \in [runs : Nat, faults : Nat, edits : Nat]
      BY Counted DEF Exec
    <2> QED  BY <2>1 DEF Exec, KeepTables, Types, Kept
  <1>4. ASSUME NEW again \in BOOLEAN, run' = [run EXCEPT !.phase = "failed", !.retryable = again]
        PROVE  Types' /\ Placed'
    BY <1>1, <1>3, <1>4, FailingTyped
  <1>5. ASSUME ~NoSuchTable,
               run' = [run EXCEPT !.phase = "store", !.page = PageOf(Selected, 0, MaxRsRows)]
        PROVE  Types' /\ Placed'
    <2>1. PageOf(Selected, 0, MaxRsRows) \in Seq(Nat)
      BY <1>1, <1>5, RowsOfTables, PageTyped, SourceRowsTyped
    <2>2. run' \in RunStates(R) /\ run'.order = run.order /\ run'.at = run.at
          /\ run'.phase = "store"
      BY <1>2, <1>5, <2>1 DEF RunStates, Phases
    <2> QED  BY <1>1, <1>3, <2>2, GoesOnTyped
  <1> QED  BY <1>4, <1>5 DEF Exec

LEMMA StoreTyped == ASSUME Types, Placed, Store  PROVE Types' /\ Placed'
  <1>1. run.phase = "store" /\ KindOf(Current) \notin {"sink", "connector"}
        /\ run.at <= Len(TopoOrder)
    BY DEF Store, Placed
  <1>2. PICK R : run \in RunStates(R)
    BY DEF Types
  <1>3. Kept
    BY <1>1, AtAStep, RecreateTyped DEF Store, Types, Kept
  <1>4. run' \in RunStates(R) /\ run'.order = run.order /\ run'.at = run.at /\ run'.phase = "fill"
    BY <1>2 DEF Store, RunStates, Phases
  <1> QED  BY <1>1, <1>3, <1>4, GoesOnTyped

LEMMA FillTyped == ASSUME Types, Placed, Fill  PROVE Types' /\ Placed'
  <1>1. run.phase = "fill" /\ KindOf(Current) \notin {"sink", "connector"}
        /\ run.at <= Len(TopoOrder)
    BY DEF Fill, Placed
  <1>2. PICK R : run \in RunStates(R)
    BY DEF Types
  <1>3. Kept
    <2>1. tables' \in [TableNames -> Seq(Nat)]
      BY <1>1, AtAStep, BatchTyped, AppendTyped DEF Fill, Batch
    <2> QED  BY <2>1 DEF Fill, Types, Kept
  <1>4. PICK ph \in {"succeeded", "fill"} : ph = IF Rest = <<>> THEN "succeeded" ELSE "fill"
    OBVIOUS
  <1>5. run' = [run EXCEPT !.page = Rest, !.phase = ph]
    BY <1>4 DEF Fill, Batch, Rest
  <1>6. run' \in RunStates(R) /\ run'.order = run.order /\ run'.at = run.at /\ run'.phase = ph
    BY <1>2, <1>5, BatchTyped DEF RunStates, Phases
  <1> QED  BY <1>1, <1>3, <1>6, GoesOnTyped

LEMMA StepSucceedsTyped == ASSUME Types, Placed, StepSucceeds  PROVE Types' /\ Placed'
  <1>1. run.phase = "succeeded" /\ run.order = TopoOrder /\ run.at >= 1
    BY DEF StepSucceeds, Placed
  <1>2. PICK R : run \in RunStates(R)
    BY DEF Types
  <1>3. pipe' = pipe /\ Current \in Nat
    BY <1>1, AtAStep DEF StepSucceeds
  <1>4. PICK Q : Q = R \cup {Out}
    OBVIOUS
  <1>5. run \in RunStates(Q) /\ Out \in Q
    BY <1>2, <1>4 DEF RunStates
  <1>6. run' \in RunStates(Q) /\ run'.order = run.order /\ run'.at = run.at + 1
        /\ run'.phase = "dispatch"
    <2>1. PICK d : d = run.done \cup {Current}
      OBVIOUS
    <2>2. PICK o : o = Out
      OBVIOUS
    <2>3. d \in SUBSET Nat /\ o \in Q /\ run.at + 1 \in Nat
      BY <1>3, <1>5, <2>1, <2>2 DEF RunStates
    <2>4. run' = [run EXCEPT !.phase = "dispatch", !.prev = o, !.at = @ + 1, !.retries = 0,
                          !.done = d]
      BY <2>1, <2>2 DEF StepSucceeds
    <2> QED  BY <1>5, <2>3, <2>4 DEF RunStates, Phases
  <1>7. TopoOrder' = TopoOrder /\ TableNames' = TableNames
    BY <1>3, PipeKept
  <1>8. Types'
    BY <1>3, <1>6, <1>7 DEF Types, StepSucceeds
  <1>9. Placed'
    <2>1. run'.order = TopoOrder' /\ run'.at >= 1 /\ run'.phase = "dispatch"
      <3>1. run.at \in Nat
        BY <1>2 DEF RunStates
      <3> QED  BY <1>1, <1>6, <1>7, <3>1
    <2> QED  BY <2>1 DEF Placed
  <1> QED  BY <1>8, <1>9

LEMMA StepFailsTyped == ASSUME Types, Placed, StepFails  PROVE Types' /\ Placed'
  <1>1. run.phase = "failed" /\ run.at <= Len(TopoOrder)
    BY DEF StepFails, Placed
  <1>2. Kept
    BY DEF StepFails, Types, Kept
  <1>3. CASE run' = [run EXCEPT !.phase = "attempt", !.retries = Retry, !.slept = Slept]
    <2>1. PICK R : run \in RunStates(R)
      BY DEF Types
    <2>2. PICK Q : Q = R \cup {Slept}
      OBVIOUS
    <2>3. run \in RunStates(Q) /\ Slept \in Q
      BY <2>1, <2>2 DEF RunStates
    <2>4. Retry \in Nat
      BY <2>1 DEF Retry, RunStates
    <2>5. run' \in RunStates(Q) /\ run'.order = run.order /\ run'.at = run.at
          /\ run'.phase = "attempt"
      BY <1>3, <2>3, <2>4 DEF RunStates, Phases
    <2> QED  BY <1>1, <1>2, <2>5, GoesOnTyped
  <1> QED  BY <1>2, <1>3, EndsTyped DEF StepFails

LEMMA RestOfTheWorldTyped ==
    ASSUME Types, Placed, SourceGrows \/ UNCHANGED vars
    PROVE  Types' /\ Placed'
  <1>1. pipe' = pipe /\ run' = run /\ source' \in Nat
    BY DEF SourceGrows, vars, Types
  <1>2. TopoOrder' = TopoOrder /\ TableNames' = TableNames /\ KindOf(Current)' = KindOf(Current)
    BY <1>1, PipeKept, SamePlace
  <1>3. Types'
    BY <1>1, <1>2 DEF Types, SourceGrows, vars
  <1> QED  BY <1>1, <1>2, <1>3 DEF Placed

LEMMA EditTyped == ASSUME Types, Placed, Edit  PROVE Types' /\ Placed'
  <1>1. PICK R : run \in RunStates(R)
    BY DEF Types
  <1>2. /\ pipe' = pipe /\ run' \in RunStates(R)
        /\ run'.order = run.order /\ run'.at = run.at /\ run'.phase = run.phase
        /\ run'.page = run.page
    BY <1>1 DEF Edit, RunStates
  <1>3. TopoOrder' = TopoOrder /\ TableNames' = TableNames /\ KindOf(Current)' = KindOf(Current)
    BY <1>2, PipeKept, SamePlace
  <1>4. counts' \in [runs : Nat, faults : Nat, edits : Nat]
    BY Counted DEF Edit
  <1>5. tables' \in [TableNames -> Seq(Nat)]
    <2>0. PICK t \in existing : \E k \in DOMAIN tables[t] :
            \/ tables' = [tables EXCEPT ![t] = RemoveAt(tables[t], k)]
            \/ tables' = [tables EXCEPT ![t] = Append(RemoveAt(tables[t], k), @[k])]
      BY DEF Edit
    <2>1. PICK k \in DOMAIN tables[t] :
            \/ tables' = [tables EXCEPT ![t] = RemoveAt(tables[t], k)]
            \/ tables' = [tables EXCEPT ![t] = Append(RemoveAt(tables[t], k), @[k])]
      BY <2>0
    <2>2. t \in TableNames /\ tables[t] \in Seq(Nat) /\ Len(tables[t]) \in Nat
          /\ k \in 1..Len(tables[t]) /\ tables[t][k] \in Nat
      <3>1. t \in TableNames /\ tables[t] \in Seq(Nat)
        BY DEF Types
      <3> QED  BY <3>1, LenProperties, ElementOfSeq
    <2>3. RemoveAt(tables[t], k) \in Seq(Nat)
      <3>1. k - 1 \in Nat /\ k - 1 <= Len(tables[t]) /\ k \in Nat
        BY <2>2
      <3>2. SubSeq(tables[t], 1, k - 1) \in Seq(Nat)
        BY <2>2, <3>1, BatchAndRest
      <3>3. SubSeq(tables[t], k + 1, Len(tables[t])) \in Seq(Nat)
        BY <2>2, <3>1, Cut
      <3> QED  BY <3>2, <3>3, ConcatProperties DEF RemoveAt
    <2>4. Append(RemoveAt(tables[t], k), tables[t][k]) \in Seq(Nat)
      BY <2>2, <2>3, AppendProperties
    <2> QED  BY <2>1, <2>2, <2>3, <2>4 DEF Types
  <1>6. Types'
    BY <1>2, <1>3, <1>4, <1>5 DEF Types, Edit
  <1> QED  BY <1>2, <1>3, <1>6 DEF Placed

LEMMA CrashTyped == ASSUME Types, Placed, Crash  PROVE Types' /\ Placed'
  <1>1. counts' \in [runs : Nat, faults : Nat, edits : Nat]
    BY Counted DEF Crash
  <1>2. watermark' \in [DOMAIN pipe -> Nat]
    BY DEF Crash, Types
  <1> QED  BY <1>1, <1>2, EndsTyped DEF Crash, Types, Kept

-----------------------------------------------------------------------------
(* What a sink step has written.                                             *)
LEMMA SameSelection ==
    ASSUME pipe' = pipe, tables' = tables, existing' = existing,
           run'.order = run.order, run'.at = run.at, run'.prev = run.prev
    PROVE  /\ Step' = Step /\ Selected' = Selected /\ NoSuchTable' = NoSuchTable
           /\ KindOf(Current)' = KindOf(Current) /\ Whole' = Whole
  <1>1. Step' = Step /\ KindOf(Current)' = KindOf(Current)
    BY SamePlace
  <1>2. ReadsFrom' = ReadsFrom
    BY <1>1 DEF ReadsFrom
  <1>3. Selected' = Selected /\ NoSuchTable' = NoSuchTable
    BY <1>2 DEF Selected, NoSuchTable
  <1>4. Whole' = Whole
    BY <1>1, <1>3 DEF Whole, PageOf
  <1> QED  BY <1>1, <1>3, <1>4

LEMMA PageFacts ==
    ASSUME Types, Placed, run.phase \in {"query", "write"}, ~NoSuchTable, ~CapReached
    PROVE  /\ Selected \in Seq(Nat) /\ Len(Selected) \in Nat /\ run.offset \in Nat
           /\ PageLimit \in Nat /\ PageLimit >= 1
           /\ EndOfPage \in Nat /\ EndOfPage <= Len(Selected)
           /\ EndOfPage <= run.offset + PageLimit
           /\ PageOf(Selected, run.offset, PageLimit)
                = SubSeq(Selected, run.offset + 1, EndOfPage)
           /\ Capped(run.offset) = run.offset
           /\ Capped(run.offset + SinkPage) = run.offset + PageLimit
           /\ EndOfPage # run.offset + PageLimit =>
                EndOfPage = Len(Selected) /\ Whole = SubSeq(Selected, 1, EndOfPage)
  <1>1. Selected \in Seq(Nat) /\ Len(Selected) \in Nat
    BY RowsOfTables, LenProperties
  <1>2. run.offset \in Nat
    BY DEF Types, RunStates
  <1>3. Step.limit \in Nat \cup {-1}
    BY AtAStep DEF StepRecord
  <1>4. SinkPage \in Nat /\ SinkPage >= 1
    BY SourceRowsTyped
  <1>5. Step.limit = -1 \/ run.offset < Step.limit
    BY <1>2, <1>3 DEF CapReached
  <1>6. PageLimit \in Nat /\ PageLimit >= 1 /\ Capped(run.offset) = run.offset
        /\ Capped(run.offset + SinkPage) = run.offset + PageLimit
    BY <1>2, <1>3, <1>4, <1>5 DEF PageLimit, Capped, Shorter
  <1>7. EndOfPage \in Nat /\ EndOfPage <= Len(Selected) /\ EndOfPage <= run.offset + PageLimit
        /\ (EndOfPage # run.offset + PageLimit => EndOfPage = Len(Selected))
    BY <1>1, <1>2, <1>6 DEF EndOfPage, Shorter
  <1>8. PageOf(Selected, run.offset, PageLimit) = SubSeq(Selected, run.offset + 1, EndOfPage)
    BY DEF PageOf, EndOfPage
  <1>9. ASSUME EndOfPage # run.offset + PageLimit
        PROVE  Whole = SubSeq(Selected, 1, EndOfPage)
    <2>1. CASE Step.limit = -1
      BY <1>1, <1>7, <1>9, <2>1, CutAll DEF Whole
    <2>2. CASE Step.limit # -1
      <3>1. Step.limit \in Nat /\ Len(Selected) < Step.limit
        BY <1>1, <1>2, <1>3, <1>4, <1>5, <1>7, <1>9, <2>2 DEF EndOfPage, PageLimit, Shorter
      <3>2. Shorter(0 + Step.limit, Len(Selected)) = Len(Selected)
        BY <1>1, <3>1 DEF Shorter
      <3>3. Whole = SubSeq(Selected, 0 + 1, Len(Selected))
        BY <2>2, <3>2 DEF Whole, PageOf
      <3> QED  BY <1>7, <1>9, <3>3
    <2> QED  BY <2>1, <2>2
  <1> QED  BY <1>1, <1>2, <1>6, <1>7, <1>8, <1>9

LEMMA NotPushing ==
    ASSUME run'.phase \notin {"query", "write"},
           run'.phase = "succeeded" => KindOf(Current)' # "sink"
    PROVE  Pushing'
  BY DEF Pushing

LEMMA QueryPagePushes == ASSUME Types, Placed, Pushing, QueryPage  PROVE Pushing'
  <1> SUFFICES ASSUME ~run'.touched, Step'.limit # 0
               PROVE  /\ run'.phase = "query" => Querying'
                      /\ run'.phase = "write" => Writing'
                      /\ run'.phase = "succeeded" => sink' = Before' \o Whole'
    BY DEF Pushing
  <1>1. PICK R : run \in RunStates(R)
    BY DEF Types
  <1>2. run.phase = "query" /\ run'.phase \in {"succeeded", "failed", "write"}
    BY QueryPageFrame DEF QueryPage
  <1>3. /\ pipe' = pipe /\ tables' = tables /\ existing' = existing /\ sink' = sink
        /\ run'.order = run.order /\ run'.at = run.at /\ run'.prev = run.prev
        /\ run'.offset = run.offset /\ run'.base = run.base /\ run'.first = run.first
        /\ run'.touched = run.touched
    <2>1. pipe' = pipe /\ tables' = tables /\ existing' = existing /\ sink' = sink
      BY DEF QueryPage, KeepTables
    <2> QED  BY <2>1, QueryPageFrame DEF SamePosition, SameAttempt
  <1>4. /\ Step' = Step /\ Selected' = Selected /\ NoSuchTable' = NoSuchTable
        /\ Whole' = Whole
    BY <1>3, SameSelection
  <1>5. Before' = Before
    BY <1>3, <1>4 DEF Before
  <1>6. Querying /\ Step.limit # 0
    BY <1>2, <1>3, <1>4 DEF Pushing
  <1>7. run.offset \in Nat
    BY <1>1 DEF RunStates
  <1>8. CASE CapReached
    <2>1. run' = [run EXCEPT !.phase = "succeeded"]
      BY <1>8 DEF QueryPage
    <2>2. Step.limit \in Nat /\ Step.limit >= 1 /\ run.offset >= Step.limit
      <3>1. Step.limit \in Nat \cup {-1}
        BY <1>2, AtAStep DEF StepRecord
      <3> QED  BY <1>6, <1>8, <3>1 DEF CapReached
    <2>3. ~run.first
      BY <1>6, <1>7, <2>2 DEF Querying
    <2>4. Capped(run.offset) = Step.limit
      BY <1>7, <2>2 DEF Capped, Shorter
    <2>5. ~NoSuchTable /\ Step.limit <= Len(Selected) /\ Pushed(Step.limit)
      BY <1>6, <2>3, <2>4 DEF Querying
    <2>6. Selected \in Seq(Nat) /\ Len(Selected) \in Nat
      BY <1>2, <2>5, RowsOfTables, LenProperties
    <2>7. Shorter(0 + Step.limit, Len(Selected)) = Step.limit
      BY <2>2, <2>5, <2>6 DEF Shorter
    <2>8. Whole = SubSeq(Selected, 0 + 1, Step.limit)
      BY <2>2, <2>7 DEF Whole, PageOf
    <2>9. run'.phase = "succeeded"
      BY <1>1, <2>1 DEF RunStates
    <2> QED  BY <1>3, <1>4, <1>5, <2>5, <2>8, <2>9 DEF Pushed
  <1>9. CASE ~CapReached /\ run'.phase # "failed"
    <2>1. ~NoSuchTable
      BY <1>1, <1>9 DEF QueryPage, RunStates
    <2>2. PICK got : got = PageOf(Selected, run.offset, PageLimit)
      OBVIOUS
    <2>3. run' = [run EXCEPT !.page = got, !.more = Len(got) = PageLimit,
                    !.phase = IF got = <<>> /\ ~run.first THEN "succeeded" ELSE "write"]
      BY <1>1, <1>9, <2>1, <2>2 DEF QueryPage, RunStates
    <2>4. /\ got = SubSeq(Selected, run.offset + 1, EndOfPage)
          /\ Selected \in Seq(Nat) /\ Len(Selected) \in Nat
          /\ EndOfPage \in Nat /\ EndOfPage <= Len(Selected)
          /\ EndOfPage <= run.offset + PageLimit
          /\ PageLimit \in Nat /\ PageLimit >= 1 /\ Capped(run.offset) = run.offset
          /\ EndOfPage # run.offset + PageLimit => 
                EndOfPage = Len(Selected) /\ Whole = SubSeq(Selected, 1, EndOfPage)
      BY <1>2, <1>9, <2>1, <2>2, PageFacts
    <2>5. /\ got \in Seq(Nat)
          /\ Len(got) = IF run.offset < EndOfPage THEN EndOfPage - run.offset ELSE 0
      BY <1>7, <2>4, Cut
    <2>6. CASE got = <<>> /\ ~run.first
      <3>1. run'.phase = "succeeded"
        BY <1>1, <2>3, <2>6 DEF RunStates
      <3>2. ~(run.offset < EndOfPage)
        <4>1. Len(got) = 0
          BY <2>6
        <4>2. EndOfPage \in Nat
          BY <2>4
        <4> QED  BY <1>7, <2>5, <4>1, <4>2
      <3>3. Pushed(run.offset) /\ run.offset <= Len(Selected)
        BY <1>6, <2>4, <2>6 DEF Querying
      <3>4. EndOfPage = run.offset /\ Whole = SubSeq(Selected, 1, EndOfPage)
        BY <1>7, <2>4, <3>2, <3>3
      <3> QED  BY <1>3, <1>4, <1>5, <3>1, <3>3, <3>4 DEF Pushed
    <2>7. CASE ~(got = <<>> /\ ~run.first)
      <3>1. run'.phase = "write" /\ run'.page = got /\ run'.more = (Len(got) = PageLimit)
        BY <1>1, <2>3, <2>7 DEF RunStates
      <3>2. PageLimit' = PageLimit /\ EndOfPage' = EndOfPage /\ CapReached' = CapReached
        BY <1>3, <1>4 DEF PageLimit, EndOfPage, CapReached
      <3>3. (Len(got) = PageLimit) = (EndOfPage = run.offset + PageLimit)
        <4>1. EndOfPage \in Nat /\ PageLimit \in Nat /\ PageLimit >= 1
          BY <2>4
        <4>2. Len(got) = IF run.offset < EndOfPage THEN EndOfPage - run.offset ELSE 0
          BY <2>5
        <4>3. (Len(got) = PageLimit) <=> (EndOfPage = run.offset + PageLimit)
          BY <1>7, <4>1, <4>2
        <4> QED  BY <4>3
      <3>4. PICK pos : pos = run.offset
        OBVIOUS
      <3>5. pos <= EndOfPage
        BY <1>6, <1>7, <2>4, <2>5, <2>7, <3>4, EmptySeq DEF Querying
      <3>6. WrittenTo(pos)'
        <4>1. CASE run.first
          BY <1>3, <1>4, <1>6, <2>4, <3>1, <3>2, <3>4, <3>5, <4>1 DEF Querying, WrittenTo
        <4>2. CASE ~run.first
          <5>1. Pushed(pos)
            BY <1>6, <2>4, <3>4, <4>2 DEF Querying
          <5>2. Pushed(pos)'
            BY <1>3, <1>4, <1>5, <5>1 DEF Pushed
          <5> QED  BY <1>3, <1>4, <2>4, <3>1, <3>2, <3>4, <3>5, <4>2, <5>2 DEF WrittenTo
        <4> QED  BY <4>1, <4>2
      <3>7. Writing'
        BY <1>3, <1>4, <1>7, <1>9, <2>1, <3>1, <3>2, <3>3, <3>4, <3>6 DEF Writing
      <3> QED  BY <3>1, <3>7
    <2> QED  BY <2>6, <2>7
  <1> QED  BY <1>2, <1>8, <1>9

(* A batch of a page that was written up to some row, and what follows it.   *)
LEMMA BatchOfPage ==
    ASSUME Types, Placed, run.phase = "write", ~NoSuchTable, ~CapReached,
           NEW pos \in Nat, WrittenTo(pos)
    PROVE  /\ pos + Len(Batch) \in Nat /\ pos + Len(Batch) <= EndOfPage
           /\ Rest = SubSeq(Selected, (pos + Len(Batch)) + 1, EndOfPage)
           /\ Rest = <<>> => pos + Len(Batch) = EndOfPage
           /\ Written(Batch, Mode(run.first))
                = Before \o SubSeq(Selected, 1, pos + Len(Batch))
  <1>1. Selected \in Seq(Nat) /\ Len(Selected) \in Nat /\ EndOfPage \in Nat
        /\ EndOfPage <= Len(Selected)
    BY PageFacts
  <1>2. pos <= EndOfPage /\ run.page = SubSeq(Selected, pos + 1, EndOfPage)
    BY DEF WrittenTo
  <1>3. Len(run.page) = EndOfPage - pos
    <2>1. Len(run.page) = IF pos < EndOfPage THEN EndOfPage - pos ELSE 0
      BY <1>1, <1>2, Cut
    <2> QED  BY <1>1, <1>2, <2>1
  <1>4. /\ Len(Batch) \in Nat /\ Len(Batch) <= EndOfPage - pos
        /\ Len(Rest) = (EndOfPage - pos) - Len(Batch)
    BY <1>3, BatchTyped
  <1>5. PICK k \in Nat : k = Len(Batch)
    BY <1>4
  <1>6. pos + k \in Nat /\ pos + k <= EndOfPage /\ (Rest = <<>> => pos + k = EndOfPage)
    <2>1. Rest = <<>> => Len(Rest) = 0
      OBVIOUS
    <2> QED  BY <1>1, <1>4, <1>5, <2>1
  <1>7. Batch = SubSeq(Selected, pos + 1, pos + k)
    <2>1. Batch = SubSeq(run.page, 1, k)
      BY <1>5, BatchTyped DEF Batch
    <2>2. SubSeq(SubSeq(Selected, pos + 1, EndOfPage), 0 + 1, k)
            = SubSeq(Selected, (pos + 0) + 1, pos + k)
      <3>1. k <= EndOfPage - pos /\ 0 <= k /\ 0 \in Nat
        BY <1>4, <1>5
      <3> QED  BY <1>1, <1>2, <3>1, CutOfCut
    <2>3. pos + 0 = pos /\ 0 + 1 = 1
      OBVIOUS
    <2> QED  BY <1>2, <2>1, <2>2, <2>3, Zenon
  <1>8. Rest = SubSeq(Selected, (pos + k) + 1, EndOfPage)
    <2>1. Rest = SubSeq(run.page, k + 1, EndOfPage - pos)
      BY <1>3, <1>5 DEF Rest
    <2>2. EndOfPage - pos \in Nat /\ pos + (EndOfPage - pos) = EndOfPage /\ k <= EndOfPage - pos
      BY <1>1, <1>2, <1>4, <1>5
    <2>3. SubSeq(SubSeq(Selected, pos + 1, EndOfPage), k + 1, EndOfPage - pos)
            = SubSeq(Selected, (pos + k) + 1, pos + (EndOfPage - pos))
      BY <1>1, <1>2, <2>2, CutOfCut
    <2> QED  BY <1>2, <2>1, <2>2, <2>3
  <1>9. Written(Batch, Mode(run.first)) = Before \o SubSeq(Selected, 1, pos + k)
    <2>1. CASE run.first
      <3>1. pos = 0 /\ sink = run.base /\ Batch = SubSeq(Selected, 1, pos + k)
        BY <1>5, <1>7, <2>1 DEF WrittenTo
      <3>2. <<>> \o Batch = Batch
        BY BatchTyped, ConcatEmptySeq
      <3> QED  BY <2>1, <3>1, <3>2 DEF Written, Mode, Before
    <2>2. CASE ~run.first
      <3>1. Written(Batch, Mode(run.first)) = sink \o Batch
        BY <2>2 DEF Written, Mode
      <3>2. sink = Before \o SubSeq(Selected, 1, pos)
        BY <2>2 DEF WrittenTo, Pushed
      <3>3. SubSeq(Selected, 1, pos) \o SubSeq(Selected, pos + 1, pos + k)
                = SubSeq(Selected, 1, pos + k)
        <4>1. SubSeq(Selected, 0 + 1, pos) \o SubSeq(Selected, pos + 1, pos + k)
                = SubSeq(Selected, 0 + 1, pos + k)
          BY <1>1, <1>6, Joined
        <4>2. 0 + 1 = 1
          OBVIOUS
        <4> QED  BY <4>1, <4>2, Zenon
      <3>4. /\ Before \in Seq(Nat) /\ SubSeq(Selected, 1, pos) \in Seq(Nat)
            /\ SubSeq(Selected, pos + 1, pos + k) \in Seq(Nat)
        <4>1. Before \in Seq(Nat)
          BY EmptySeq DEF Before, Types, RunStates
        <4>2. SubSeq(Selected, 1, pos) \in Seq(Nat)
          BY <1>1, <1>2, BatchAndRest
        <4> QED  BY <1>7, <4>1, <4>2, BatchTyped
      <3>5. (Before \o SubSeq(Selected, 1, pos)) \o SubSeq(Selected, pos + 1, pos + k)
            = Before \o (SubSeq(Selected, 1, pos) \o SubSeq(Selected, pos + 1, pos + k))
        BY <3>4, Regrouped
      <3> QED  BY <1>7, <3>1, <3>2, <3>3, <3>5, Zenon
    <2> QED  BY <2>1, <2>2
  <1> QED  BY <1>5, <1>6, <1>8, <1>9

LEMMA WriteBatchPushes == ASSUME Types, Placed, Pushing, WriteBatch  PROVE Pushing'
  <1> SUFFICES ASSUME ~run'.touched, Step'.limit # 0
               PROVE  /\ run'.phase = "query" => Querying'
                      /\ run'.phase = "write" => Writing'
                      /\ run'.phase = "succeeded" => sink' = Before' \o Whole'
    BY DEF Pushing
  <1>1. PICK R : run \in RunStates(R)
    BY DEF Types
  <1>2. run.phase = "write"
    BY DEF WriteBatch
  <1>3. /\ pipe' = pipe /\ tables' = tables /\ existing' = existing
        /\ run'.order = run.order /\ run'.at = run.at /\ run'.prev = run.prev
        /\ run'.base = run.base /\ run'.more = run.more
        /\ run'.touched = run.touched
    BY <1>1 DEF WriteBatch, KeepTables, RunStates
  <1>4. /\ Step' = Step /\ Selected' = Selected /\ NoSuchTable' = NoSuchTable
        /\ Whole' = Whole
    BY <1>3, SameSelection
  <1>5. Before' = Before
    BY <1>3, <1>4 DEF Before
  <1>6. Writing
    BY <1>2, <1>3, <1>4 DEF Pushing
  <1>7. CASE run'.phase = "failed"
    BY <1>7
  <1>8. CASE run'.phase # "failed"
    <2>1. /\ sink' = Written(Batch, Mode(run.first))
          /\ run' = [run EXCEPT !.page = Rest, !.first = FALSE,
                        !.phase = AfterBatch(Rest), !.offset = NextOffset(Rest)]
      BY <1>1, <1>8 DEF WriteBatch, Batch, Rest, RunStates
    <2>2. /\ run'.page = Rest /\ run'.first = FALSE
          /\ run'.phase = AfterBatch(Rest) /\ run'.offset = NextOffset(Rest)
      BY <1>1, <2>1 DEF RunStates
    <2>3. ~NoSuchTable /\ ~CapReached /\ run.more = (EndOfPage = run.offset + PageLimit)
      BY <1>6 DEF Writing
    <2>4. PICK pos \in Nat : WrittenTo(pos)
      BY <1>6 DEF Writing
    <2>5. PICK n \in Nat : n = pos + Len(Batch)
      BY <1>2, <2>3, <2>4, BatchOfPage
    <2>6. /\ n <= EndOfPage /\ Rest = SubSeq(Selected, n + 1, EndOfPage)
          /\ Rest = <<>> => n = EndOfPage
          /\ sink' = Before \o SubSeq(Selected, 1, n)
      BY <1>2, <2>1, <2>3, <2>4, <2>5, BatchOfPage
    <2>7. Pushed(n)'
      BY <1>4, <1>5, <2>6 DEF Pushed
    <2>8. CASE Rest # <<>>
      <3>1. run'.phase = "write" /\ run'.offset = run.offset
        BY <2>2, <2>8 DEF AfterBatch, NextOffset
      <3>2. PageLimit' = PageLimit /\ EndOfPage' = EndOfPage /\ CapReached' = CapReached
        BY <1>4, <3>1 DEF PageLimit, EndOfPage, CapReached
      <3>3. WrittenTo(n)'
        BY <1>4, <2>2, <2>6, <2>7, <3>2 DEF WrittenTo
      <3>4. Writing'
        BY <1>3, <1>4, <2>3, <3>1, <3>2, <3>3 DEF Writing
      <3> QED  BY <3>1, <3>4
    <2>9. CASE Rest = <<>>
      <3>1. run'.offset = run.offset + SinkPage /\ n = EndOfPage
        BY <2>2, <2>6, <2>9 DEF NextOffset
      <3>2. /\ EndOfPage <= Len(Selected)
            /\ Capped(run.offset + SinkPage) = run.offset + PageLimit
            /\ EndOfPage # run.offset + PageLimit => Whole = SubSeq(Selected, 1, EndOfPage)
        BY <1>2, <2>3, PageFacts
      <3>3. CASE run.more
        <4>1. run'.phase = "query"
          BY <2>2, <2>9, <3>3 DEF AfterBatch
        <4>2. (Capped(run.offset))' = n
          BY <1>4, <2>3, <3>1, <3>2, <3>3 DEF Capped
        <4>3. Querying'
          BY <1>4, <2>2, <2>3, <2>7, <3>1, <3>2, <4>2 DEF Querying
        <4> QED  BY <4>1, <4>3
      <3>4. CASE ~run.more
        <4>1. run'.phase = "succeeded"
          BY <2>2, <2>9, <3>4 DEF AfterBatch
        <4>2. Whole = SubSeq(Selected, 1, n)
          BY <2>3, <3>1, <3>2, <3>4
        <4> QED  BY <1>4, <1>5, <2>6, <4>1, <4>2
      <3> QED  BY <3>3, <3>4
    <2> QED  BY <2>8, <2>9
  <1> QED  BY <1>7, <1>8

LEMMA AttemptPushes == ASSUME Types, Placed, Attempt  PROVE Pushing'
  <1>1. PICK R : run \in RunStates(R)
    BY DEF Types
  <1>2. pipe' = pipe /\ sink' = sink /\ run.phase = "attempt"
    BY DEF Attempt
  <1>3. CASE run'.phase = "failed"
    BY <1>3, NotPushing
  <1>4. CASE run'.phase # "failed"
    <2>1. run' = [run EXCEPT !.phase = FirstPhase(KindOf(Current)),
                      !.cursor = LoadedCursor, !.from = LoadedCursor, !.created = FALSE,
                      !.total = 0, !.offset = 0, !.first = TRUE, !.page = <<>>, !.base = sink,
                      !.touched = FALSE]
      BY <1>1, <1>4 DEF Attempt, RunStates
    <2>2. /\ run'.phase = FirstPhase(KindOf(Current)) /\ run'.offset = 0 /\ run'.first = TRUE
          /\ run'.base = sink /\ run'.order = run.order /\ run'.at = run.at
      BY <1>1, <2>1 DEF RunStates
    <2>3. KindOf(Current)' = KindOf(Current)
      BY <1>2, <2>2, SamePlace
    <2>4. run'.phase = "succeeded" => KindOf(Current)' # "sink"
      BY <2>2, <2>3 DEF FirstPhase
    <2>5. run'.phase # "write"
      BY <2>2 DEF FirstPhase
    <2>6. Querying'
      BY <1>2, <2>2 DEF Querying
    <2> QED  BY <2>4, <2>5, <2>6 DEF Pushing
  <1> QED  BY <1>3, <1>4

LEMMA UntouchedPushes ==
    ASSUME Pushing, SourceGrows \/ UNCHANGED vars
    PROVE  Pushing'
  <1>1. /\ pipe' = pipe /\ tables' = tables /\ existing' = existing /\ sink' = sink
        /\ run' = run
    BY DEF SourceGrows, vars
  <1>2. /\ Step' = Step /\ Selected' = Selected /\ NoSuchTable' = NoSuchTable
        /\ KindOf(Current)' = KindOf(Current) /\ Whole' = Whole
    BY <1>1, SameSelection
  <1>3. Before' = Before /\ PageLimit' = PageLimit /\ CapReached' = CapReached
    BY <1>1, <1>2 DEF Before, PageLimit, CapReached
  <1>4. EndOfPage' = EndOfPage /\ \A n : Pushed(n)' = Pushed(n) /\ Capped(n)' = Capped(n)
    BY <1>1, <1>2, <1>3 DEF EndOfPage, Pushed, Capped
  <1>5. Querying' = Querying
    BY <1>1, <1>2, <1>4 DEF Querying
  <1>6. \A pos : WrittenTo(pos)' = WrittenTo(pos)
    BY <1>1, <1>2, <1>4 DEF WrittenTo
  <1>7. Writing' = Writing
    BY <1>1, <1>2, <1>3, <1>4, <1>6 DEF Writing
  <1> QED  BY <1>1, <1>2, <1>3, <1>5, <1>7 DEF Pushing

LEMMA EditPushes == ASSUME Types, Placed, Edit  PROVE Pushing'
  <1>1. PICK R : run \in RunStates(R)
    BY DEF Types
  <1>2. run'.phase = run.phase /\ run'.touched = (run.phase # "idle")
    BY <1>1 DEF Edit, RunStates
  <1> QED  BY <1>2 DEF Pushing

LEMMA NextPushes ==
    ASSUME Types, Placed, Pushing, [Next]_vars
    PROVE  Pushing'
  <1>1. PICK R : run \in RunStates(R)
    BY DEF Types
  <1>2. ASSUME StartRun \/ Dispatch \/ SucceedRun \/ StepSucceeds \/ StepFails \/ Crash
        PROVE  Pushing'
    <2>1. run'.phase \in {"idle", "dispatch", "attempt"}
      <3>1. Idle.phase = "idle"
        BY DEF Idle
      <3>2. ASSUME StartRun  PROVE run'.phase \in {"idle", "dispatch"}
        BY <3>1, <3>2 DEF StartRun, Idle
      <3> QED  BY <1>1, <1>2, <3>1, <3>2
               DEF RunStates, Dispatch, SucceedRun, StepSucceeds, StepFails, Crash
    <2> QED  BY <2>1, NotPushing
  <1>3. ASSUME ReadPage \/ AppendPage \/ SaveCursor  PROVE Pushing'
    <2>1. /\ run'.phase \notin {"query", "write"}
          /\ run'.phase = "succeeded" => run.phase = "save"
          /\ pipe' = pipe /\ run'.order = run.order /\ run'.at = run.at
      <3>1. CASE ReadPage
        <4>1. ASSUME NEW p, run' = [run EXCEPT !.page = p[1], !.more = ~p[2],
                                  !.phase = IF p[1] = <<>> THEN "save" ELSE "append",
                                  !.created = @ \/ Creates(p[1])]
              PROVE  run'.phase \in {"save", "append"} /\ run'.order = run.order
                     /\ run'.at = run.at
          BY <1>1, <4>1 DEF RunStates
        <4>2. ASSUME NEW again, run' = [run EXCEPT !.phase = "failed", !.retryable = again]
              PROVE  run'.phase = "failed" /\ run'.order = run.order /\ run'.at = run.at
          BY <1>1, <4>2 DEF RunStates
        <4> QED  BY <3>1, <4>1, <4>2 DEF ReadPage
      <3>2. CASE AppendPage
        BY <1>1, <3>2 DEF AppendPage, RunStates
      <3>3. CASE SaveCursor
        BY <1>1, <3>3 DEF SaveCursor, RunStates
      <3> QED  BY <1>3, <3>1, <3>2, <3>3
    <2>2. pipe' = pipe /\ run'.order = run.order /\ run'.at = run.at
      BY <2>1
    <2>3. run'.phase = "succeeded" => KindOf(Current)' = "connector"
      BY <2>1, <2>2, SamePlace DEF Placed
    <2> QED  BY <2>1, <2>3, NotPushing
  <1>4. ASSUME Exec \/ Store \/ Fill  PROVE Pushing'
    <2>1. /\ run'.phase \notin {"query", "write"} /\ run.phase \in {"exec", "store", "fill"}
          /\ pipe' = pipe /\ run'.order = run.order /\ run'.at = run.at
      <3>1. CASE Exec
        BY <3>1, ExecFrame DEF SamePosition, Exec
      <3>2. CASE Store
        BY <1>1, <3>2 DEF RunStates, Store
      <3>3. CASE Fill
        BY <1>1, <3>3 DEF RunStates, Fill
      <3> QED  BY <1>4, <3>1, <3>2, <3>3
    <2>2. pipe' = pipe /\ run'.order = run.order /\ run'.at = run.at
      BY <2>1
    <2>3. KindOf(Current)' # "sink"
      BY <2>1, <2>2, SamePlace DEF Placed
    <2> QED  BY <2>1, <2>3, NotPushing
  <1> QED  BY <1>2, <1>3, <1>4, AttemptPushes, QueryPagePushes, WriteBatchPushes, EditPushes,
              UntouchedPushes DEF Next, RunStep

-----------------------------------------------------------------------------
(* What a source step has read.                                              *)
RowsOf(n) == [k \in 1..n |-> FirstKey + k - 1]

LEMMA RowsOfTyped ==
    ASSUME NEW n \in Nat
    PROVE  /\ RowsOf(n) \in Seq(Nat) /\ Len(RowsOf(n)) = n
           /\ \A k \in 1..n : RowsOf(n)[k] = FirstKey + k - 1
  <1>1. FirstKey \in Nat /\ FirstKey >= 1
    BY StepsAssumption DEF StepsAssumption
  <1>2. RowsOf(n) \in [1..n -> Nat]
    BY <1>1 DEF RowsOf
  <1>3. RowsOf(n) \in Seq(Nat) /\ Len(RowsOf(n)) = n
    BY <1>2, LenProperties, SeqDef
  <1> QED  BY <1>3 DEF RowsOf

(* Rows that are read are the same when the source has grown.                *)
LEMMA GrownRows ==
    ASSUME source \in Nat, source' \in Nat, source <= source'
    PROVE  \A a, b \in Nat : b <= source \/ b <= a
                => SubSeq(SourceRows', a + 1, b) = SubSeq(SourceRows, a + 1, b)
  <1>1. PICK m \in Nat, n \in Nat : m = source /\ n = source' /\ m <= n
    OBVIOUS
  <1>2. PICK r, g : r = RowsOf(m) /\ g = RowsOf(n)
    OBVIOUS
  <1>3. r = SourceRows /\ g = SourceRows'
    BY <1>1, <1>2 DEF SourceRows, RowsOf
  <1>4. g \in Seq(Nat) /\ Len(g) = n /\ \A k \in 1..n : g[k] = FirstKey + k - 1
    BY <1>2, RowsOfTyped
  <1>5. r \in Seq(Nat) /\ Len(r) = m /\ \A k \in 1..m : r[k] = FirstKey + k - 1
    BY <1>2, RowsOfTyped
  <1>6. ASSUME NEW a \in Nat, NEW b \in Nat, b <= m \/ b <= a
        PROVE  SubSeq(g, a + 1, b) = SubSeq(r, a + 1, b)
    <2>1. CASE b <= a
      <3>1. a + 1 \in Int /\ b < a + 1
        BY <2>1
      <3>2. SubSeq(g, a + 1, b) = <<>> /\ SubSeq(r, a + 1, b) = <<>>
        BY <1>4, <1>5, <3>1, SubSeqEmpty
      <3> QED  BY <3>2
    <2>2. CASE a < b /\ b <= m
      <3>1. PICK u, v : u = SubSeq(g, a + 1, b) /\ v = SubSeq(r, a + 1, b)
        OBVIOUS
      <3>2. b <= n
        BY <1>1, <2>2
      <3>3. u \in Seq(Nat) /\ Len(u) = b - a /\ \A i \in 1..(b - a) : u[i] = g[a + i]
        BY <1>4, <2>2, <3>1, <3>2, Cut
      <3>4. v \in Seq(Nat) /\ Len(v) = b - a /\ \A i \in 1..(b - a) : v[i] = r[a + i]
        BY <1>5, <2>2, <3>1, Cut
      <3>5. ASSUME NEW i \in 1..(b - a)  PROVE u[i] = v[i]
        <4>1. a + i \in 1..n /\ a + i \in 1..m
          BY <2>2, <3>2
        <4> QED  BY <1>4, <1>5, <3>3, <3>4, <4>1
      <3>6. u = v
        BY <3>3, <3>4, <3>5, SeqEqual
      <3> QED  BY <3>1, <3>6
    <2> QED  BY <1>6, <2>1, <2>2
  <1> QED  BY <1>1, <1>3, <1>6

LEMMA NotPulling ==
    ASSUME run'.phase \notin {"read", "append", "save"},
           run'.phase = "succeeded" => KindOf(Current)' # "connector"
    PROVE  Pulling'
  BY DEF Pulling

LEMMA AttemptPulls == ASSUME Types, Placed, Attempt  PROVE Pulling'
  <1>1. PICK R : run \in RunStates(R)
    BY DEF Types
  <1>2. pipe' = pipe /\ run.phase = "attempt"
    BY DEF Attempt
  <1>3. CASE run'.phase = "failed"
    BY <1>3, NotPulling
  <1>4. CASE run'.phase # "failed"
    <2>1. run' = [run EXCEPT !.phase = FirstPhase(KindOf(Current)),
                      !.cursor = LoadedCursor, !.from = LoadedCursor, !.created = FALSE,
                      !.total = 0, !.offset = 0, !.first = TRUE, !.page = <<>>, !.base = sink,
                      !.touched = FALSE]
      BY <1>1, <1>4 DEF Attempt, RunStates
    <2>2. /\ run'.phase = FirstPhase(KindOf(Current)) /\ run'.cursor = LoadedCursor
          /\ run'.from = LoadedCursor /\ run'.created = FALSE /\ run'.total = 0
          /\ run'.order = run.order /\ run'.at = run.at
      BY <1>1, <2>1 DEF RunStates
    <2>3. KindOf(Current)' = KindOf(Current) /\ Step' = Step
      BY <1>2, <2>2, SamePlace
    <2>4. CASE KindOf(Current) = "connector"
      <3>1. run'.phase = "read"
        BY <2>2, <2>4 DEF FirstPhase
      <3>2. LoadedCursor \in Nat
        BY <1>2, AtAStep DEF LoadedCursor, Types
      <3>3. RowsUpTo(LoadedCursor) \in Nat
        BY <3>2, SourceRowsTyped
      <3>4. From' = Upto' /\ From' \in Nat
        <4>1. CASE Step.incremental
          <5>1. From' = RowsUpTo(LoadedCursor) /\ Upto' = RowsUpTo(LoadedCursor)
            BY <2>2, <2>3, <4>1 DEF From, Upto, RowsUpTo
          <5> QED  BY <3>3, <5>1
        <4>2. CASE ~Step.incremental
          BY <2>2, <2>3, <4>2 DEF From, Upto, LoadedCursor
        <4> QED  BY <4>1, <4>2
      <3>5. ~Step'.incremental => run'.total = run'.cursor
        BY <2>2, <2>3 DEF LoadedCursor
      <3> QED  BY <2>2, <3>1, <3>4, <3>5 DEF Pulling
    <2>5. CASE KindOf(Current) # "connector"
      <3>1. run'.phase \notin {"read", "append", "save"}
        BY <2>2, <2>5 DEF FirstPhase
      <3> QED  BY <2>3, <2>5, <3>1, NotPulling
    <2> QED  BY <2>4, <2>5
  <1> QED  BY <1>3, <1>4

LEMMA ReadPagePulls == ASSUME Types, Placed, Pulling, ReadPage  PROVE Pulling'
  <1>1. PICK R : run \in RunStates(R)
    BY DEF Types
  <1>2. run.phase = "read" /\ pipe' = pipe /\ source' = source
    BY DEF ReadPage
  <1>3. CASE run'.phase = "failed"
    BY <1>3, NotPulling
  <1>4. CASE run'.phase # "failed"
    <2>1. PICK p \in TruePages :
            /\ run' = [run EXCEPT !.page = p[1], !.more = ~p[2],
                                  !.phase = IF p[1] = <<>> THEN "save" ELSE "append",
                                  !.created = @ \/ Creates(p[1])]
            /\ IF Creates(p[1]) THEN Recreate(Out) ELSE KeepTables
      BY <1>1, <1>4 DEF ReadPage, RunStates
    <2>2. /\ run'.page = p[1] /\ run'.phase = (IF p[1] = <<>> THEN "save" ELSE "append")
          /\ run'.created = (run.created \/ Creates(p[1]))
          /\ run'.order = run.order /\ run'.at = run.at /\ run'.touched = run.touched
          /\ run'.from = run.from /\ run'.cursor = run.cursor /\ run'.total = run.total
      BY <1>1, <2>1 DEF RunStates
    <2>3. /\ Step' = Step /\ Out' = Out /\ PagesAsAsked' = PagesAsAsked
          /\ KindOf(Current)' = KindOf(Current)
      BY <1>2, <2>2, SamePlace
    <2>4. SourceRows' = SourceRows /\ From' = From /\ Upto' = Upto
      BY <1>2, <2>2, <2>3 DEF SourceRows, From, Upto, RowsUpTo
    <2> SUFFICES ASSUME ~run'.touched, PagesAsAsked', KindOf(Current)' = "connector"
                 PROVE  Pulling'
      BY DEF Pulling
    <2>5. /\ PagesAsAsked
          /\ From <= Upto /\ (From = Upto \/ Upto <= source)
          /\ run.created => Pulled
          /\ ~run.created => From = Upto
          /\ ~Step.incremental => run.total = run.cursor
      BY <1>2, <2>2, <2>3 DEF Pulling
    <2>6. From \in Nat /\ Upto \in Nat
          /\ Behind(run.cursor) = SubSeq(SourceRows, Upto + 1, source)
      BY <1>2, <2>5, BehindTyped
    <2>7. SourceRows \in Seq(Nat) /\ Len(SourceRows) = source /\ source \in Nat
      BY SourceRowsTyped DEF Types
    <2>8. run'.created
      <3>1. Step.described
        BY <2>5 DEF PagesAsAsked
      <3> QED  BY <2>2, <3>1 DEF Creates
    <2>9. Pulled'
      <3>1. CASE Creates(p[1])
        <4>1. tables'[Out] = <<>> /\ Out \in existing'
          BY <1>2, <2>1, <3>1, AtAStep DEF Recreate, Types
        <4>2. From = Upto
          BY <2>5, <3>1 DEF Creates
        <4>3. SubSeq(SourceRows, From + 1, Upto) = <<>>
          <5>1. Upto < From + 1
            BY <2>6, <4>2
          <5> QED  BY <2>6, <2>7, <5>1, SubSeqEmpty
        <4> QED  BY <2>3, <2>4, <4>1, <4>3 DEF Pulled
      <3>2. CASE ~Creates(p[1])
        <4>1. tables' = tables /\ existing' = existing /\ run.created
          BY <2>1, <2>2, <2>8, <3>2 DEF KeepTables
        <4> QED  BY <2>3, <2>4, <2>5, <4>1 DEF Pulled
      <3> QED  BY <3>1, <3>2
    <2>10. ASSUME p[1] # <<>>
           PROVE  Upto + Len(p[1]) <= source
                  /\ p[1] = SubSeq(SourceRows, Upto + 1, Upto + Len(p[1]))
      <3>1. PICK n \in Nat :
                /\ n <= Len(Behind(run.cursor)) /\ Len(p[1]) = n
                /\ p[1] = SubSeq(Behind(run.cursor), 1, n)
                /\ p[1] \in Seq(Nat)
        BY <1>2, PageOfSource
      <3>2. n # 0
        BY <2>10, <3>1, EmptySeq
      <3>3. Len(Behind(run.cursor)) = IF Upto < source THEN source - Upto ELSE 0
        BY <2>6, <2>7, Cut
      <3>4. Upto < source /\ n <= source - Upto
        BY <2>6, <2>7, <3>1, <3>2, <3>3
      <3>5. SubSeq(SubSeq(SourceRows, Upto + 1, source), 0 + 1, n)
              = SubSeq(SourceRows, (Upto + 0) + 1, Upto + n)
        BY <2>6, <2>7, <3>4, CutOfCut
      <3>6. Upto + 0 = Upto /\ 0 + 1 = 1
        BY <2>6
      <3>7. p[1] = SubSeq(SourceRows, Upto + 1, Upto + n)
        BY <2>6, <3>1, <3>5, <3>6, Zenon
      <3>8. Upto + n <= source
        BY <2>6, <2>7, <3>4
      <3> QED  BY <3>1, <3>7, <3>8
    <2>11. /\ From' <= Upto' /\ (From' = Upto' \/ Upto' <= source')
           /\ ~Step'.incremental => run'.total = run'.cursor
      BY <1>2, <2>2, <2>3, <2>4, <2>5
    <2>12. run'.phase = "append" =>
            /\ run'.page # <<>> /\ Upto' + Len(run'.page) <= source'
            /\ run'.page = SubSeq(SourceRows', Upto' + 1, Upto' + Len(run'.page))
      <3>1. ASSUME run'.phase = "append"  PROVE p[1] # <<>>
        BY <2>2, <3>1
      <3> QED  BY <1>2, <2>2, <2>4, <2>10, <3>1
    <2> QED  BY <2>8, <2>9, <2>11, <2>12 DEF Pulling
  <1> QED  BY <1>3, <1>4

LEMMA AppendPagePulls == ASSUME Types, Placed, Pulling, AppendPage  PROVE Pulling'
  <1>1. PICK R : run \in RunStates(R)
    BY DEF Types
  <1>2. run.phase = "append" /\ pipe' = pipe /\ source' = source
    BY DEF AppendPage
  <1>3. PICK n \in Nat : n = Len(run.page)
    BY <1>1, LenProperties DEF RunStates
  <1>4. /\ run'.total = run.total + n /\ run'.cursor = Advanced(run.total + n)
        /\ run'.page = <<>> /\ run'.phase \in {"read", "save"}
        /\ run'.order = run.order /\ run'.at = run.at /\ run'.touched = run.touched
        /\ run'.from = run.from /\ run'.created = run.created
    BY <1>1, <1>3 DEF AppendPage, RunStates
  <1>5. /\ Step' = Step /\ Out' = Out /\ PagesAsAsked' = PagesAsAsked
        /\ KindOf(Current)' = KindOf(Current)
    BY <1>2, <1>4, SamePlace
  <1> SUFFICES ASSUME ~run'.touched, PagesAsAsked', KindOf(Current)' = "connector"
               PROVE  Pulling'
    BY DEF Pulling
  <1>6. /\ PagesAsAsked /\ From <= Upto /\ run.created /\ Pulled
        /\ ~Step.incremental => run.total = run.cursor
        /\ run.page # <<>> /\ Upto + n <= source
        /\ run.page = SubSeq(SourceRows, Upto + 1, Upto + n)
    BY <1>2, <1>3, <1>4, <1>5 DEF Pulling
  <1>7. From \in Nat /\ Upto \in Nat
    BY <1>2, <1>6, BehindTyped
  <1>8. /\ SourceRows \in Seq(Nat) /\ Len(SourceRows) = source /\ source \in Nat
        /\ \A k \in 1..source : SourceRows[k] = FirstKey + k - 1
        /\ FirstKey \in Nat
    BY SourceRowsTyped DEF Types
  <1>9. n >= 1 /\ run.page[n] = SourceRows[Upto + n]
    <2>1. n # 0
      BY <1>1, <1>3, <1>6, EmptySeq DEF RunStates
    <2>2. PICK b \in Nat : b = Upto + n
      BY <1>7
    <2>3. b <= Len(SourceRows) /\ b - Upto = n
      BY <1>6, <1>7, <1>8, <2>2
    <2>4. \A i \in 1..(b - Upto) : SubSeq(SourceRows, Upto + 1, b)[i] = SourceRows[Upto + i]
      BY <1>7, <1>8, <2>3, Cut
    <2>5. SubSeq(SourceRows, Upto + 1, b)[n] = SourceRows[Upto + n]
      <3>1. n \in 1..(b - Upto)
        BY <1>7, <2>1, <2>3
      <3> QED  BY <2>4, <3>1
    <2>6. run.page[n] = SourceRows[Upto + n]
      BY <1>6, <2>2, <2>5, Zenon
    <2> QED  BY <2>1, <2>6
  <1>10. SourceRows' = SourceRows /\ From' = From
    BY <1>2, <1>4, <1>5 DEF SourceRows, From, RowsUpTo
  <1>11. Upto' = Upto + n
    <2>1. CASE Step.incremental
      <3>1. run'.cursor = SourceRows[Upto + n]
        BY <1>3, <1>4, <1>6, <1>9, <2>1 DEF PagesAsAsked, Advanced, Last
      <3>2. run'.cursor = FirstKey + (Upto + n) - 1
        <4>1. Upto + n \in 1..source
          BY <1>6, <1>7, <1>8, <1>9
        <4> QED  BY <1>8, <3>1, <4>1
      <3>3. RowsUpTo(run'.cursor) = Upto + n
        BY <1>7, <1>8, <1>9, <3>2 DEF RowsUpTo
      <3> QED  BY <1>5, <2>1, <3>3 DEF Upto, RowsUpTo
    <2>2. CASE ~Step.incremental
      BY <1>4, <1>5, <1>6, <2>2 DEF Upto, Advanced
    <2> QED  BY <2>1, <2>2
  <1>12. Pulled'
    <2>1. tables'[Out] = tables[Out] \o run.page /\ existing' = existing
      BY <1>2, AtAStep DEF AppendPage, Types
    <2>2. SubSeq(SourceRows, From + 1, Upto) \o SubSeq(SourceRows, Upto + 1, Upto + n)
            = SubSeq(SourceRows, From + 1, Upto + n)
      <3>1. Upto + n \in Nat /\ Upto <= Upto + n
        BY <1>7
      <3> QED  BY <1>6, <1>7, <1>8, <3>1, Joined
    <2> QED  BY <1>5, <1>6, <1>10, <1>11, <2>1, <2>2 DEF Pulled
  <1>13. From' <= Upto' /\ Upto' <= source'
    BY <1>2, <1>6, <1>7, <1>10, <1>11
  <1>14. ~Step'.incremental => run'.total = run'.cursor
    BY <1>4, <1>5 DEF Advanced
  <1> QED  BY <1>4, <1>6, <1>12, <1>13, <1>14 DEF Pulling

LEMMA SaveCursorPulls == ASSUME Types, Placed, Pulling, SaveCursor  PROVE Pulling'
  <1>1. PICK R : run \in RunStates(R)
    BY DEF Types
  <1>2. run.phase = "save" /\ pipe' = pipe /\ source' = source /\ tables' = tables
        /\ existing' = existing
    BY DEF SaveCursor
  <1>3. /\ run'.phase = "succeeded" /\ run'.total = run.total /\ run'.cursor = run.cursor
        /\ run'.order = run.order /\ run'.at = run.at /\ run'.touched = run.touched
        /\ run'.from = run.from /\ run'.created = run.created
    BY <1>1 DEF SaveCursor, RunStates
  <1>4. /\ Step' = Step /\ Out' = Out /\ PagesAsAsked' = PagesAsAsked
        /\ KindOf(Current)' = KindOf(Current)
    BY <1>2, <1>3, SamePlace
  <1>5. SourceRows' = SourceRows /\ From' = From /\ Upto' = Upto
    BY <1>2, <1>3, <1>4 DEF SourceRows, From, Upto, RowsUpTo
  <1>6. Pulled' = Pulled
    BY <1>2, <1>4, <1>5 DEF Pulled
  <1> QED  BY <1>2, <1>3, <1>4, <1>5, <1>6 DEF Pulling

LEMMA UntouchedPulls ==
    ASSUME Types, Placed, Pulling, SourceGrows \/ UNCHANGED vars
    PROVE  Pulling'
  <1>1. /\ pipe' = pipe /\ tables' = tables /\ existing' = existing /\ run' = run
        /\ source' \in Nat /\ source <= source' /\ source \in Nat
    BY DEF SourceGrows, vars, Types
  <1>2. /\ Step' = Step /\ Out' = Out /\ PagesAsAsked' = PagesAsAsked
        /\ KindOf(Current)' = KindOf(Current)
    BY <1>1, SamePlace
  <1>3. From' = From /\ Upto' = Upto
    BY <1>1, <1>2 DEF From, Upto, RowsUpTo
  <1> SUFFICES ASSUME ~run.touched, run.phase \in {"read", "append", "save", "succeeded"},
                      PagesAsAsked, KindOf(Current) = "connector"
               PROVE  Pulling'
    BY <1>1, <1>2 DEF Pulling
  <1>5. From \in Nat /\ Upto \in Nat
    BY BehindTyped
  <1>6. /\ From <= Upto /\ (From = Upto \/ Upto <= source)
        /\ IF run.created THEN Pulled ELSE run.phase = "read" /\ From = Upto
        /\ ~Step.incremental => run.total = run.cursor
        /\ run.phase = "append" =>
            /\ run.page # <<>> /\ Upto + Len(run.page) <= source
            /\ run.page = SubSeq(SourceRows, Upto + 1, Upto + Len(run.page))
    BY DEF Pulling
  <1>7. SubSeq(SourceRows', From + 1, Upto) = SubSeq(SourceRows, From + 1, Upto)
    <2>1. source' \in Nat /\ source <= source' /\ source \in Nat
      BY <1>1
    <2>2. Upto <= source \/ Upto <= From
      BY <1>5, <1>6
    <2> QED  BY <1>5, <2>1, <2>2, GrownRows, Zenon
  <1>8. Pulled' = Pulled
    <2>1. tables'[Out'] = tables[Out] /\ (Out' \in existing') = (Out \in existing)
      BY <1>1, <1>2
    <2>2. SubSeq(SourceRows', From' + 1, Upto') = SubSeq(SourceRows, From + 1, Upto)
      BY <1>3, <1>7
    <2> QED  BY <2>1, <2>2 DEF Pulled
  <1>9. run.phase = "append" =>
            /\ Upto + Len(run.page) <= source'
            /\ run.page = SubSeq(SourceRows', Upto + 1, Upto + Len(run.page))
    <2>1. Len(run.page) \in Nat
      BY LenProperties DEF Types, RunStates
    <2>2. PICK b \in Nat : b = Upto + Len(run.page)
      BY <1>5, <2>1
    <2>3. ASSUME b <= source
          PROVE  SubSeq(SourceRows', Upto + 1, b) = SubSeq(SourceRows, Upto + 1, b)
      <3>1. source' \in Nat /\ source <= source' /\ source \in Nat /\ Upto \in Nat
        BY <1>1, <1>5
      <3> QED  BY <2>3, <3>1, GrownRows, Zenon
    <2>4. ASSUME run.phase = "append"
          PROVE  b <= source' /\ run.page = SubSeq(SourceRows', Upto + 1, b)
      <3>1. b <= source /\ run.page = SubSeq(SourceRows, Upto + 1, b)
        BY <1>6, <2>2, <2>4, Zenon
      <3>2. b <= source'
        BY <1>1, <3>1
      <3> QED  BY <2>3, <3>1, <3>2, Zenon
    <2> QED  BY <2>2, <2>4, Zenon
  <1>10. From = Upto \/ Upto <= source'
    BY <1>1, <1>5, <1>6
  <1> QED  BY <1>1, <1>2, <1>3, <1>6, <1>8, <1>9, <1>10 DEF Pulling

LEMMA EditPulls == ASSUME Types, Placed, Edit  PROVE Pulling'
  <1>1. PICK R : run \in RunStates(R)
    BY DEF Types
  <1>2. run'.phase = run.phase /\ run'.touched = (run.phase # "idle")
    BY <1>1 DEF Edit, RunStates
  <1> QED  BY <1>2 DEF Pulling

LEMMA NextPulls ==
    ASSUME Types, Placed, Pulling, [Next]_vars
    PROVE  Pulling'
  <1>1. PICK R : run \in RunStates(R)
    BY DEF Types
  <1>2. ASSUME StartRun \/ Dispatch \/ SucceedRun \/ StepSucceeds \/ StepFails \/ Crash
        PROVE  Pulling'
    <2>1. run'.phase \in {"idle", "dispatch", "attempt"}
      <3>1. Idle.phase = "idle"
        BY DEF Idle
      <3>2. ASSUME StartRun  PROVE run'.phase \in {"idle", "dispatch"}
        BY <3>1, <3>2 DEF StartRun, Idle
      <3> QED  BY <1>1, <1>2, <3>1, <3>2
               DEF RunStates, Dispatch, SucceedRun, StepSucceeds, StepFails, Crash
    <2> QED  BY <2>1, NotPulling
  <1>3. ASSUME QueryPage \/ WriteBatch \/ Exec \/ Store \/ Fill  PROVE Pulling'
    <2>1. /\ run'.phase \in {"query", "write", "store", "fill", "failed", "succeeded"}
          /\ run.phase \in {"query", "write", "exec", "store", "fill"}
          /\ pipe' = pipe /\ run'.order = run.order /\ run'.at = run.at
      <3>1. CASE QueryPage
        BY <3>1, QueryPageFrame DEF SamePosition, QueryPage
      <3>2. CASE WriteBatch
        <4>1. pipe' = pipe /\ run.phase = "write"
          BY <3>2 DEF WriteBatch
        <4>2. \A rest : AfterBatch(rest) \in {"write", "query", "succeeded"}
          BY DEF AfterBatch
        <4>3. \/ \E rest, next : run' = [run EXCEPT !.page = rest, !.first = FALSE,
                                                !.phase = AfterBatch(rest), !.offset = next]
              \/ \E again : run' = [run EXCEPT !.phase = "failed", !.retryable = again]
          BY <3>2 DEF WriteBatch
        <4>4. /\ run'.order = run.order /\ run'.at = run.at
              /\ run'.phase \in {"write", "query", "succeeded", "failed"}
          BY <1>1, <4>2, <4>3 DEF RunStates
        <4> QED  BY <4>1, <4>4
      <3>3. CASE Exec
        BY <3>3, ExecFrame DEF SamePosition, Exec
      <3>4. CASE Store \/ Fill
        BY <1>1, <3>4 DEF RunStates, Store, Fill
      <3> QED  BY <1>3, <3>1, <3>2, <3>3, <3>4
    <2>2. pipe' = pipe /\ run'.order = run.order /\ run'.at = run.at
      BY <2>1
    <2>3. KindOf(Current)' # "connector"
      BY <2>1, <2>2, SamePlace DEF Placed
    <2> QED  BY <2>1, <2>3, NotPulling
  <1> QED  BY <1>2, <1>3, AttemptPulls, ReadPagePulls, AppendPagePulls, SaveCursorPulls,
              EditPulls, UntouchedPulls DEF Next, RunStep

-----------------------------------------------------------------------------
(* A feed.                                                                   *)
LEMMA FeedFacts ==
    ASSUME Types, Placed, Feeds
    PROVE  /\ 1 \in DOMAIN pipe /\ watermark[1] \in Nat /\ RowsUpTo(watermark[1]) \in Nat
           /\ OutputTable(1) # "" /\ OutputTable(1) \in TableNames
           /\ run.phase # "idle" => Len(run.order) = 2 /\ run.at \in Nat /\ run.at >= 1
           /\ run.phase \notin {"idle", "dispatch"} => run.at \in {1, 2}
           /\ run.phase # "idle" /\ run.at = 1 =>
                /\ Current = 1 /\ KindOf(Current) = "connector" /\ Out = OutputTable(1)
                /\ PagesAsAsked /\ Step.incremental /\ Step.paging = "key"
           /\ run.phase # "idle" /\ run.at = 2 =>
                /\ Current = 2 /\ KindOf(Current) = "sink" /\ ReadsFrom = run.prev
                /\ Step.limit = -1 /\ ~Step.sorted /\ Step.reads = "@prev"
                /\ Before = run.base /\ Whole = Selected
  <1>1. 1 \in DOMAIN pipe
    <2>1. pipe \in Seq(StepRecord) /\ Len(pipe) = 2
      BY StepsAssumption DEF Types, StepsAssumption, Feeds
    <2> QED  BY <2>1
  <1>2. watermark[1] \in Nat
    BY <1>1 DEF Types
  <1>3. OutputTable(1) # "" /\ OutputTable(1) \in TableNames
    <2>1. Hidden[1] # ""
      BY DEF Hidden
    <2>2. CASE pipe[1].target # ""
      BY <2>2, <1>1 DEF OutputTable, TableNames
    <2>3. CASE pipe[1].target = ""
      <3>1. OutputTable(1) \in {"result", Hidden[1]}
        BY <2>3 DEF OutputTable
      <3> QED  BY <1>1, <2>1, <3>1 DEF TableNames
    <2> QED  BY <2>2, <2>3
  <1>4. ASSUME run.phase # "idle"
        PROVE  run.order = <<1, 2>> /\ Len(run.order) = 2 /\ run.at \in Nat /\ run.at >= 1
    <2>1. run.order = <<1, 2>> /\ run.at >= 1
      BY <1>4 DEF Placed, Feeds
    <2>2. run.at \in Nat
      BY DEF Types, RunStates
    <2> QED  BY <2>1, <2>2
  <1>5. ASSUME run.phase \notin {"idle", "dispatch"}  PROVE run.at \in {1, 2}
    <2>1. run.at <= Len(TopoOrder) /\ Len(TopoOrder) = 2
      BY <1>5 DEF Placed, Feeds
    <2> QED  BY <1>4, <1>5, <2>1
  <1>6. ASSUME run.phase # "idle", run.at = 1
        PROVE  /\ Current = 1 /\ KindOf(Current) = "connector" /\ Out = OutputTable(1)
               /\ PagesAsAsked /\ Step.incremental /\ Step.paging = "key"
    <2>1. Current = 1
      BY <1>4, <1>6 DEF Current
    <2> QED  BY <2>1 DEF Out, Step, Feeds, PagesAsAsked
  <1>7. ASSUME run.phase # "idle", run.at = 2
        PROVE  /\ Current = 2 /\ KindOf(Current) = "sink" /\ ReadsFrom = run.prev
               /\ Step.limit = -1 /\ ~Step.sorted /\ Step.reads = "@prev"
               /\ Before = run.base /\ Whole = Selected
    <2>1. Current = 2
      BY <1>4, <1>7 DEF Current
    <2> QED  BY <2>1 DEF Step, Feeds, ReadsFrom, Before, Whole
  <1>8. RowsUpTo(watermark[1]) \in Nat
    BY <1>2, SourceRowsTyped
  <1> QED  BY <1>1, <1>2, <1>3, <1>4, <1>5, <1>6, <1>7, <1>8

LEMMA SameSource ==
    ASSUME source' = source
    PROVE  SourceRows' = SourceRows /\ \A key : UpToKey(key)' = UpToKey(key)
  BY DEF SourceRows, UpToKey, RowsUpTo

(* Neither a failure nor an edit.                                            *)
LEMMA NoFault ==
    ASSUME Types, counts'.faults = 0, counts'.edits = 0,
           \/ UNCHANGED counts
           \/ \E what \in {"runs", "faults", "edits"} : Count(what)
    PROVE  counts.faults = 0 /\ counts.edits = 0 /\ ~Count("faults") /\ ~Count("edits")
  <1>1. counts \in [runs : Nat, faults : Nat, edits : Nat]
    BY DEF Types
  <1>2. CASE UNCHANGED counts
    <2>1. ~Count("faults") /\ ~Count("edits")
      BY <1>1, <1>2 DEF Count
    <2> QED  BY <1>2, <2>1
  <1>3. CASE Count("runs")
    <2>1. counts.faults = 0 /\ counts.edits = 0
      BY <1>1, <1>3 DEF Count
    <2>2. ~Count("faults") /\ ~Count("edits")
      BY <1>1 DEF Count
    <2> QED  BY <2>1, <2>2
  <1>4. ~Count("faults") /\ ~Count("edits")
    BY <1>1 DEF Count
  <1> QED  BY <1>2, <1>3, <1>4

LEMMA StartRunCarries ==
    ASSUME Types, Placed, Feeds, Carrying, StartRun
    PROVE  Carrying'
  <1>1. Len(TopoOrder) = 2 /\ Len(pipe) = 2
    BY DEF Feeds
  <1>2. /\ run' = [Idle EXCEPT !.phase = "dispatch", !.order = TopoOrder, !.at = 1]
        /\ source' = source /\ watermark' = watermark /\ sink' = sink
        /\ run.phase = "idle"
    BY <1>1 DEF StartRun, Cyclic
  <1>3. run'.phase = "dispatch" /\ run'.at = 1 /\ run'.touched = FALSE
    BY <1>2 DEF Idle
  <1>4. UpToKey(watermark[1])' = UpToKey(watermark[1])
    BY <1>2, SameSource
  <1> QED  BY <1>2, <1>3, <1>4 DEF Carrying

LEMMA IdleAgainCarries ==
    ASSUME Carrying, run' = Idle, source' = source, watermark' = watermark, sink' = sink,
           sink = UpToKey(watermark[1])
    PROVE  Carrying'
  <1>1. run'.phase = "idle" /\ run'.touched = FALSE
    BY DEF Idle
  <1>2. UpToKey(watermark[1])' = UpToKey(watermark[1])
    BY SameSource
  <1> QED  BY <1>1, <1>2 DEF Carrying

(* A step that changes neither the sink nor what is staged for it.           *)
LEMMA SameStaged ==
    ASSUME pipe' = pipe, source' = source, watermark' = watermark, tables' = tables,
           existing' = existing, run'.prev = run.prev
    PROVE  \A got : Staged(got)' = Staged(got)
  <1>1. OutputTable(1)' = OutputTable(1)
    BY PipeKept
  <1>2. SourceRows' = SourceRows /\ \A key : UpToKey(key)' = UpToKey(key)
    BY SameSource
  <1> QED  BY <1>1, <1>2 DEF Staged, RowsUpTo

LEMMA DispatchCarries ==
    ASSUME Types, Placed, Feeds, Carrying, Dispatch
    PROVE  Carrying'
  <1>1. PICK R : run \in RunStates(R)
    BY DEF Types
  <1>2. run.phase = "dispatch" /\ run.at \in {1, 2}
    <2>1. run.phase = "dispatch" /\ run.at <= Len(run.order)
      BY DEF Dispatch
    <2>2. Len(run.order) = 2 /\ run.at \in Nat /\ run.at >= 1
      BY <2>1, FeedFacts
    <2> QED  BY <2>1, <2>2
  <1>3. CASE FailsToResolve
    <2>1. run.at = 1
      BY <1>2, <1>3, FeedFacts DEF FailsToResolve, Carrying, Staged
    <2>2. sink = UpToKey(watermark[1])
      BY <1>2, <2>1 DEF Carrying
    <2> QED  BY <1>3, <2>2, IdleAgainCarries DEF Dispatch
  <1>4. CASE ~FailsToResolve
    <2>1. /\ run' = [run EXCEPT !.phase = "attempt", !.retries = 0]
          /\ pipe' = pipe /\ source' = source /\ watermark' = watermark /\ tables' = tables
          /\ existing' = existing /\ sink' = sink
      BY <1>4 DEF Dispatch
    <2>2. run'.phase = "attempt" /\ run'.at = run.at /\ run'.prev = run.prev
          /\ run'.touched = run.touched
      BY <1>1, <2>1 DEF RunStates
    <2>3. \A got : Staged(got)' = Staged(got)
      BY <2>1, <2>2, SameStaged
    <2>4. UpToKey(watermark[1])' = UpToKey(watermark[1])
      BY <2>1, SameSource
    <2>5. Staged(sink)' = Staged(sink)
      BY <2>1, <2>2, <2>3
    <2> QED  BY <1>2, <2>1, <2>2, <2>4, <2>5 DEF Carrying
  <1> QED  BY <1>3, <1>4

LEMMA SucceedRunCarries ==
    ASSUME Types, Placed, Feeds, Carrying, SucceedRun
    PROVE  Carrying'
  <1>1. run.phase = "dispatch" /\ run.at > Len(run.order)
    BY DEF SucceedRun
  <1>2. run.at \in Nat /\ run.at > 2
    BY <1>1, FeedFacts
  <1>3. sink = UpToKey(watermark[1])
    BY <1>1, <1>2 DEF Carrying
  <1> QED  BY <1>3, IdleAgainCarries DEF SucceedRun

LEMMA AttemptCarries ==
    ASSUME Types, Placed, Feeds, Carrying, Attempt, UNCHANGED counts, ~Count("faults")
    PROVE  Carrying'
  <1>1. PICK R : run \in RunStates(R)
    BY DEF Types
  <1>2. /\ run' = [run EXCEPT !.phase = FirstPhase(KindOf(Current)),
                      !.cursor = LoadedCursor, !.from = LoadedCursor, !.created = FALSE,
                      !.total = 0, !.offset = 0, !.first = TRUE, !.page = <<>>, !.base = sink,
                      !.touched = FALSE]
        /\ run.phase = "attempt"
        /\ pipe' = pipe /\ source' = source /\ watermark' = watermark /\ tables' = tables
        /\ existing' = existing /\ sink' = sink
    BY DEF Attempt
  <1>3. /\ run'.phase = FirstPhase(KindOf(Current)) /\ run'.from = LoadedCursor
        /\ run'.base = sink /\ run'.at = run.at /\ run'.prev = run.prev /\ run'.touched = FALSE
    BY <1>1, <1>2 DEF RunStates
  <1>4. \A got : Staged(got)' = Staged(got)
    BY <1>2, <1>3, SameStaged
  <1>5. UpToKey(watermark[1])' = UpToKey(watermark[1])
    BY <1>2, SameSource
  <1>6. RowsUpTo(watermark[1]) <= source
    BY DEF Carrying
  <1>7. CASE run.at = 1
    <2>1. run'.phase = "read"
      BY <1>2, <1>3, <1>7, FeedFacts DEF FirstPhase
    <2>2. run'.from = watermark[1]
      BY <1>2, <1>3, <1>7, FeedFacts DEF LoadedCursor
    <2>3. sink = UpToKey(watermark[1])
      BY <1>2, <1>7 DEF Carrying
    <2> QED  BY <1>2, <1>3, <1>5, <1>6, <1>7, <2>1, <2>2, <2>3 DEF Carrying
  <1>8. CASE run.at = 2
    <2>1. run'.phase = "query"
      BY <1>2, <1>3, <1>8, FeedFacts DEF FirstPhase
    <2>2. Staged(run.base)'
      BY <1>2, <1>3, <1>4, <1>8 DEF Carrying
    <2> QED  BY <1>2, <1>3, <1>6, <1>8, <2>1, <2>2 DEF Carrying
  <1> QED  BY <1>2, <1>7, <1>8, FeedFacts

LEMMA ReadingCarries ==
    ASSUME Types, Placed, Feeds, Carrying, ReadPage \/ AppendPage, ~Count("faults")
    PROVE  Carrying'
  <1>1. PICK R : run \in RunStates(R)
    BY DEF Types
  <1>2. run.phase \in {"read", "append"} /\ source' = source /\ watermark' = watermark
        /\ sink' = sink
    BY DEF ReadPage, AppendPage
  <1>3. run'.phase \in {"read", "append", "save"} /\ run'.from = run.from /\ run'.at = run.at
        /\ run'.touched = run.touched
    BY <1>1 DEF ReadPage, AppendPage, RunStates
  <1>4. run.at = 1
    <2>1. KindOf(Current) = "connector"
      BY <1>2 DEF Placed
    <2> QED  BY <1>2, <2>1, FeedFacts
  <1>5. UpToKey(watermark[1])' = UpToKey(watermark[1])
    BY <1>2, SameSource
  <1>6. /\ RowsUpTo(watermark[1]) <= source /\ sink = UpToKey(watermark[1])
        /\ run.from = watermark[1] /\ ~run.touched
    BY <1>2, <1>4 DEF Carrying
  <1> QED  BY <1>2, <1>3, <1>4, <1>5, <1>6 DEF Carrying

LEMMA SaveCursorCarries ==
    ASSUME Types, Placed, Pulling, Feeds, Carrying, SaveCursor
    PROVE  Carrying'
  <1>1. PICK R : run \in RunStates(R)
    BY DEF Types
  <1>2. run.phase = "save" /\ source' = source /\ sink' = sink
    BY DEF SaveCursor
  <1>3. run'.phase = "succeeded" /\ run'.from = run.from /\ run'.at = run.at
        /\ run'.touched = run.touched /\ run'.cursor = run.cursor
    BY <1>1 DEF SaveCursor, RunStates
  <1>4. run.at = 1
    <2>1. KindOf(Current) = "connector"
      BY <1>2 DEF Placed
    <2> QED  BY <1>2, <2>1, FeedFacts
  <1>5. watermark'[1] = run.cursor
    BY <1>2, <1>4, FeedFacts DEF SaveCursor, Types
  <1>6. /\ RowsUpTo(watermark[1]) <= source /\ sink = UpToKey(watermark[1])
        /\ run.from = watermark[1] /\ ~run.touched
    BY <1>2, <1>4 DEF Carrying
  <1>7. RowsUpTo(run.cursor) <= source
    <2>1. KindOf(Current) = "connector" /\ PagesAsAsked /\ Step.incremental
      BY <1>2, <1>4, FeedFacts
    <2>2. From = Upto \/ Upto <= source
      BY <1>2, <1>6, <2>1 DEF Pulling
    <2>3. From = RowsUpTo(watermark[1]) /\ Upto = RowsUpTo(run.cursor)
      BY <1>6, <2>1 DEF From, Upto
    <2> QED  BY <1>6, <2>2, <2>3
  <1>8. sink' = UpToKey(run.from)'
    <2>1. UpToKey(run.from)' = UpToKey(run.from)
      BY <1>2, <1>3, SameSource
    <2> QED  BY <1>2, <1>6, <2>1
  <1>9. RowsUpTo(watermark'[1]) <= source'
    BY <1>2, <1>5, <1>7
  <1> QED  BY <1>3, <1>4, <1>5, <1>6, <1>8, <1>9 DEF Carrying, RowsUpTo

LEMMA PushingCarries ==
    ASSUME Types, Placed, Feeds, Carrying, QueryPage \/ WriteBatch, ~Count("faults")
    PROVE  Carrying'
  <1>1. PICK R : run \in RunStates(R)
    BY DEF Types
  <1>2. /\ run.phase \in {"query", "write"} /\ pipe' = pipe /\ source' = source
        /\ watermark' = watermark /\ tables' = tables /\ existing' = existing
    BY DEF QueryPage, WriteBatch, KeepTables
  <1>3. run.at = 2
    <2>1. KindOf(Current) = "sink"
      BY <1>2 DEF Placed
    <2> QED  BY <1>2, <2>1, FeedFacts
  <1>4. Staged(run.base) /\ RowsUpTo(watermark[1]) <= source /\ ~run.touched
    BY <1>2, <1>3 DEF Carrying
  <1>5. ~NoSuchTable /\ ~Step.sorted
    BY <1>2, <1>3, <1>4, FeedFacts DEF NoSuchTable, Staged
  <1>6. run'.phase \in {"query", "write", "succeeded"} /\ run'.base = run.base
        /\ run'.at = run.at /\ run'.prev = run.prev /\ run'.touched = run.touched
    <2>1. CASE QueryPage
      BY <1>5, <2>1, QueryPageFrame DEF SamePosition, SameAttempt
    <2>2. CASE WriteBatch
      BY <1>1, <2>2 DEF WriteBatch, AfterBatch, RunStates
    <2> QED  BY <2>1, <2>2
  <1>7. Staged(run.base)' = Staged(run.base)
    <2>1. \A got : Staged(got)' = Staged(got)
      BY <1>2, <1>6, SameStaged
    <2> QED  BY <1>6, <2>1
  <1> QED  BY <1>2, <1>3, <1>4, <1>6, <1>7 DEF Carrying

LEMMA StepSucceedsCarries ==
    ASSUME Types, Placed, Pushing, Pulling, Feeds, Carrying, StepSucceeds
    PROVE  Carrying'
  <1>1. PICK R : run \in RunStates(R)
    BY DEF Types
  <1>2. /\ run.phase = "succeeded" /\ pipe' = pipe /\ source' = source
        /\ watermark' = watermark /\ tables' = tables /\ existing' = existing /\ sink' = sink
    BY DEF StepSucceeds
  <1>3. run'.phase = "dispatch" /\ run'.prev = Out /\ run'.at = run.at + 1
        /\ run'.touched = run.touched
    BY <1>1 DEF StepSucceeds, RunStates
  <1>4. ~run.touched /\ RowsUpTo(watermark[1]) <= source
    BY DEF Carrying
  <1>5. UpToKey(watermark[1])' = UpToKey(watermark[1])
    BY <1>2, SameSource
  <1>6. CASE run.at = 1
    <2>1. sink = UpToKey(run.from) /\ watermark[1] = run.cursor
      BY <1>2, <1>6 DEF Carrying
    <2>2. /\ KindOf(Current) = "connector" /\ PagesAsAsked /\ Step.incremental
          /\ Out = OutputTable(1)
      BY <1>2, <1>6, FeedFacts
    <2>3. From = RowsUpTo(run.from) /\ Upto = RowsUpTo(watermark[1])
      BY <2>1, <2>2 DEF From, Upto
    <2>4. From <= Upto /\ Pulled
      BY <1>2, <1>4, <2>2 DEF Pulling
    <2>5. PICK key \in Nat : key = run.from
      BY <1>1 DEF RunStates
    <2>6. /\ OutputTable(1) \in existing /\ RowsUpTo(key) <= RowsUpTo(watermark[1])
          /\ sink = UpToKey(key)
          /\ tables[OutputTable(1)]
                = SubSeq(SourceRows, RowsUpTo(key) + 1, RowsUpTo(watermark[1]))
      BY <2>1, <2>2, <2>3, <2>4, <2>5 DEF Pulled
    <2>7. /\ OutputTable(1)' = OutputTable(1) /\ SourceRows' = SourceRows
          /\ UpToKey(key)' = UpToKey(key)
      BY <1>2, PipeKept, SameSource
    <2>8. Staged(sink)'
      <3>1. run'.prev = OutputTable(1)' /\ OutputTable(1)' \in existing'
        BY <1>2, <1>3, <2>2, <2>6, <2>7
      <3>2. /\ RowsUpTo(key) <= RowsUpTo(watermark'[1]) /\ sink' = UpToKey(key)'
            /\ tables'[OutputTable(1)']
                = SubSeq(SourceRows', RowsUpTo(key) + 1, RowsUpTo(watermark'[1]))
        BY <1>2, <2>6, <2>7
      <3> QED  BY <3>1, <3>2 DEF Staged, RowsUpTo
    <2> QED  BY <1>2, <1>3, <1>4, <1>6, <2>8 DEF Carrying
  <1>7. CASE run.at = 2
    <2>1. Staged(run.base)
      BY <1>2, <1>7 DEF Carrying
    <2>2. /\ KindOf(Current) = "sink" /\ Step.limit = -1 /\ Before = run.base
          /\ Whole = Selected /\ ReadsFrom = run.prev
      BY <1>2, <1>7, FeedFacts
    <2>3. sink = run.base \o Selected
      BY <1>2, <1>4, <2>2 DEF Pushing
    <2>4. PICK key \in Nat : 
        /\ RowsUpTo(key) <= RowsUpTo(watermark[1]) /\ run.base = UpToKey(key)
        /\ tables[OutputTable(1)]
            = SubSeq(SourceRows, RowsUpTo(key) + 1, RowsUpTo(watermark[1]))
      BY <2>1 DEF Staged
    <2>5. Selected = tables[OutputTable(1)]
      BY <2>1, <2>2, FeedFacts DEF Selected, Staged
    <2>6. sink = UpToKey(watermark[1])
      <3>1. PICK a \in Nat, b \in Nat : a = RowsUpTo(key) /\ b = RowsUpTo(watermark[1])
        BY FeedFacts, SourceRowsTyped
      <3>2. a <= b /\ b <= Len(SourceRows) /\ SourceRows \in Seq(Nat)
        BY <1>4, <2>4, <3>1, SourceRowsTyped
      <3>3. SubSeq(SourceRows, 0 + 1, a) \o SubSeq(SourceRows, a + 1, b)
              = SubSeq(SourceRows, 0 + 1, b)
        BY <3>2, Joined
      <3>4. 0 + 1 = 1
        OBVIOUS
      <3>5. SubSeq(SourceRows, 1, a) \o SubSeq(SourceRows, a + 1, b) = SubSeq(SourceRows, 1, b)
        BY <3>3, <3>4, Zenon
      <3> QED  BY <2>3, <2>4, <2>5, <3>1, <3>5 DEF UpToKey
    <2> QED  BY <1>2, <1>3, <1>4, <1>5, <1>7, <2>6 DEF Carrying
  <1> QED  BY <1>2, <1>6, <1>7, FeedFacts

LEMMA SourceGrowsCarries ==
    ASSUME Types, Placed, Pulling, Feeds, Carrying, SourceGrows \/ UNCHANGED vars
    PROVE  Carrying'
  <1>1. /\ pipe' = pipe /\ watermark' = watermark /\ tables' = tables /\ existing' = existing
        /\ sink' = sink /\ run' = run
        /\ source' \in Nat /\ source \in Nat /\ source <= source'
    BY DEF SourceGrows, vars, Types
  <1>2. RowsUpTo(watermark[1]) <= source /\ RowsUpTo(watermark[1]) \in Nat
    BY FeedFacts DEF Carrying
  <1>4. ASSUME NEW a \in Nat, NEW b \in Nat, b <= source
        PROVE  SubSeq(SourceRows', a + 1, b) = SubSeq(SourceRows, a + 1, b)
    <2>1. source' \in Nat /\ source <= source' /\ source \in Nat
      BY <1>1
    <2> QED  BY <1>4, <2>1, GrownRows, Zenon
  <1>5. ASSUME NEW key \in Nat, RowsUpTo(key) <= source
        PROVE  UpToKey(key)' = UpToKey(key)
    <2>1. PICK b \in Nat : b = RowsUpTo(key)
      BY SourceRowsTyped
    <2>2. SubSeq(SourceRows', 0 + 1, b) = SubSeq(SourceRows, 0 + 1, b)
      <3>1. b <= source /\ 0 \in Nat
        BY <1>5, <2>1
      <3> QED  BY <1>4, <3>1
    <2>3. 0 + 1 = 1
      OBVIOUS
    <2>4. SubSeq(SourceRows', 1, b) = SubSeq(SourceRows, 1, b)
      BY <2>2, <2>3, Zenon
    <2> QED  BY <2>1, <2>4 DEF UpToKey, RowsUpTo
  <1>6. UpToKey(watermark[1])' = UpToKey(watermark[1])
    <2>1. PICK key \in Nat : key = watermark[1]
      BY FeedFacts
    <2>2. UpToKey(key)' = UpToKey(key)
      BY <1>2, <1>5, <2>1
    <2> QED  BY <1>1, <2>1, <2>2 DEF UpToKey, RowsUpTo
  <1>7. ASSUME run.phase = "succeeded", run.at = 1
        PROVE  UpToKey(run.from)' = UpToKey(run.from)
    <2>1. PICK key \in Nat : key = run.from
      BY DEF Types, RunStates
    <2>2. From = RowsUpTo(key) /\ Upto = RowsUpTo(watermark[1]) /\ From <= Upto
      <3>1. KindOf(Current) = "connector" /\ PagesAsAsked /\ Step.incremental
        BY <1>7, FeedFacts
      <3>2. From <= Upto
        BY <1>7, <3>1 DEF Pulling, Carrying
      <3> QED  BY <1>7, <2>1, <3>1, <3>2 DEF From, Upto, Carrying
    <2>3. RowsUpTo(key) <= source
      <3>1. RowsUpTo(key) \in Nat
        BY SourceRowsTyped
      <3> QED  BY <1>1, <1>2, <2>2, <3>1
    <2>4. UpToKey(key)' = UpToKey(key)
      BY <1>5, <2>3
    <2> QED  BY <1>1, <2>1, <2>4 DEF UpToKey, RowsUpTo
  <1>8. ASSUME NEW got, Staged(got)
        PROVE  Staged(got)'
    <2>1. PICK key \in Nat :
            /\ RowsUpTo(key) <= RowsUpTo(watermark[1]) /\ got = UpToKey(key)
            /\ tables[OutputTable(1)]
                = SubSeq(SourceRows, RowsUpTo(key) + 1, RowsUpTo(watermark[1]))
      BY <1>8 DEF Staged
    <2>2. RowsUpTo(key) \in Nat
      BY SourceRowsTyped
    <2>3. UpToKey(key)' = UpToKey(key)
      BY <1>1, <1>2, <1>5, <2>1, <2>2
    <2>4. PICK a \in Nat, b \in Nat : a = RowsUpTo(key) /\ b = RowsUpTo(watermark[1])
      BY <1>2, <2>2
    <2>5. SubSeq(SourceRows', a + 1, b) = SubSeq(SourceRows, a + 1, b)
      BY <1>2, <1>4, <2>4
    <2>6. OutputTable(1)' = OutputTable(1)
      BY <1>1, PipeKept
    <2>7. tables'[OutputTable(1)']
            = SubSeq(SourceRows', RowsUpTo(key) + 1, RowsUpTo(watermark'[1]))
      BY <1>1, <2>1, <2>4, <2>5, <2>6, Zenon
    <2>8. RowsUpTo(key) <= RowsUpTo(watermark'[1]) /\ got = UpToKey(key)'
      BY <1>1, <2>1, <2>3, Zenon
    <2>9. run'.prev = OutputTable(1)' /\ OutputTable(1)' \in existing'
      BY <1>1, <1>8, <2>6 DEF Staged
    <2> QED  BY <2>7, <2>8, <2>9 DEF Staged, RowsUpTo
  <1>9. (Staged(sink) => Staged(sink)') /\ (Staged(run.base) => Staged(run.base)')
    BY <1>1, <1>8
  <1>10. RowsUpTo(watermark'[1]) <= source'
    <2>1. RowsUpTo(watermark[1]) <= source'
      BY <1>1, <1>2
    <2> QED  BY <1>1, <2>1
  <1>11. /\ ~run'.touched /\ run'.phase # "failed"
         /\ run'.phase = "idle" => sink' = UpToKey(watermark[1])'
    BY <1>1, <1>6 DEF Carrying
  <1>12. ASSUME run.phase # "idle"
         PROVE
            /\ run'.at = 1 /\ run'.phase # "succeeded" => sink' = UpToKey(watermark[1])'
            /\ run'.at = 1 /\ run'.phase \in {"read", "append", "save"}
                => run'.from = watermark'[1]
            /\ run'.at > 2 => sink' = UpToKey(watermark[1])'
    BY <1>1, <1>6, <1>12 DEF Carrying
  <1>13. ASSUME run.phase # "idle"
         PROVE
            /\ run'.at = 1 /\ run'.phase = "succeeded" =>
                sink' = UpToKey(run.from)' /\ watermark'[1] = run'.cursor
            /\ run'.at = 2 =>
                IF run'.phase \in {"dispatch", "attempt"} THEN Staged(sink)' ELSE Staged(run.base)'
    BY <1>1, <1>7, <1>9, <1>13 DEF Carrying
  <1> QED  BY <1>1, <1>10, <1>11, <1>12, <1>13 DEF Carrying, RowsUpTo

LEMMA NextCarries ==
    ASSUME Inv, [Next]_vars
    PROVE  Fed'
  <1> SUFFICES ASSUME counts'.faults = 0, counts'.edits = 0, Feeds'
               PROVE  Carrying'
    BY DEF Fed
  <1> USE DEF Inv
  <1>1. pipe' = pipe
    BY DEF Next, RunStep, StartRun, Dispatch, SucceedRun, Attempt, ReadPage, AppendPage,
           SaveCursor, QueryPage, WriteBatch, Exec, Store, Fill, StepSucceeds, StepFails,
           SourceGrows, Edit, Crash, vars
  <1>2. Feeds
    BY <1>1, PipeKept
  <1>3. \/ UNCHANGED counts
        \/ \E what \in {"runs", "faults", "edits"} : Count(what)
    BY DEF Next, RunStep, StartRun, Dispatch, SucceedRun, Attempt, ReadPage, AppendPage,
           SaveCursor, QueryPage, WriteBatch, Exec, Store, Fill, StepSucceeds, StepFails,
           SourceGrows, Edit, Crash, vars
  <1>4. Carrying /\ ~Count("faults") /\ ~Count("edits")
    BY <1>2, <1>3, NoFault DEF Fed
  <1>5. ~Edit /\ ~Crash
    BY <1>4 DEF Edit, Crash
  <1>6. ~Exec /\ ~Store /\ ~Fill
    <2>1. ASSUME Exec \/ Store \/ Fill  PROVE FALSE
      <3>1. run.phase \in {"exec", "store", "fill"}
        BY <2>1 DEF Exec, Store, Fill
      <3>2. KindOf(Current) \notin {"sink", "connector"}
        BY <3>1 DEF Placed
      <3> QED  BY <1>2, <3>1, <3>2, FeedFacts
    <2> QED  BY <2>1
  <1>7. ~StepFails
    BY <1>4 DEF StepFails, Carrying
  <1>8. Attempt => UNCHANGED counts
    BY <1>4 DEF Attempt
  <1> QED  BY <1>2, <1>4, <1>5, <1>6, <1>7, <1>8, StartRunCarries, DispatchCarries,
              SucceedRunCarries, AttemptCarries, ReadingCarries, SaveCursorCarries,
              PushingCarries, StepSucceedsCarries, SourceGrowsCarries DEF Next, RunStep

-----------------------------------------------------------------------------
(* The invariant, and what it gives.                                         *)
LEMMA InitInv == Init => Inv
  <1> SUFFICES ASSUME Init  PROVE Inv
    OBVIOUS
  <1>1. run = Idle /\ run.phase = "idle" /\ run.touched = FALSE
    BY DEF Init, Idle
  <1>2. Types
    <2>1. pipe \in Pipelines /\ source \in Nat /\ watermark \in [DOMAIN pipe -> Nat]
      BY DEF Init
    <2>2. tables \in [TableNames -> Seq(Nat)] /\ existing \subseteq TableNames
          /\ sink \in Seq(Nat)
      BY EmptySeq DEF Init
    <2>3. counts \in [runs : Nat, faults : Nat, edits : Nat]
      BY DEF Init
    <2>4. \E R : run \in RunStates(R)
      BY <1>1, IdleIsARun
    <2> QED  BY <2>1, <2>2, <2>3, <2>4 DEF Types
  <1>3. Placed /\ Pushing /\ Pulling
    BY <1>1 DEF Placed, Pushing, Pulling
  <1>4. ASSUME Feeds  PROVE Carrying
    <2>1. 1 \in DOMAIN pipe
      BY <1>2, <1>3, <1>4, FeedFacts
    <2>2. watermark[1] = 0 /\ source = 0 /\ sink = <<>>
      BY <2>1 DEF Init
    <2>3. RowsUpTo(watermark[1]) = 0
      BY <1>2, <2>2, SourceRowsTyped DEF RowsUpTo
    <2>4. SourceRows \in Seq(Nat)
      BY <1>2, SourceRowsTyped
    <2>5. UpToKey(watermark[1]) = <<>>
      BY <2>3, <2>4, CutAll DEF UpToKey
    <2> QED  BY <1>1, <2>2, <2>3, <2>5 DEF Carrying
  <1> QED  BY <1>2, <1>3, <1>4 DEF Inv, Fed

LEMMA NextInv == Inv /\ [Next]_vars => Inv'
  <1> SUFFICES ASSUME Inv, [Next]_vars  PROVE Inv'
    OBVIOUS
  <1>1. Types /\ Placed /\ Pushing /\ Pulling
    BY DEF Inv
  <1>2. Types' /\ Placed'
    BY <1>1, StartRunTyped, DispatchTyped, SucceedRunTyped, AttemptTyped, ReadPageTyped,
       AppendPageTyped, SaveCursorTyped, QueryPageTyped, WriteBatchTyped, ExecTyped, StoreTyped,
       FillTyped, StepSucceedsTyped, StepFailsTyped, RestOfTheWorldTyped, EditTyped, CrashTyped
       DEF Next, RunStep
  <1>3. Pushing' /\ Pulling'
    BY <1>1, NextPushes, NextPulls
  <1> QED  BY <1>2, <1>3, NextCarries DEF Inv

(* Between the batches of a sink the destination has a prefix of the table,  *)
(* between the pages of a source its table has a part of the source, and a   *)
(* feed has carried over all up to its watermark, whatever failed in earlier *)
(* attempts (api.c:5794-5899, 5978-6147, 7528-7721).                         *)
THEOREM RowsAreFollowed == Spec => []Inv
  BY InitInv, NextInv, PTL DEF Spec

(* When a source step succeeds, its table has what was read since the cursor *)
(* its attempt started from, each row once: a retry starts the table anew    *)
(* (api.c:5794-5899).                                                        *)
THEOREM SourceStepStages == Spec => StageIsWhatWasRead
  <1>1. ASSUME Inv, Succeeds("connector"), ~run.touched, PagesAsAsked
        PROVE  tables[Out] =
                (IF Step.incremental
                 THEN SubSeq(SourceRows, RowsUpTo(run.from) + 1, RowsUpTo(run.cursor))
                 ELSE SubSeq(SourceRows, 1, run.cursor))
    <2>1. run.phase = "succeeded" /\ KindOf(Current) = "connector"
      BY <1>1 DEF Succeeds
    <2>2. tables[Out] = SubSeq(SourceRows, From + 1, Upto)
      BY <1>1, <2>1 DEF Inv, Pulling, Pulled
    <2>3. CASE Step.incremental
      BY <2>2, <2>3 DEF From, Upto
    <2>4. CASE ~Step.incremental
      <3>1. From + 1 = 1 /\ Upto = run.cursor
        BY <2>4 DEF From, Upto
      <3> QED  BY <2>2, <2>4, <3>1, Zenon
    <2> QED  BY <2>3, <2>4
  <1>2. Inv /\ [Next]_vars =>
          [Succeeds("connector") /\ ~run.touched /\ PagesAsAsked
           => tables[Out] =
                (IF Step.incremental
                 THEN SubSeq(SourceRows, RowsUpTo(run.from) + 1, RowsUpTo(run.cursor))
                 ELSE SubSeq(SourceRows, 1, run.cursor))]_vars
    BY <1>1
  <1> QED  BY <1>2, RowsAreFollowed, PTL DEF Spec, StageIsWhatWasRead

(* When a sink step succeeds, its attempt has put what the step selects into *)
(* the destination once, in order, for any page and batch size: no row is    *)
(* skipped or written twice where one page ends and the next begins          *)
(* (api.c:5978-6147).                                                        *)
THEOREM SinkStepDelivers == Spec => SinkGotTheTable
  <1>1. ASSUME Inv, Succeeds("sink"), ~run.touched, Step.limit # 0
        PROVE  sink = (IF Step.mode = "overwrite" THEN <<>> ELSE run.base)
                      \o (IF Step.limit = -1 THEN Selected ELSE PageOf(Selected, 0, Step.limit))
    <2>1. run.phase = "succeeded" /\ KindOf(Current) = "sink"
      BY <1>1 DEF Succeeds
    <2>2. sink = Before \o Whole
      BY <1>1, <2>1 DEF Inv, Pushing
    <2> QED  BY <2>2 DEF Before, Whole
  <1>2. Inv /\ [Next]_vars =>
          [Succeeds("sink") /\ ~run.touched /\ Step.limit # 0
           => sink = (IF Step.mode = "overwrite" THEN <<>> ELSE run.base)
                     \o (IF Step.limit = -1 THEN Selected
                         ELSE PageOf(Selected, 0, Step.limit))]_vars
    BY <1>1
  <1> QED  BY <1>2, RowsAreFollowed, PTL DEF Spec, SinkGotTheTable

(* Run after run, an incremental source step and an appending sink step      *)
(* carry each row up to the watermark over once, in order, as long as        *)
(* nothing failed and no one else wrote to the table (api.c:5691-5701,       *)
(* 7528-7721).                                                               *)
THEOREM FeedCarriesEachRowOnce == Spec => []EachRowOnce
  <1>1. Inv => EachRowOnce
    BY DEF Inv, Fed, Carrying, UpToKey, EachRowOnce
  <1> QED  BY <1>1, RowsAreFollowed, PTL

-----------------------------------------------------------------------------
(* PgWire *)

(* The slots of a kind: a name stands in one of them.                        *)
Apart(s, N) ==
    /\ s = [i \in 1..N |-> s[i]]
    /\ \A i, j \in 1..N : s[i].in_use /\ s[j].in_use /\ s[i].name = s[j].name => i = j
StandsAt(s, n, i) == s[i].in_use /\ s[i].name = n

LEMMA NamedAt ==
    ASSUME NEW N \in Nat, NEW s, Apart(s, N), NEW n
    PROVE  /\ \A i \in 1..N : StandsAt(s, n, i) => Named(s, n) = {i} /\ First(Named(s, n)) = {i}
           /\ (\A i \in 1..N : ~StandsAt(s, n, i)) => Named(s, n) = {} /\ First(Named(s, n)) = {}
           /\ First(Named(s, n)) = {} => \A i \in 1..N : ~StandsAt(s, n, i)
           /\ \A i \in First(Named(s, n)) : i \in 1..N /\ StandsAt(s, n, i)
  <1>1. Named(s, n) = {i \in 1..N : StandsAt(s, n, i)}
    BY DEF Apart, Named, StandsAt
  <1>2. \A i, j \in 1..N : StandsAt(s, n, i) /\ StandsAt(s, n, j) => i = j
    BY DEF Apart, StandsAt
  <1>3. \A i \in 1..N : StandsAt(s, n, i) => Named(s, n) = {i}
    BY <1>1, <1>2
  <1>4. \A i \in 1..N : First({i}) = {i}
    BY DEF First
  <1>5. First({}) = {}
    BY DEF First
  <1> QED  BY <1>1, <1>3, <1>4, <1>5

LEMMA UnusedFirst ==
    ASSUME NEW N \in Nat, NEW s, Apart(s, N)
    PROVE  /\ \A i \in First(Unused(s)) : i \in 1..N /\ ~s[i].in_use
           /\ First(Unused(s)) = {} => \A i \in 1..N : s[i].in_use
  <1>1. Unused(s) = {i \in 1..N : ~s[i].in_use}
    BY DEF Apart, Unused
  <1>2. \A i \in First(Unused(s)) : i \in Unused(s)
    BY DEF First
  <1>3. ASSUME Unused(s) # {}  PROVE First(Unused(s)) # {}
    <2> DEFINE T == Unused(s)
    <2>1. T \in SUBSET Nat /\ T # {}
      BY <1>1, <1>3
    <2> HIDE DEF T
    <2>2. PICK m \in T : \A k \in T : m <= k
      BY <2>1, NatMin
    <2> QED  BY <2>2 DEF First, T
  <1> QED  BY <1>1, <1>2, <1>3

(* A slot found for a name is filled, or one is released.                    *)
Takes(new, n) == new.in_use /\ new.name = n
MayTake(s, N, n, i) ==
    \/ StandsAt(s, n, i)
    \/ ~s[i].in_use /\ \A j \in 1..N : ~StandsAt(s, n, j)
Filled(s, t, N, n, i, new) ==
    /\ Apart(t, N) /\ t[i] = new /\ \A j \in 1..N : j # i => t[j] = s[j]
    /\ StandsAt(t, n, i)
    /\ \A m, j : m # n /\ j \in 1..N => (StandsAt(t, m, j) <=> StandsAt(s, m, j))

LEMMA SlotFilled ==
    ASSUME NEW N \in Nat, NEW s, Apart(s, N), NEW n, NEW i \in 1..N, NEW new,
           Takes(new, n), MayTake(s, N, n, i)
    PROVE  Filled(s, [s EXCEPT ![i] = new], N, n, i, new)
  <1> DEFINE t == [s EXCEPT ![i] = new]
  <1>1. t = [j \in 1..N |-> IF j = i THEN new ELSE s[j]]
    BY DEF Apart
  <1> HIDE DEF t
  <1>2. t[i] = new /\ \A j \in 1..N : j # i => t[j] = s[j]
    BY <1>1
  <1>3. \A j \in 1..N : j # i => ~StandsAt(s, n, j)
    BY DEF Apart, StandsAt, MayTake
  <1>4. Apart(t, N)
    BY <1>1, <1>2, <1>3 DEF Apart, StandsAt, Takes
  <1>5. \A m, j : m # n /\ j \in 1..N => (StandsAt(t, m, j) <=> StandsAt(s, m, j))
    BY <1>2 DEF StandsAt, MayTake, Takes
  <1> QED  BY <1>2, <1>4, <1>5 DEF StandsAt, Takes, Filled, t

Released(s, t, N, n, i, new) ==
    /\ Apart(t, N) /\ t[i] = new /\ \A j \in 1..N : j # i => t[j] = s[j]
    /\ \A j \in 1..N : ~StandsAt(t, n, j)
    /\ \A m, j : m # n /\ j \in 1..N => (StandsAt(t, m, j) <=> StandsAt(s, m, j))

LEMMA SlotReleased ==
    ASSUME NEW N \in Nat, NEW s, Apart(s, N), NEW n, NEW i \in 1..N, NEW new,
           ~new.in_use, StandsAt(s, n, i)
    PROVE  Released(s, [s EXCEPT ![i] = new], N, n, i, new)
  <1> DEFINE t == [s EXCEPT ![i] = new]
  <1>1. t = [j \in 1..N |-> IF j = i THEN new ELSE s[j]]
    BY DEF Apart
  <1> HIDE DEF t
  <1>2. t[i] = new /\ \A j \in 1..N : j # i => t[j] = s[j]
    BY <1>1
  <1>3. \A j \in 1..N : j # i => ~StandsAt(s, n, j)
    BY DEF Apart, StandsAt
  <1>4. Apart(t, N)
    BY <1>1, <1>2 DEF Apart
  <1> QED  BY <1>2, <1>3, <1>4 DEF StandsAt, Released, t

(* No slot is free: every one holds a name of its own.                       *)
LEMMA SlotsFull ==
    ASSUME NEW N \in Nat, NEW s, Apart(s, N), NEW H,
           \A i \in 1..N : s[i].in_use /\ s[i].name \in H,
           \A n \in H : \E i \in 1..N : StandsAt(s, n, i)
    PROVE  Cardinality(H) = N
  <1> DEFINE f == [i \in 1..N |-> s[i].name]
  <1>1. f \in [1..N -> H]
    OBVIOUS
  <1>2. \A i, j \in 1..N : f[i] = f[j] => i = j
    BY DEF Apart
  <1>3. \A n \in H : \E i \in 1..N : f[i] = n
    BY DEF StandsAt
  <1> HIDE DEF f
  <1>4. ExistsBijection(1..N, H)
    BY <1>1, <1>2, <1>3, Fun_IsBij, Zenon DEF ExistsBijection
  <1> QED  BY <1>4, FS_CountingElements

(* The state of PgProtocol, as PgWire has it.                                *)
Sts == [c \in Clients |-> [n \in Names |-> TextUnder(c, n)]]
Bds == [c \in Clients |-> [n \in Names |-> BoundUnder(c, n)]]
Ran == [c \in Clients |-> ReadAs(handed[c])]
Rep == [c \in Clients |-> <<said[c][1], Went(said[c][1], said[c][2])>>]

Tells(c, type, how, what) ==
    /\ Rep' = [Rep EXCEPT ![c] = <<type, how>>]
    /\ Ran' = [Ran EXCEPT ![c] = what]
Follow(c, n) ==
    \A d \in Clients, p \in Names :
        \/ Bds'[d][p] = Bds[d][p]
        \/ /\ d = c /\ Bds[c][p] # NoSql /\ Bds[c][p].text \in {Sts[c][n], NoSql}
           /\ Bds'[d][p] # NoSql /\ Bds'[d][p].values = Bds[d][p].values
HeldIn(f) == {n \in Names : f[n] # NoSql}
Stay == Sts' = Sts /\ Bds' = Bds

LEMMA SameCardinality == \A S : Protocol!Cardinality(S) = Cardinality(S)
  BY DEF Protocol!Cardinality, Cardinality

(* The steps of PgProtocol.                                                  *)
LEMMA ParseMaps ==
    ASSUME NEW c \in Clients, NEW n \in Names, NEW text \in Texts, ~batch_error[c],
           Tells(c, "P", "done", NoSql), Sts' = [Sts EXCEPT ![c][n] = text],
           Follow(c, n), batch_error' = batch_error
    PROVE  Protocol!Next
  <1>1. Protocol!Done(c, "P")
    BY DEF Protocol!Done, Protocol!Says, Tells, Ran, Rep
  <1>2. Protocol!PortalsFollow(c, n)
    BY DEF Protocol!PortalsFollow, Protocol!MayMove, Follow, Sts, Bds
  <1>3. Protocol!Parse(c, n, text)
    BY <1>1, <1>2 DEF Protocol!Parse, Sts
  <1> QED  BY <1>3 DEF Protocol!Next

LEMMA FailMaps ==
    ASSUME NEW c \in Clients, NEW type, NEW how, Tells(c, type, how, NoSql), Stay,
           batch_error' = [batch_error EXCEPT ![c] = TRUE]
    PROVE  Protocol!Fail(c, type, how)
  BY DEF Protocol!Fail, Protocol!Says, Protocol!Skipping, Tells, Stay, Sts, Bds, Ran, Rep

LEMMA HeldMaps ==
    ASSUME NEW c \in Clients
    PROVE  /\ Protocol!Cardinality(Protocol!Held(Sts[c])) = Cardinality(HeldIn(Sts[c]))
           /\ Protocol!Cardinality(Protocol!Held(Bds[c])) = Cardinality(HeldIn(Bds[c]))
  BY SameCardinality DEF Protocol!Held, HeldIn

LEMMA ParseFailMaps ==
    ASSUME NEW c \in Clients, NEW n \in Names, NEW text \in Texts, ~batch_error[c],
           Tells(c, "P", "failed", NoSql), Stay, batch_error' = [batch_error EXCEPT ![c] = TRUE],
           Sts[c][n] = NoSql, Cardinality(HeldIn(Sts[c])) = MaxPrepared
    PROVE  Protocol!Next
  <1>1. Protocol!Fail(c, "P", "failed")
    BY FailMaps
  <1>2. Protocol!Parse(c, n, text)
    BY <1>1, HeldMaps DEF Protocol!Parse, Sts
  <1> QED  BY <1>2 DEF Protocol!Next

LEMMA BindMaps ==
    ASSUME NEW c \in Clients, NEW p \in Names, NEW n \in Names, NEW values \in Values, ~batch_error[c],
           Tells(c, "B", "done", NoSql), Sts[c][n] # NoSql, Sts' = Sts, batch_error' = batch_error,
           Bds' = [Bds EXCEPT ![c][p] = [text |-> Sts[c][n], values |-> values]]
    PROVE  Protocol!Next
  <1>1. Protocol!Done(c, "B")
    BY DEF Protocol!Done, Protocol!Says, Tells, Ran, Rep
  <1>2. Protocol!Bind(c, p, n, values)
    BY <1>1 DEF Protocol!Bind, Sts, Bds
  <1> QED  BY <1>2 DEF Protocol!Next

LEMMA BindFailMaps ==
    ASSUME NEW c \in Clients, NEW p \in Names, NEW n \in Names, NEW values \in Values, ~batch_error[c],
           Tells(c, "B", "failed", NoSql), Stay, batch_error' = [batch_error EXCEPT ![c] = TRUE],
           Sts[c][n] = NoSql \/ (Bds[c][p] = NoSql /\ Cardinality(HeldIn(Bds[c])) = MaxPortals)
    PROVE  Protocol!Next
  <1>1. Protocol!Fail(c, "B", "failed")
    BY FailMaps
  <1>2. Protocol!Bind(c, p, n, values)
    BY <1>1, HeldMaps DEF Protocol!Bind, Sts, Bds
  <1> QED  BY <1>2 DEF Protocol!Next

(* A step of PgProtocol, or the one it does not allow.                       *)
WireMay == Protocol!Next \/ \E c \in Clients : BatchGoesOn(c)

LEMMA ExecuteMaps ==
    ASSUME NEW c \in Clients, NEW p \in Names, ~batch_error[c], NEW how \in {"done", "failed"},
           Bds[c][p] # NoSql, Bds[c][p].text # NoSql,
           Tells(c, "E", how, Meant(Bds[c][p].text, Bds[c][p].values)),
           Stay, batch_error' = batch_error
    PROVE  WireMay
  <1>1. Protocol!Says(c, "E", how, Meant(Bds[c][p].text, Bds[c][p].values))
    BY DEF Protocol!Says, Tells, Ran, Rep
  <1>2. Protocol!Executed(c, p, how)
    BY <1>1 DEF Protocol!Executed, Protocol!Runnable, Stay, Sts, Bds
  <1>3. CASE how = "failed"
    BY <1>2, <1>3 DEF WireMay, BatchGoesOn
  <1>4. CASE how = "done"
    <2>1. Protocol!Execute(c, p)
      BY <1>2, <1>4 DEF Protocol!Execute
    <2> QED  BY <2>1 DEF WireMay, Protocol!Next
  <1> QED  BY <1>3, <1>4

LEMMA ExecuteFailMaps ==
    ASSUME NEW c \in Clients, NEW p \in Names, ~batch_error[c],
           Bds[c][p] = NoSql \/ Bds[c][p].text = NoSql,
           Tells(c, "E", "failed", NoSql), Stay, batch_error' = [batch_error EXCEPT ![c] = TRUE]
    PROVE  Protocol!Next
  <1>1. Protocol!Fail(c, "E", "failed")
    BY FailMaps
  <1>2. Protocol!Execute(c, p)
    BY <1>1 DEF Protocol!Execute, Protocol!Runnable, Bds
  <1> QED  BY <1>2 DEF Protocol!Next

LEMMA CloseMaps ==
    ASSUME NEW c \in Clients, NEW n \in Names, ~batch_error[c], Tells(c, "C", "done", NoSql),
           batch_error' = batch_error,
           \/ Sts' = [Sts EXCEPT ![c][n] = NoSql] /\ Follow(c, n)
           \/ Sts' = Sts /\ Bds' = [Bds EXCEPT ![c][n] = NoSql]
    PROVE  Protocol!Next
  <1>1. Protocol!Done(c, "C")
    BY DEF Protocol!Done, Protocol!Says, Tells, Ran, Rep
  <1>2. CASE Sts' = [Sts EXCEPT ![c][n] = NoSql] /\ Follow(c, n)
    <2>1. Protocol!PortalsFollow(c, n)
      BY <1>2 DEF Protocol!PortalsFollow, Protocol!MayMove, Follow, Sts, Bds
    <2>2. Protocol!CloseStatement(c, n)
      BY <1>1, <1>2, <2>1 DEF Protocol!CloseStatement, Sts
    <2> QED  BY <2>2 DEF Protocol!Next
  <1>3. CASE Sts' = Sts /\ Bds' = [Bds EXCEPT ![c][n] = NoSql]
    <2>1. Protocol!ClosePortal(c, n)
      BY <1>1, <1>3 DEF Protocol!ClosePortal, Sts, Bds
    <2> QED  BY <2>1 DEF Protocol!Next
  <1> QED  BY <1>2, <1>3

LEMMA KeepsMaps ==
    ASSUME NEW c \in Clients, Stay, batch_error' = batch_error,
           \/ ~batch_error[c] /\ Tells(c, "D", "done", NoSql)
           \/ Tells(c, "H", "done", NoSql)
           \/ \E type \in {"P", "B", "D", "E", "C"} : batch_error[c] /\ Tells(c, type, "skipped", NoSql)
    PROVE  Protocol!Next
  <1>1. CASE ~batch_error[c] /\ Tells(c, "D", "done", NoSql)
    <2>1. Protocol!Describe(c)
      BY <1>1 DEF Protocol!Describe, Protocol!Done, Protocol!Says, Tells, Stay, Sts, Bds, Ran, Rep
    <2> QED  BY <2>1 DEF Protocol!Next
  <1>2. CASE Tells(c, "H", "done", NoSql)
    <2>1. Protocol!Flush(c)
      BY <1>2 DEF Protocol!Flush, Protocol!Done, Protocol!Says, Tells, Stay, Sts, Bds, Ran, Rep
    <2> QED  BY <2>1 DEF Protocol!Next
  <1>3. ASSUME NEW type \in {"P", "B", "D", "E", "C"}, batch_error[c], Tells(c, type, "skipped", NoSql)
        PROVE  Protocol!Next
    <2>1. Protocol!Skip(c, type)
      BY <1>3 DEF Protocol!Skip, Protocol!Says, Tells, Stay, Sts, Bds, Ran, Rep
    <2> QED  BY <2>1 DEF Protocol!Next
  <1> QED  BY <1>1, <1>2, <1>3

LEMMA MalformedMaps ==
    ASSUME NEW c \in Clients, NEW type \in {"P", "B", "D", "E"}, ~batch_error[c],
           Tells(c, type, "malformed", NoSql), Stay, batch_error' = [batch_error EXCEPT ![c] = TRUE]
    PROVE  Protocol!Next
  <1>1. Protocol!Fail(c, type, "malformed")
    BY FailMaps
  <1>2. Protocol!Malformed(c, type)
    BY <1>1 DEF Protocol!Malformed
  <1> QED  BY <1>2 DEF Protocol!Next

LEMMA QueryMaps ==
    ASSUME NEW c \in Clients, NEW text \in Texts, NEW how \in {"done", "failed"},
           Tells(c, "Q", how, Meant(text, <<>>)), Stay, batch_error' = batch_error
    PROVE  Protocol!Next
  <1>1. Protocol!Says(c, "Q", how, Meant(text, <<>>))
    BY DEF Protocol!Says, Tells, Ran, Rep
  <1>2. Protocol!Query(c, text)
    BY <1>1 DEF Protocol!Query, Stay, Sts, Bds
  <1> QED  BY <1>2 DEF Protocol!Next

LEMMA EndMaps ==
    ASSUME NEW c \in Clients, batch_error' = [batch_error EXCEPT ![c] = FALSE],
           \/ Tells(c, "S", "done", NoSql) /\ Stay
           \/ /\ Tells(c, "X", "done", NoSql)
              /\ Sts' = [Sts EXCEPT ![c] = [n \in Names |-> NoSql]]
              /\ Bds' = [Bds EXCEPT ![c] = [n \in Names |-> NoSql]]
    PROVE  Protocol!Next
  <1>1. CASE Tells(c, "S", "done", NoSql) /\ Stay
    <2>1. Protocol!Sync(c)
      BY <1>1 DEF Protocol!Sync, Protocol!Skipping, Protocol!Done, Protocol!Says, Tells, Stay,
                  Sts, Bds, Ran, Rep
    <2> QED  BY <2>1 DEF Protocol!Next
  <1>2. CASE /\ Tells(c, "X", "done", NoSql)
             /\ Sts' = [Sts EXCEPT ![c] = [n \in Names |-> NoSql]]
             /\ Bds' = [Bds EXCEPT ![c] = [n \in Names |-> NoSql]]
    <2>1. Protocol!Done(c, "X") /\ Protocol!Skipping(c, FALSE)
      BY <1>2 DEF Protocol!Skipping, Protocol!Done, Protocol!Says, Tells, Ran, Rep
    <2>2. Protocol!End(c)
      BY <1>2, <2>1 DEF Protocol!End, Protocol!Nothing, Sts, Bds
    <2> QED  BY <2>2 DEF Protocol!Next
  <1> QED  BY <1>1, <1>2

(* The slots seen as maps by name, for any slots.                            *)
TextOf(sl, n) ==
    IF First(Named(sl, n)) = {} THEN NoSql
    ELSE sl[CHOOSE i \in First(Named(sl, n)) : TRUE].sql
PortalOf(sl, po, n) ==
    IF First(Named(po, n)) = {} THEN NoSql
    ELSE LET at == po[CHOOSE j \in First(Named(po, n)) : TRUE] IN
         [text |-> sl[at.prep].sql, values |-> at.values]

GoodSlots(sl) ==
    /\ Apart(sl, MaxPrepared)
    /\ \A i \in 1..MaxPrepared :
        IF sl[i].in_use THEN sl[i].name \in Names /\ sl[i].sql \in Texts ELSE sl[i].sql = NoSql
GoodPortals(po) ==
    /\ Apart(po, MaxPortals)
    /\ \A j \in 1..MaxPortals : po[j].in_use =>
        po[j].name \in Names /\ po[j].prep \in 1..MaxPrepared /\ po[j].values \in Values

LEMMA NoSqlApart ==
    /\ \A text \in Texts : text # NoSql
    /\ \A text, values : [text |-> text, values |-> values] # NoSql
  <1>1. \A text \in Texts : text.verb # "none"
    BY WireAssumption DEF Verbs, Probes, Catalogs
  <1>2. ASSUME NEW text, NEW values  PROVE [text |-> text, values |-> values] # NoSql
    <2>1. DOMAIN [text |-> text, values |-> values] = {"text", "values"}
      OBVIOUS
    <2>2. DOMAIN NoSql = {"verb", "arg"}
      BY DEF NoSql
    <2> QED  BY <2>1, <2>2
  <1> QED  BY <1>1, <1>2 DEF NoSql

LEMMA TextAt ==
    ASSUME NEW sl, Apart(sl, MaxPrepared), NEW n
    PROVE  /\ \A i \in 1..MaxPrepared : StandsAt(sl, n, i) => TextOf(sl, n) = sl[i].sql
           /\ (\A i \in 1..MaxPrepared : ~StandsAt(sl, n, i)) => TextOf(sl, n) = NoSql
  <1>1. ASSUME NEW i \in 1..MaxPrepared, StandsAt(sl, n, i)  PROVE TextOf(sl, n) = sl[i].sql
    <2>1. First(Named(sl, n)) = {i}
      BY <1>1, NamedAt, WireAssumption
    <2>2. (CHOOSE k \in {i} : TRUE) = i
      OBVIOUS
    <2> QED  BY <2>1, <2>2 DEF TextOf
  <1>2. ASSUME \A i \in 1..MaxPrepared : ~StandsAt(sl, n, i)  PROVE TextOf(sl, n) = NoSql
    BY <1>2, NamedAt, WireAssumption DEF TextOf
  <1> QED  BY <1>1, <1>2

LEMMA PortalAt ==
    ASSUME NEW sl, NEW po, Apart(po, MaxPortals), NEW n, NEW j \in 1..MaxPortals, StandsAt(po, n, j)
    PROVE  PortalOf(sl, po, n) = [text |-> sl[po[j].prep].sql, values |-> po[j].values]
  <1>1. First(Named(po, n)) = {j}
    BY NamedAt, WireAssumption
  <1>2. (CHOOSE k \in {j} : TRUE) = j
    OBVIOUS
  <1> QED  BY <1>1, <1>2 DEF PortalOf

LEMMA NoPortalAt ==
    ASSUME NEW sl, NEW po, Apart(po, MaxPortals), NEW n,
           \A j \in 1..MaxPortals : ~StandsAt(po, n, j)
    PROVE  PortalOf(sl, po, n) = NoSql
  BY NamedAt, WireAssumption DEF PortalOf

(* What a portal may show after a slot has changed.                          *)
Moves(sl, tl, po, n) ==
    \A p \in Names :
        \/ PortalOf(tl, po, p) = PortalOf(sl, po, p)
        \/ /\ PortalOf(sl, po, p) # NoSql /\ PortalOf(sl, po, p).text \in {TextOf(sl, n), NoSql}
           /\ PortalOf(tl, po, p) # NoSql
           /\ PortalOf(tl, po, p).values = PortalOf(sl, po, p).values

LEMMA PortalsMove ==
    ASSUME NEW sl, NEW tl, NEW po, GoodPortals(po), NEW n, NEW i \in 1..MaxPrepared,
           sl[i].sql \in {TextOf(sl, n), NoSql},
           \A k \in 1..MaxPrepared : k # i => tl[k] = sl[k]
    PROVE  Moves(sl, tl, po, n)
  <1> SUFFICES ASSUME NEW p \in Names
               PROVE  \/ PortalOf(tl, po, p) = PortalOf(sl, po, p)
                      \/ /\ PortalOf(sl, po, p) # NoSql
                         /\ PortalOf(sl, po, p).text \in {TextOf(sl, n), NoSql}
                         /\ PortalOf(tl, po, p) # NoSql
                         /\ PortalOf(tl, po, p).values = PortalOf(sl, po, p).values
    BY DEF Moves
  <1>1. Apart(po, MaxPortals)
    BY DEF GoodPortals
  <1>2. CASE \A j \in 1..MaxPortals : ~StandsAt(po, p, j)
    BY <1>1, <1>2, NoPortalAt
  <1>3. ASSUME NEW j \in 1..MaxPortals, StandsAt(po, p, j)
        PROVE  \/ PortalOf(tl, po, p) = PortalOf(sl, po, p)
               \/ /\ PortalOf(sl, po, p) # NoSql
                  /\ PortalOf(sl, po, p).text \in {TextOf(sl, n), NoSql}
                  /\ PortalOf(tl, po, p) # NoSql
                  /\ PortalOf(tl, po, p).values = PortalOf(sl, po, p).values
    <2>1. PortalOf(sl, po, p) = [text |-> sl[po[j].prep].sql, values |-> po[j].values]
      BY <1>1, <1>3, PortalAt
    <2>2. PortalOf(tl, po, p) = [text |-> tl[po[j].prep].sql, values |-> po[j].values]
      BY <1>1, <1>3, PortalAt
    <2>3. po[j].prep \in 1..MaxPrepared
      BY <1>3 DEF GoodPortals, StandsAt
    <2>4. CASE po[j].prep # i
      BY <2>1, <2>2, <2>3, <2>4
    <2>5. CASE po[j].prep = i
      <3>1. PortalOf(sl, po, p) # NoSql /\ PortalOf(tl, po, p) # NoSql
        BY <2>1, <2>2, NoSqlApart
      <3>2. PortalOf(sl, po, p).text = sl[i].sql
        BY <2>1, <2>5
      <3>3. PortalOf(tl, po, p).values = PortalOf(sl, po, p).values
        BY <2>1, <2>2
      <3> QED  BY <3>1, <3>2, <3>3
    <2> QED  BY <2>4, <2>5
  <1> QED  BY <1>2, <1>3

(* A slot given a text or none.                                              *)
Puts(sl, t, n, text) ==
    /\ GoodSlots(t) /\ TextOf(t, n) = text
    /\ \A m \in Names : m # n => TextOf(t, m) = TextOf(sl, m)
    /\ \A po : GoodPortals(po) => Moves(sl, t, po, n)

(* The slot a Parse takes.                                                   *)
LEMMA ParsedSlot ==
    ASSUME NEW sl, GoodSlots(sl), NEW n \in Names, NEW text \in Texts,
           NEW i \in IF First(Named(sl, n)) # {} THEN First(Named(sl, n)) ELSE First(Unused(sl))
    PROVE  Puts(sl, [sl EXCEPT ![i] = [name |-> n, sql |-> text, in_use |-> TRUE]], n, text)
  <1> DEFINE new == [name |-> n, sql |-> text, in_use |-> TRUE]
  <1> DEFINE t == [sl EXCEPT ![i] = new]
  <1>1. Apart(sl, MaxPrepared) /\ MaxPrepared \in Nat
    BY WireAssumption DEF GoodSlots
  <1>2. /\ i \in 1..MaxPrepared
        /\ StandsAt(sl, n, i) \/ (~sl[i].in_use /\ \A j \in 1..MaxPrepared : ~StandsAt(sl, n, j))
    BY <1>1, NamedAt, UnusedFirst
  <1>3. new.in_use /\ new.name = n
    OBVIOUS
  <1>4. /\ Apart(t, MaxPrepared) /\ t[i] = new /\ \A j \in 1..MaxPrepared : j # i => t[j] = sl[j]
        /\ StandsAt(t, n, i)
        /\ \A m, j : m # n /\ j \in 1..MaxPrepared => (StandsAt(t, m, j) <=> StandsAt(sl, m, j))
    <2>1. MayTake(sl, MaxPrepared, n, i)
      BY <1>2 DEF MayTake
    <2>2. Takes(new, n)
      BY DEF Takes
    <2> HIDE DEF new
    <2>3. Filled(sl, t, MaxPrepared, n, i, new)
      BY <1>1, <1>2, <2>1, <2>2, SlotFilled
    <2> HIDE DEF t
    <2> QED  BY <2>3 DEF Filled
  <1>5. sl[i].sql \in {TextOf(sl, n), NoSql}
    BY <1>1, <1>2, TextAt DEF GoodSlots
  <1> HIDE DEF t
  <1>6. GoodSlots(t)
    BY <1>4, <1>1 DEF GoodSlots
  <1>7. TextOf(t, n) = text
    BY <1>4, <1>2, TextAt
  <1>8. ASSUME NEW m \in Names, m # n  PROVE TextOf(t, m) = TextOf(sl, m)
    <2>1. CASE \A j \in 1..MaxPrepared : ~StandsAt(sl, m, j)
      <3>1. \A j \in 1..MaxPrepared : ~StandsAt(t, m, j)
        BY <1>4, <1>8, <2>1
      <3> QED  BY <1>1, <1>4, <2>1, <3>1, TextAt
    <2>2. ASSUME NEW j \in 1..MaxPrepared, StandsAt(sl, m, j)  PROVE TextOf(t, m) = TextOf(sl, m)
      <3>1. StandsAt(t, m, j) /\ t[j].name = m
        BY <1>4, <1>8, <2>2 DEF StandsAt
      <3>2. j # i
        BY <3>1, <1>4, <1>3, <1>8
      <3> QED  BY <3>1, <3>2, <1>1, <1>4, <2>2, TextAt
    <2> QED  BY <2>1, <2>2
  <1>9. \A po : GoodPortals(po) => Moves(sl, t, po, n)
    BY <1>2, <1>4, <1>5, PortalsMove
  <1> QED  BY <1>6, <1>7, <1>8, <1>9 DEF t, Puts

LEMMA ClosedSlot ==
    ASSUME NEW sl, GoodSlots(sl), NEW n \in Names, NEW i \in First(Named(sl, n))
    PROVE  Puts(sl, [sl EXCEPT ![i] = FreeSlot], n, NoSql)
  <1> DEFINE t == [sl EXCEPT ![i] = FreeSlot]
  <1>1. Apart(sl, MaxPrepared) /\ MaxPrepared \in Nat
    BY WireAssumption DEF GoodSlots
  <1>2. i \in 1..MaxPrepared /\ StandsAt(sl, n, i)
    BY <1>1, NamedAt
  <1>3. ~FreeSlot.in_use /\ FreeSlot.sql = NoSql
    BY DEF FreeSlot
  <1>4. /\ Apart(t, MaxPrepared) /\ t[i] = FreeSlot
        /\ \A j \in 1..MaxPrepared : j # i => t[j] = sl[j]
        /\ \A j \in 1..MaxPrepared : ~StandsAt(t, n, j)
        /\ \A m, j : m # n /\ j \in 1..MaxPrepared => (StandsAt(t, m, j) <=> StandsAt(sl, m, j))
    <2>1. Released(sl, t, MaxPrepared, n, i, FreeSlot)
      BY <1>1, <1>2, <1>3, SlotReleased
    <2> HIDE DEF t
    <2> QED  BY <2>1 DEF Released
  <1>5. sl[i].sql \in {TextOf(sl, n), NoSql}
    BY <1>1, <1>2, TextAt
  <1> HIDE DEF t
  <1>6. GoodSlots(t)
    BY <1>4, <1>3 DEF GoodSlots
  <1>7. TextOf(t, n) = NoSql
    BY <1>4, TextAt
  <1>8. ASSUME NEW m \in Names, m # n  PROVE TextOf(t, m) = TextOf(sl, m)
    <2>1. CASE \A j \in 1..MaxPrepared : ~StandsAt(sl, m, j)
      <3>1. \A j \in 1..MaxPrepared : ~StandsAt(t, m, j)
        BY <1>4, <1>8, <2>1
      <3> QED  BY <1>1, <1>4, <2>1, <3>1, TextAt
    <2>2. ASSUME NEW j \in 1..MaxPrepared, StandsAt(sl, m, j)  PROVE TextOf(t, m) = TextOf(sl, m)
      <3>1. StandsAt(t, m, j) /\ t[j].in_use
        BY <1>4, <1>8, <2>2 DEF StandsAt
      <3>2. j # i
        BY <3>1, <1>4, <1>3
      <3> QED  BY <3>1, <3>2, <1>1, <1>4, <2>2, TextAt
    <2> QED  BY <2>1, <2>2
  <1>9. \A po : GoodPortals(po) => Moves(sl, t, po, n)
    BY <1>2, <1>4, <1>5, PortalsMove
  <1> QED  BY <1>6, <1>7, <1>8, <1>9 DEF t, Puts

Binds(sl, po, q, p, it) ==
    /\ GoodPortals(q) /\ PortalOf(sl, q, p) = it
    /\ \A m \in Names : m # p => PortalOf(sl, q, m) = PortalOf(sl, po, m)

LEMMA BoundPortal ==
    ASSUME NEW sl, NEW po, GoodPortals(po), NEW p \in Names, NEW i \in 1..MaxPrepared,
           NEW values \in Values,
           NEW j \in IF First(Named(po, p)) # {} THEN First(Named(po, p)) ELSE First(Unused(po))
    PROVE  Binds(sl, po, [po EXCEPT ![j] = [name |-> p, prep |-> i, values |-> values, in_use |-> TRUE]],
                 p, [text |-> sl[i].sql, values |-> values])
  <1> DEFINE new == [name |-> p, prep |-> i, values |-> values, in_use |-> TRUE]
  <1> DEFINE t == [po EXCEPT ![j] = new]
  <1>1. Apart(po, MaxPortals) /\ MaxPortals \in Nat
    BY WireAssumption DEF GoodPortals
  <1>2. /\ j \in 1..MaxPortals
        /\ StandsAt(po, p, j) \/ (~po[j].in_use /\ \A k \in 1..MaxPortals : ~StandsAt(po, p, k))
    BY <1>1, NamedAt, UnusedFirst
  <1>3. new.in_use /\ new.name = p
    OBVIOUS
  <1>4. /\ Apart(t, MaxPortals) /\ t[j] = new /\ \A k \in 1..MaxPortals : k # j => t[k] = po[k]
        /\ StandsAt(t, p, j)
        /\ \A m, k : m # p /\ k \in 1..MaxPortals => (StandsAt(t, m, k) <=> StandsAt(po, m, k))
    <2>1. MayTake(po, MaxPortals, p, j)
      BY <1>2 DEF MayTake
    <2>2. Takes(new, p)
      BY DEF Takes
    <2> HIDE DEF new
    <2>3. Filled(po, t, MaxPortals, p, j, new)
      BY <1>1, <1>2, <2>1, <2>2, SlotFilled
    <2> HIDE DEF t
    <2> QED  BY <2>3 DEF Filled
  <1> HIDE DEF t
  <1>6. GoodPortals(t)
    BY <1>4, <1>1 DEF GoodPortals
  <1>7. PortalOf(sl, t, p) = [text |-> sl[i].sql, values |-> values]
    <2>0. Apart(t, MaxPortals) /\ j \in 1..MaxPortals /\ StandsAt(t, p, j)
      BY <1>4, <1>2
    <2>1. PortalOf(sl, t, p) = [text |-> sl[t[j].prep].sql, values |-> t[j].values]
      BY <2>0, PortalAt
    <2>2. t[j].prep = i /\ t[j].values = values
      BY <1>4
    <2> QED  BY <2>1, <2>2
  <1>8. ASSUME NEW m \in Names, m # p  PROVE PortalOf(sl, t, m) = PortalOf(sl, po, m)
    <2>1. CASE \A k \in 1..MaxPortals : ~StandsAt(po, m, k)
      <3>1. \A k \in 1..MaxPortals : ~StandsAt(t, m, k)
        BY <1>4, <1>8, <2>1
      <3> QED  BY <1>1, <1>4, <2>1, <3>1, NoPortalAt
    <2>2. ASSUME NEW k \in 1..MaxPortals, StandsAt(po, m, k)
          PROVE  PortalOf(sl, t, m) = PortalOf(sl, po, m)
      <3>1. StandsAt(t, m, k) /\ t[k].name = m
        BY <1>4, <1>8, <2>2 DEF StandsAt
      <3>2. k # j
        BY <3>1, <1>4, <1>3, <1>8
      <3>3. t[k] = po[k]
        BY <3>2, <1>4
      <3>4. PortalOf(sl, t, m) = [text |-> sl[t[k].prep].sql, values |-> t[k].values]
        BY <3>1, <1>4, PortalAt
      <3>5. PortalOf(sl, po, m) = [text |-> sl[po[k].prep].sql, values |-> po[k].values]
        BY <2>2, <1>1, PortalAt
      <3> QED  BY <3>3, <3>4, <3>5
    <2> QED  BY <2>1, <2>2
  <1> QED  BY <1>6, <1>7, <1>8 DEF t, Binds

LEMMA ClosedPortal ==
    ASSUME NEW sl, NEW po, GoodPortals(po), NEW p \in Names, NEW j \in First(Named(po, p))
    PROVE  Binds(sl, po, [po EXCEPT ![j] = FreePortal], p, NoSql)
  <1> DEFINE t == [po EXCEPT ![j] = FreePortal]
  <1>1. Apart(po, MaxPortals) /\ MaxPortals \in Nat
    BY WireAssumption DEF GoodPortals
  <1>2. j \in 1..MaxPortals /\ StandsAt(po, p, j)
    BY <1>1, NamedAt
  <1>3. ~FreePortal.in_use
    BY DEF FreePortal
  <1>4. /\ Apart(t, MaxPortals) /\ t[j] = FreePortal
        /\ \A k \in 1..MaxPortals : k # j => t[k] = po[k]
        /\ \A k \in 1..MaxPortals : ~StandsAt(t, p, k)
        /\ \A m, k : m # p /\ k \in 1..MaxPortals => (StandsAt(t, m, k) <=> StandsAt(po, m, k))
    <2>1. Released(po, t, MaxPortals, p, j, FreePortal)
      BY <1>1, <1>2, <1>3, SlotReleased
    <2> HIDE DEF t
    <2> QED  BY <2>1 DEF Released
  <1> HIDE DEF t
  <1>6. GoodPortals(t)
    BY <1>4, <1>3 DEF GoodPortals
  <1>7. PortalOf(sl, t, p) = NoSql
    BY <1>4, NoPortalAt
  <1>8. ASSUME NEW m \in Names, m # p  PROVE PortalOf(sl, t, m) = PortalOf(sl, po, m)
    <2>1. CASE \A k \in 1..MaxPortals : ~StandsAt(po, m, k)
      <3>1. \A k \in 1..MaxPortals : ~StandsAt(t, m, k)
        BY <1>4, <1>8, <2>1
      <3> QED  BY <1>1, <1>4, <2>1, <3>1, NoPortalAt
    <2>2. ASSUME NEW k \in 1..MaxPortals, StandsAt(po, m, k)
          PROVE  PortalOf(sl, t, m) = PortalOf(sl, po, m)
      <3>1. StandsAt(t, m, k) /\ t[k].in_use
        BY <1>4, <1>8, <2>2 DEF StandsAt
      <3>2. k # j
        BY <3>1, <1>4, <1>3
      <3>3. t[k] = po[k]
        BY <3>2, <1>4
      <3>4. PortalOf(sl, t, m) = [text |-> sl[t[k].prep].sql, values |-> t[k].values]
        BY <3>1, <1>4, PortalAt
      <3>5. PortalOf(sl, po, m) = [text |-> sl[po[k].prep].sql, values |-> po[k].values]
        BY <2>2, <1>1, PortalAt
      <3> QED  BY <3>3, <3>4, <3>5
    <2> QED  BY <2>1, <2>2
  <1> QED  BY <1>6, <1>7, <1>8 DEF t, Binds

(* No slot left for a new name.                                              *)
LEMMA NoSlotLeft ==
    ASSUME NEW sl, GoodSlots(sl), NEW n \in Names,
           First(Named(sl, n)) = {}, First(Unused(sl)) = {}
    PROVE  TextOf(sl, n) = NoSql /\ Cardinality({m \in Names : TextOf(sl, m) # NoSql}) = MaxPrepared
  <1> DEFINE H == {m \in Names : TextOf(sl, m) # NoSql}
  <1>1. Apart(sl, MaxPrepared) /\ MaxPrepared \in Nat
    BY WireAssumption DEF GoodSlots
  <1>2. TextOf(sl, n) = NoSql
    BY DEF TextOf
  <1>3. \A i \in 1..MaxPrepared : sl[i].in_use
    BY <1>1, UnusedFirst
  <1>4. \A i \in 1..MaxPrepared : sl[i].name \in H
    <2> TAKE i \in 1..MaxPrepared
    <2>1. StandsAt(sl, sl[i].name, i) /\ sl[i].name \in Names /\ sl[i].sql \in Texts
      BY <1>3 DEF StandsAt, GoodSlots
    <2>2. TextOf(sl, sl[i].name) = sl[i].sql
      BY <2>1, <1>1, TextAt
    <2> QED  BY <2>1, <2>2, NoSqlApart
  <1>5. \A m \in H : \E i \in 1..MaxPrepared : StandsAt(sl, m, i)
    BY <1>1, TextAt
  <1>6. Cardinality(H) = MaxPrepared
    <2> HIDE DEF H
    <2> QED  BY <1>1, <1>3, <1>4, <1>5, SlotsFull
  <1> QED  BY <1>2, <1>6

LEMMA NoPortalLeft ==
    ASSUME NEW sl, NEW po, GoodPortals(po), NEW p \in Names,
           First(Named(po, p)) = {}, First(Unused(po)) = {}
    PROVE  /\ PortalOf(sl, po, p) = NoSql
           /\ Cardinality({m \in Names : PortalOf(sl, po, m) # NoSql}) = MaxPortals
  <1> DEFINE H == {m \in Names : PortalOf(sl, po, m) # NoSql}
  <1>1. Apart(po, MaxPortals) /\ MaxPortals \in Nat
    BY WireAssumption DEF GoodPortals
  <1>2. PortalOf(sl, po, p) = NoSql
    BY DEF PortalOf
  <1>3. \A j \in 1..MaxPortals : po[j].in_use
    BY <1>1, UnusedFirst
  <1>4. \A j \in 1..MaxPortals : po[j].name \in H
    <2> TAKE j \in 1..MaxPortals
    <2>1. StandsAt(po, po[j].name, j) /\ po[j].name \in Names
      BY <1>3 DEF StandsAt, GoodPortals
    <2>2. PortalOf(sl, po, po[j].name) = [text |-> sl[po[j].prep].sql, values |-> po[j].values]
      BY <2>1, <1>1, PortalAt
    <2> QED  BY <2>1, <2>2, NoSqlApart
  <1>5. \A m \in H : \E j \in 1..MaxPortals : StandsAt(po, m, j)
    BY <1>1, NoPortalAt
  <1>6. Cardinality(H) = MaxPortals
    <2> HIDE DEF H
    <2> QED  BY <1>1, <1>3, <1>4, <1>5, SlotsFull
  <1> QED  BY <1>2, <1>6

(* What a message tells, and what it handed to the engine.                   *)
IsText(sql) == sql.verb \in Verbs /\ sql = [verb |-> sql.verb, arg |-> sql.arg]

LEMMA ReadNothing == ReadAs(NoSql) = NoSql
  BY DEF ReadAs, NoSql, NoArg, Arg

LEMMA Answered ==
    ASSUME NEW c \in Clients, handed = [d \in Clients |-> handed[d]], said = [d \in Clients |-> said[d]],
           NEW type, NEW sql, NEW answers, Answer(c, type, sql, answers)
    PROVE  /\ Tells(c, type, Went(type, answers), ReadAs(sql))
           /\ handed' = [d \in Clients |-> handed'[d]] /\ said' = [d \in Clients |-> said'[d]]
  <1>1. said' = [d \in Clients |-> IF d = c THEN <<type, answers>> ELSE said[d]]
    BY DEF Answer
  <1>2. handed' = [d \in Clients |-> IF d = c THEN sql ELSE handed[d]]
    BY DEF Answer
  <1>3. Rep' = [d \in Clients |-> IF d = c THEN <<type, Went(type, answers)>> ELSE Rep[d]]
    BY <1>1 DEF Rep
  <1>4. Ran' = [d \in Clients |-> IF d = c THEN ReadAs(sql) ELSE Ran[d]]
    BY <1>2 DEF Ran
  <1>5. Rep' = [Rep EXCEPT ![c] = <<type, Went(type, answers)>>]
    BY <1>3 DEF Rep
  <1>6. Ran' = [Ran EXCEPT ![c] = ReadAs(sql)]
    BY <1>4 DEF Ran
  <1> QED  BY <1>1, <1>2, <1>5, <1>6 DEF Tells

LEMMA WentDone ==
    /\ \A type \in {"H", "S", "X"} : \A answers : Went(type, answers) = "done"
    /\ \A type \in {"P", "B", "D", "E", "C"} : Went(type, <<>>) = "skipped"
    /\ \A type \in {"P", "B", "D", "E"} :
        Went(type, Error("08P01")) = "malformed" /\ Went(type, Error("0A000")) = "malformed"
    /\ \A type \in {"P", "B", "D", "E"} :
        Went(type, Error("53000")) = "failed" /\ Went(type, Error("26000")) = "failed"
    /\ \A type \in {"P", "B", "D", "C"}, tag \in {"1", "2", "n", "3"} : Went(type, <<<<tag>>>>) = "done"
  <1>1. \A type \in {"H", "S", "X"} : \A answers : Went(type, answers) = "done"
    BY DEF Went
  <1>2. \A type \in {"P", "B", "D", "E", "C"} : Went(type, <<>>) = "skipped"
    BY DEF Went
  <1>3. \A type \in {"P", "B", "D", "E"} :
          Went(type, Error("08P01")) = "malformed" /\ Went(type, Error("0A000")) = "malformed"
    BY DEF Went, Error
  <1>4. ASSUME NEW type \in {"P", "B", "D", "E"}, NEW code \in {"53000", "26000"}
        PROVE  Went(type, Error(code)) = "failed"
    <2>1. Error(code) # <<>> /\ Error(code) \notin {Error("08P01"), Error("0A000")}
      BY DEF Error
    <2>2. Failed(Error(code))
      BY DEF Failed, Error
    <2> QED  BY <2>1, <2>2 DEF Went
  <1>5. ASSUME NEW type \in {"P", "B", "D", "C"}, NEW tag \in {"1", "2", "n", "3"}
        PROVE  Went(type, <<<<tag>>>>) = "done"
    <2>1. <<<<tag>>>> # <<>>
      OBVIOUS
    <2>2. \A code \in {"08P01", "0A000"} : <<<<tag>>>> # Error(code)
      BY DEF Error
    <2>3. ~Failed(<<<<tag>>>>)
      BY DEF Failed
    <2> QED  BY <2>1, <2>2, <2>3 DEF Went
  <1> QED  BY <1>1, <1>2, <1>3, <1>4, <1>5

(* An answer of the engine: a tag, an error of its own, or a set of rows.    *)
Answering(a) ==
    \E S : /\ a \in Seq(S) /\ Len(a) >= 1
           /\ Len(a) >= 2 \/ a[1][2] \notin {"08P01", "0A000"} \/ a[1][1] # "E"

Cells(cells, n) == n \in Nat /\ cells = [k \in 1..n |-> cells[k]]

LEMMA JoinedThree ==
    ASSUME NEW S, NEW s \in Seq(S), NEW t \in Seq(S), NEW u \in Seq(S)
    PROVE  (s \o t) \o u \in Seq(S) /\ Len((s \o t) \o u) = Len(s) + Len(t) + Len(u)
  <1>1. s \o t \in Seq(S) /\ Len(s \o t) = Len(s) + Len(t)
    BY ConcatProperties
  <1>2. (s \o t) \o u \in Seq(S) /\ Len((s \o t) \o u) = Len(s \o t) + Len(u)
    BY <1>1, ConcatProperties
  <1> QED  BY <1>1, <1>2

LEMMA RowSetAnswers ==
    ASSUME NEW oid, NEW tag, NEW cells, NEW n, Cells(cells, n)
    PROVE  Answering(ResultSet(oid, cells, tag))
  <1> DEFINE S == {<<"T", oid>>, <<"C", tag>>} \union {<<"D", cells[k]>> : k \in 1..n}
  <1> DEFINE head == <<<<"T", oid>>>>
  <1> DEFINE body == [k \in DOMAIN cells |-> <<"D", cells[k]>>]
  <1> DEFINE tail == <<<<"C", tag>>>>
  <1>1. head \in Seq(S) /\ Len(head) = 1
    OBVIOUS
  <1>2. tail \in Seq(S) /\ Len(tail) = 1
    OBVIOUS
  <1>3. body \in Seq(S) /\ Len(body) = n
    <2>1. n \in Nat /\ DOMAIN cells = 1..n
      BY DEF Cells
    <2>2. body \in [1..n -> S]
      BY <2>1
    <2> HIDE DEF body, S
    <2> QED  BY <2>1, <2>2
  <1>4. ResultSet(oid, cells, tag) = (head \o body) \o tail
    BY DEF ResultSet, Complete
  <1> HIDE DEF head, body, tail, S
  <1>5. /\ (head \o body) \o tail \in Seq(S)
        /\ Len((head \o body) \o tail) = Len(head) + Len(body) + Len(tail)
    <2>1. \A s, t, u \in Seq(S) :
            (s \o t) \o u \in Seq(S) /\ Len((s \o t) \o u) = Len(s) + Len(t) + Len(u)
      BY JoinedThree
    <2>2. head \in Seq(S) /\ body \in Seq(S) /\ tail \in Seq(S)
      BY <1>1, <1>2, <1>3
    <2> QED  BY <2>1, <2>2
  <1>6. (head \o body) \o tail \in Seq(S) /\ Len((head \o body) \o tail) = n + 2
    BY <1>1, <1>2, <1>3, <1>5 DEF Cells
  <1>7. \E R : ResultSet(oid, cells, tag) \in Seq(R) /\ Len(ResultSet(oid, cells, tag)) = n + 2
    BY <1>4, <1>6
  <1> QED  BY <1>7 DEF Answering, Cells

LEMMA WentAnswering ==
    ASSUME NEW a, Answering(a)
    PROVE  Went("E", a) \in {"done", "failed"} /\ Went("Q", a \o Ready("I")) \in {"done", "failed"}
  <1>1. PICK S : /\ a \in Seq(S) /\ Len(a) >= 1
                 /\ Len(a) >= 2 \/ a[1][2] \notin {"08P01", "0A000"} \/ a[1][1] # "E"
    BY DEF Answering
  <1>2. \A code \in {"08P01", "0A000"} :
          Len(Error(code)) = 1 /\ Error(code)[1][1] = "E" /\ Error(code)[1][2] = code
    BY DEF Error
  <1>3. a # <<>> /\ a \notin {Error("08P01"), Error("0A000")}
    <2>1. a # <<>>
      BY <1>1
    <2>2. ASSUME NEW code \in {"08P01", "0A000"}, a = Error(code)  PROVE FALSE
      <3>1. Len(a) = 1 /\ a[1][1] = "E" /\ a[1][2] = code
        BY <1>2, <2>2
      <3>2. a[1][2] \in {"08P01", "0A000"}
        BY <3>1
      <3> QED  BY <1>1, <3>1, <3>2
    <2> QED  BY <2>1, <2>2
  <1>4. Went("E", a) \in {"done", "failed"}
    BY <1>3 DEF Went
  <1> DEFINE T == S \union {<<"Z", "I">>}
  <1>5. a \in Seq(T)
    BY <1>1
  <1>6. Ready("I") \in Seq(T) /\ Len(Ready("I")) = 1
    BY DEF Ready
  <1>7. a \o Ready("I") \in Seq(T) /\ Len(a \o Ready("I")) >= 2
    <2> HIDE DEF T
    <2> QED  BY <1>5, <1>6, <1>1
  <1>8. a \o Ready("I") # <<>> /\ a \o Ready("I") \notin {Error("08P01"), Error("0A000")}
    BY <1>7, <1>2
  <1>9. Went("Q", a \o Ready("I")) \in {"done", "failed"}
    BY <1>8 DEF Went
  <1> QED  BY <1>4, <1>9

LEMMA TagAnswers == \A tag : Answering(Complete(tag))
  <1> TAKE tag
  <1> DEFINE S == {<<"C", tag>>}
  <1>1. Complete(tag) \in Seq(S) /\ Len(Complete(tag)) >= 1
    BY DEF Complete
  <1>2. Complete(tag)[1][1] # "E"
    BY DEF Complete
  <1> HIDE DEF S
  <1> QED  BY <1>1, <1>2 DEF Answering

LEMMA ErrorAnswers == \A code \in {"42601", "42P01", "XX000"} : Answering(Error(code))
  <1> TAKE code \in {"42601", "42P01", "XX000"}
  <1> DEFINE S == {<<"E", code>>}
  <1>1. Error(code) \in Seq(S) /\ Len(Error(code)) >= 1
    BY DEF Error
  <1>2. Error(code)[1][2] = code
    BY DEF Error
  <1>3. Error(code)[1][2] \notin {"08P01", "0A000"}
    BY <1>2
  <1> HIDE DEF S
  <1> QED  BY <1>1, <1>3 DEF Answering

LEMMA FewCells ==
    /\ \A v : Cells(<<v>>, 1)
    /\ \A v, w : Cells(<<v, w>>, 2)
    /\ \A literal, n : Cells(rows, n) => \E m : Cells(Equal(literal), m)
  <1>1. \A v : Cells(<<v>>, 1)
    BY DEF Cells
  <1>2. \A v, w : Cells(<<v, w>>, 2)
    BY DEF Cells
  <1>3. ASSUME NEW literal, NEW n, Cells(rows, n)  PROVE \E m : Cells(Equal(literal), m)
    <2> DEFINE at == {i \in DOMAIN rows : literal.form # "null" /\ rows[i] = literal.text}
    <2>1. at \subseteq 1..n /\ n \in Nat
      BY <1>3 DEF Cells
    <2>2. IsFiniteSet(1..n)
      BY <2>1, FS_Interval
    <2>3. Cardinality(at) \in Nat
      BY <2>1, <2>2, FS_Subset, FS_CardinalityType
    <2>4. Equal(literal) = [k \in 1..Cardinality(at) |-> literal.text]
      BY DEF Equal
    <2> HIDE DEF at
    <2>5. Cells(Equal(literal), Cardinality(at))
      BY <2>3, <2>4 DEF Cells
    <2> QED  BY <2>5
  <1> QED  BY <1>1, <1>2, <1>3

LEMMA QueryAnswers ==
    ASSUME NEW sql, IsText(sql), NEW n, Cells(rows, n)
    PROVE  Answering(PgQuery(sql))
  <1>1. \A verb \in Probes : Answering(Probe(verb))
    <2> TAKE verb \in Probes
    <2>1. \A oid, tag : Answering(ResultSet(oid, <<verb>>, tag))
      BY FewCells, RowSetAnswers
    <2> QED  BY <2>1, TagAnswers DEF Probe
  <1>2. \A verb \in Catalogs : Answering(Catalog(verb))
    <2> TAKE verb \in Catalogs
    <2>1. \A oid, tag : Answering(ResultSet(oid, <<"t">>, tag))
      BY FewCells, RowSetAnswers
    <2>2. \A oid, tag : Answering(ResultSet(oid, <<"pg_catalog", "public">>, tag))
      BY FewCells, RowSetAnswers
    <2> QED  BY <2>1, <2>2 DEF Catalog
  <1>3. \A k, tag : Answering(Changed(k, tag))
    <2> TAKE k, tag
    <2>1. Cells(<<k>>, 1)
      BY FewCells
    <2> QED  BY <2>1, RowSetAnswers DEF Changed
  <1>4. \A oid, tag : Answering(ResultSet(oid, rows, tag))
    BY RowSetAnswers
  <1>5. \A oid, tag, literal : Answering(ResultSet(oid, Equal(literal), tag))
    BY FewCells, RowSetAnswers
  <1>6. Answering(Error("42601")) /\ Answering(Error("42P01")) /\ Answering(Error("XX000"))
    BY ErrorAnswers
  <1>7. CASE sql.verb \in Probes
    BY <1>1, <1>7 DEF PgQuery
  <1>8. CASE sql.verb \in Catalogs
    <2>1. sql.verb \notin Probes
      BY <1>8 DEF Probes, Catalogs
    <2> QED  BY <1>2, <1>8, <2>1 DEF PgQuery
  <1>9. CASE sql.verb \notin Probes /\ sql.verb \notin Catalogs
    <2>1. sql.verb \in {"broken", "insert", "missing", "fails", "select", "find", "update", "delete"}
      BY <1>9 DEF Verbs, IsText
    <2>2. CASE sql.verb \in {"broken", "insert"} \/ IsParam(sql.arg)
      BY <1>6, <1>9, <2>2 DEF PgQuery
    <2>3. CASE ~(sql.verb \in {"broken", "insert"} \/ IsParam(sql.arg))
      <3>1. PgQuery(sql) =
              CASE sql.verb = "missing" -> Error("42P01")
                [] sql.verb = "fails" -> Error("XX000")
                [] sql.verb = "select" -> ResultSet(ColOid(rows), rows, "SELECT")
                [] sql.verb = "find" -> ResultSet(ColOid(Equal(sql.arg)), Equal(sql.arg), "SELECT")
                [] sql.verb = "update" -> Changed(Len(rows), "UPDATE")
                [] sql.verb = "delete" -> Changed(Len(rows), "DELETE")
        BY <1>9, <2>3 DEF PgQuery
      <3> QED  BY <1>3, <1>4, <1>5, <1>6, <2>1, <2>3, <3>1
    <2> QED  BY <2>2, <2>3
  <1> QED  BY <1>7, <1>8, <1>9

(* The values in the text, and the text as the engine reads it.              *)
LEMMA TextsTyped == \A text \in Texts : IsText(text)
  BY WireAssumption DEF IsText

LEMMA FinalTyped ==
    ASSUME NEW sql, IsText(sql), NEW values
    PROVE  IsText(FinalSql(sql, values))
  BY DEF FinalSql, SubstituteParams, IsText

LEMMA UndoubledOnce == \A v \in Bindable : Undoubled(Doubled(v)) = v
  BY DoubledAssumption DEF Undoubled

LEMMA LiteralRead ==
    ASSUME NEW sql, IsText(sql), NEW v \in Bindable \union {Null}
    PROVE  ReadAs([sql EXCEPT !.arg = Literal(v)]) = [sql EXCEPT !.arg = Arg("value", 0, v)]
  <1> DEFINE t == [sql EXCEPT !.arg = Literal(v)]
  <1>1. /\ sql = [verb |-> sql.verb, arg |-> sql.arg]
        /\ t = [verb |-> sql.verb, arg |-> Literal(v)]
    BY DEF IsText
  <1>2. [sql EXCEPT !.arg = Arg("value", 0, v)] = [verb |-> sql.verb, arg |-> Arg("value", 0, v)]
    BY <1>1
  <1>3. CASE v = Null
    <2>1. Literal(v) = Arg("null", 0, "NULL") /\ Literal(v).form = "null"
      BY <1>3 DEF Literal, Arg
    <2>2. ReadAs(t) = [t EXCEPT !.arg = Arg("value", 0, Null)]
      BY <1>1, <2>1 DEF ReadAs
    <2> QED  BY <1>1, <1>2, <1>3, <2>2
  <1>4. CASE v # Null
    <2>1. CASE Literal(v) = Arg("raw", 0, v)
      <3>1. t.arg.form = "raw" /\ t.arg.text = v
        BY <1>1, <2>1 DEF Arg
      <3>2. ReadAs(t) = [t EXCEPT !.arg = Arg("value", 0, v)]
        BY <3>1 DEF ReadAs
      <3> QED  BY <1>1, <1>2, <3>2
    <2>2. CASE Literal(v) = Arg("quoted", 0, Doubled(v))
      <3>1. Undoubled(Doubled(v)) = v
        BY <1>4, UndoubledOnce
      <3>2. t.arg.form = "quoted" /\ t.arg.text = Doubled(v)
        BY <1>1, <2>2 DEF Arg
      <3>3. ReadAs(t) = [t EXCEPT !.arg = Arg("value", 0, v)]
        BY <3>1, <3>2 DEF ReadAs
      <3> QED  BY <1>1, <1>2, <3>3
    <2> QED  BY <1>4, <2>1, <2>2 DEF Literal
  <1> QED  BY <1>3, <1>4

LEMMA FinalIsMeant ==
    ASSUME NEW sql, IsText(sql), NEW values \in Values
    PROVE  ReadAs(FinalSql(sql, values)) = Meant(sql, values)
  <1>1. CASE values # <<>> /\ IsParam(sql.arg)
    <2> DEFINE v == ValueAt(values, sql.arg.at)
    <2>1. v \in Bindable \union {Null}
      BY DEF ValueAt, Bindable
    <2>2. FinalSql(sql, values) = [sql EXCEPT !.arg = Literal(v)]
      BY <1>1 DEF FinalSql, SubstituteParams
    <2>3. Meant(sql, values) = [sql EXCEPT !.arg = Arg("value", 0, v)]
      BY <1>1 DEF Meant
    <2> HIDE DEF v
    <2> QED  BY <2>1, <2>2, <2>3, LiteralRead
  <1>2. CASE values = <<>> \/ ~IsParam(sql.arg)
    BY <1>2 DEF FinalSql, SubstituteParams, Meant
  <1> QED  BY <1>1, <1>2

LEMMA RowsTyped ==
    ASSUME NEW sql, NEW n, Cells(rows, n)
    PROVE  \E m : Cells(RowsAfter(sql), m)
  <1>1. Cells([i \in DOMAIN rows |-> sql.arg.text], n)
    BY DEF Cells
  <1>2. Cells(<<>>, 0)
    BY DEF Cells
  <1>3. RowsAfter(sql) \in {[i \in DOMAIN rows |-> sql.arg.text], <<>>, rows}
    BY DEF RowsAfter
  <1> QED  BY <1>1, <1>2, <1>3

(* Every name in one slot, every pointer to a slot, and nothing in the slots *)
(* of a connection that has not logged in.                                   *)
OnClients(f) == f = [c \in Clients |-> f[c]]
WireInv ==
    /\ OnClients(phase) /\ OnClients(prepared) /\ OnClients(portals) /\ OnClients(batch_error)
    /\ OnClients(handed) /\ OnClients(said)
    /\ \A c \in Clients : GoodSlots(prepared[c]) /\ GoodPortals(portals[c])
    /\ \A c \in Clients : phase[c] \in {"none", "startup", "plain", "password"} =>
        prepared[c] = Slots /\ portals[c] = PortalSlots /\ batch_error[c] = FALSE
    /\ \E n : Cells(rows, n)

LEMMA Seen ==
    /\ Sts = [c \in Clients |-> [n \in Names |-> TextOf(prepared[c], n)]]
    /\ Sts' = [c \in Clients |-> [n \in Names |-> TextOf(prepared'[c], n)]]
    /\ Bds = [c \in Clients |-> [n \in Names |-> PortalOf(prepared[c], portals[c], n)]]
    /\ Bds' = [c \in Clients |-> [n \in Names |-> PortalOf(prepared'[c], portals'[c], n)]]
  BY DEF Sts, Bds, TextUnder, BoundUnder, FindPrepared, FindPortal, TextOf, PortalOf

LEMMA StaySeen ==
    ASSUME prepared' = prepared, portals' = portals
    PROVE  Stay
  BY Seen DEF Stay

LEMMA StutterMaps ==
    ASSUME Stay, batch_error' = batch_error, handed' = handed, said' = said
    PROVE  UNCHANGED Protocol!vars
  BY DEF Stay, Sts, Bds, Protocol!vars

LEMMA EmptySlots ==
    /\ GoodSlots(Slots) /\ GoodPortals(PortalSlots)
    /\ \A n : TextOf(Slots, n) = NoSql
    /\ \A sl, n : PortalOf(sl, PortalSlots, n) = NoSql
  <1>1. Apart(Slots, MaxPrepared) /\ \A i \in 1..MaxPrepared : ~Slots[i].in_use /\ Slots[i].sql = NoSql
    BY DEF Slots, FreeSlot, Apart
  <1>2. Apart(PortalSlots, MaxPortals) /\ \A i \in 1..MaxPortals : ~PortalSlots[i].in_use
    BY DEF PortalSlots, FreePortal, Apart
  <1>3. \A n : \A i \in 1..MaxPrepared : ~StandsAt(Slots, n, i)
    BY <1>1 DEF StandsAt
  <1>4. \A n : \A i \in 1..MaxPortals : ~StandsAt(PortalSlots, n, i)
    BY <1>2 DEF StandsAt
  <1>5. \A n : TextOf(Slots, n) = NoSql
    BY <1>1, <1>3, TextAt
  <1>6. \A sl, n : PortalOf(sl, PortalSlots, n) = NoSql
    BY <1>2, <1>4, NoPortalAt
  <1> QED  BY <1>1, <1>2, <1>5, <1>6 DEF GoodSlots, GoodPortals

LEMMA SlotsChange ==
    ASSUME WireInv, NEW c \in Clients, NEW n \in Names, NEW t,
           prepared' = [prepared EXCEPT ![c] = t], portals' = portals,
           NEW text, Puts(prepared[c], t, n, text)
    PROVE  Sts' = [Sts EXCEPT ![c][n] = text] /\ Follow(c, n)
  <1>0. /\ TextOf(t, n) = text /\ Moves(prepared[c], t, portals[c], n)
        /\ \A m \in Names : m # n => TextOf(t, m) = TextOf(prepared[c], m)
    BY DEF Puts, WireInv
  <1>1. \A d \in Clients : prepared'[d] = IF d = c THEN t ELSE prepared[d]
    BY DEF WireInv, OnClients
  <1>2. Sts' = [Sts EXCEPT ![c][n] = TextOf(t, n)]
    <2>1. Sts' = [d \in Clients |-> [m \in Names |->
                    IF d = c /\ m = n THEN TextOf(t, n) ELSE TextOf(prepared[d], m)]]
      BY <1>0, <1>1, Seen
    <2>2. PICK x : x = TextOf(t, n)
      OBVIOUS
    <2>3. PICK f : f = [d \in Clients |-> [m \in Names |-> TextOf(prepared[d], m)]]
      OBVIOUS
    <2>4. Sts' = [d \in Clients |-> [m \in Names |-> IF d = c /\ m = n THEN x ELSE f[d][m]]]
      BY <2>1, <2>2, <2>3
    <2>5. [f EXCEPT ![c][n] = x]
            = [d \in Clients |-> [m \in Names |-> IF d = c /\ m = n THEN x ELSE f[d][m]]]
      BY <2>3
    <2> QED  BY <2>2, <2>3, <2>4, <2>5, Seen
  <1>3. Follow(c, n)
    <2> SUFFICES ASSUME NEW d \in Clients, NEW p \in Names
                 PROVE  \/ Bds'[d][p] = Bds[d][p]
                        \/ /\ d = c /\ Bds[c][p] # NoSql /\ Bds[c][p].text \in {Sts[c][n], NoSql}
                           /\ Bds'[d][p] # NoSql /\ Bds'[d][p].values = Bds[d][p].values
      BY DEF Follow
    <2>1. /\ Bds[d][p] = PortalOf(prepared[d], portals[d], p)
          /\ Bds'[d][p] = PortalOf(prepared'[d], portals[d], p)
          /\ Sts[c][n] = TextOf(prepared[c], n)
      BY Seen
    <2>2. CASE d # c
      BY <1>1, <2>1, <2>2
    <2>3. CASE d = c
      BY <1>0, <1>1, <2>1, <2>3 DEF Moves
    <2> QED  BY <2>2, <2>3
  <1> QED  BY <1>0, <1>2, <1>3

Rebinds(c, p, q, it) ==
    /\ portals' = [portals EXCEPT ![c] = q] /\ prepared' = prepared
    /\ Binds(prepared[c], portals[c], q, p, it)

LEMMA PortalsChange ==
    ASSUME WireInv, NEW c \in Clients, NEW p \in Names, NEW q, NEW it, Rebinds(c, p, q, it)
    PROVE  Sts' = Sts /\ Bds' = [Bds EXCEPT ![c][p] = it]
  <1>0. /\ PortalOf(prepared[c], q, p) = it
        /\ \A m \in Names : m # p =>
                PortalOf(prepared[c], q, m) = PortalOf(prepared[c], portals[c], m)
    BY DEF Binds, Rebinds
  <1>1. /\ \A d \in Clients : portals'[d] = IF d = c THEN q ELSE portals[d]
        /\ prepared' = prepared
    BY DEF WireInv, OnClients, Rebinds
  <1>2. Bds' = [d \in Clients |-> [m \in Names |->
                    IF d = c /\ m = p THEN PortalOf(prepared[c], q, p)
                    ELSE PortalOf(prepared[d], portals[d], m)]]
    BY <1>0, <1>1, Seen
  <1>3. Bds' = [Bds EXCEPT ![c][p] = PortalOf(prepared[c], q, p)]
    <2>1. PICK x : x = PortalOf(prepared[c], q, p)
      OBVIOUS
    <2>2. PICK f : f = [d \in Clients |-> [m \in Names |-> PortalOf(prepared[d], portals[d], m)]]
      OBVIOUS
    <2>3. Bds' = [d \in Clients |-> [m \in Names |-> IF d = c /\ m = p THEN x ELSE f[d][m]]]
      BY <1>2, <2>1, <2>2
    <2>4. [f EXCEPT ![c][p] = x]
            = [d \in Clients |-> [m \in Names |-> IF d = c /\ m = p THEN x ELSE f[d][m]]]
      BY <2>2
    <2> QED  BY <2>1, <2>2, <2>3, <2>4, Seen
  <1> QED  BY <1>0, <1>1, <1>3, Seen

(* A message keeps the invariant if it keeps its own slots.                  *)
LEMMA MessageKeeps ==
    ASSUME WireInv, NEW c \in Clients, phase' = [phase EXCEPT ![c] = "loop"],
           NEW sl, GoodSlots(sl), prepared' = [prepared EXCEPT ![c] = sl],
           NEW po, GoodPortals(po), portals' = [portals EXCEPT ![c] = po],
           NEW b, batch_error' = [batch_error EXCEPT ![c] = b],
           NEW type, NEW sql, NEW answers, Answer(c, type, sql, answers),
           \E n : Cells(rows', n)
    PROVE  WireInv'
  <1>1. /\ phase' = [d \in Clients |-> IF d = c THEN "loop" ELSE phase[d]]
        /\ prepared' = [d \in Clients |-> IF d = c THEN sl ELSE prepared[d]]
        /\ portals' = [d \in Clients |-> IF d = c THEN po ELSE portals[d]]
        /\ batch_error' = [d \in Clients |-> IF d = c THEN b ELSE batch_error[d]]
    BY DEF WireInv, OnClients
  <1>2. OnClients(phase)' /\ OnClients(prepared)' /\ OnClients(portals)' /\ OnClients(batch_error)'
    BY <1>1 DEF OnClients
  <1>3. OnClients(handed)' /\ OnClients(said)'
    BY Answered DEF WireInv, OnClients
  <1>4. \A d \in Clients : GoodSlots(prepared'[d]) /\ GoodPortals(portals'[d])
    BY <1>1 DEF WireInv
  <1>5. \A d \in Clients : phase'[d] \in {"none", "startup", "plain", "password"} =>
          prepared'[d] = Slots /\ portals'[d] = PortalSlots /\ batch_error'[d] = FALSE
    BY <1>1 DEF WireInv
  <1> QED  BY <1>2, <1>3, <1>4, <1>5 DEF WireInv

LEMMA SameOf ==
    ASSUME WireInv, NEW c \in Clients
    PROVE  /\ prepared = [prepared EXCEPT ![c] = prepared[c]]
           /\ portals = [portals EXCEPT ![c] = portals[c]]
           /\ batch_error = [batch_error EXCEPT ![c] = batch_error[c]]
           /\ GoodSlots(prepared[c]) /\ GoodPortals(portals[c])
           /\ handed = [d \in Clients |-> handed[d]] /\ said = [d \in Clients |-> said[d]]
  BY DEF WireInv, OnClients

(* Messages that leave the slots alone.                                      *)
LEMMA PlainKeeps ==
    ASSUME WireInv, NEW c \in Clients, Reads(c), prepared' = prepared, portals' = portals,
           NEW b, batch_error' = [batch_error EXCEPT ![c] = b],
           NEW type, NEW sql, NEW answers, Answer(c, type, sql, answers),
           \E n : Cells(rows', n)
    PROVE  WireInv' /\ Stay /\ Tells(c, type, Went(type, answers), ReadAs(sql))
  <1>1. phase' = [phase EXCEPT ![c] = "loop"]
    BY DEF Reads, Go
  <1>2. prepared' = [prepared EXCEPT ![c] = prepared[c]] /\ portals' = [portals EXCEPT ![c] = portals[c]]
    BY SameOf
  <1>3. WireInv'
    BY <1>1, <1>2, SameOf, MessageKeeps
  <1>4. Tells(c, type, Went(type, answers), ReadAs(sql))
    BY SameOf, Answered
  <1> QED  BY <1>3, <1>4, StaySeen

LEMMA RefuseKeeps ==
    ASSUME WireInv, NEW c \in Clients, Reads(c), NEW type, NEW code, Refuse(c, type, code)
    PROVE  /\ WireInv' /\ Stay /\ Tells(c, type, Went(type, Error(code)), NoSql)
           /\ batch_error' = [batch_error EXCEPT ![c] = TRUE]
  <1>1. /\ prepared' = prepared /\ portals' = portals /\ rows' = rows
        /\ batch_error' = [batch_error EXCEPT ![c] = TRUE] /\ Answer(c, type, NoSql, Error(code))
    BY DEF Refuse
  <1>2. \E n : Cells(rows', n)
    BY <1>1 DEF WireInv
  <1>3. WireInv' /\ Stay /\ Tells(c, type, Went(type, Error(code)), ReadAs(NoSql))
    BY <1>1, <1>2, PlainKeeps
  <1> QED  BY <1>1, <1>3, ReadNothing

LEMMA RunsKeeps ==
    ASSUME WireInv, NEW c \in Clients, Reads(c), NEW type, NEW sql, NEW ready,
           Runs(c, type, sql, ready)
    PROVE  /\ WireInv' /\ Stay /\ Tells(c, type, Went(type, PgQuery(sql) \o ready), ReadAs(sql))
           /\ batch_error' = batch_error
  <1>1. /\ prepared' = prepared /\ portals' = portals /\ batch_error' = batch_error
        /\ rows' = RowsAfter(sql) /\ Answer(c, type, sql, PgQuery(sql) \o ready)
    BY DEF Runs, conn
  <1>2. \E n : Cells(rows', n)
    <2>1. \E n : Cells(rows, n)
      BY DEF WireInv
    <2> QED  BY <1>1, <2>1, RowsTyped
  <1>3. batch_error' = [batch_error EXCEPT ![c] = batch_error[c]]
    BY <1>1, SameOf
  <1>4. WireInv' /\ Stay /\ Tells(c, type, Went(type, PgQuery(sql) \o ready), ReadAs(sql))
    BY <1>1, <1>2, <1>3, PlainKeeps
  <1> QED  BY <1>1, <1>4

(* The messages.                                                             *)
LEMMA ParseStep ==
    ASSUME WireInv, NEW c \in Clients, NEW n \in Names, NEW text \in Texts, HandleParse(c, n, text)
    PROVE  WireInv' /\ Protocol!Next
  <1>1. Reads(c) /\ ~batch_error[c] /\ phase' = [phase EXCEPT ![c] = "loop"]
    BY DEF HandleParse, Batched, Reads, Go
  <1> DEFINE sl == prepared[c]
  <1>2. FindOrAllocPrepared(c, n) =
            IF First(Named(sl, n)) # {} THEN First(Named(sl, n)) ELSE First(Unused(sl))
    BY DEF FindOrAllocPrepared, FindPrepared
  <1>3. ASSUME NEW i \in FindOrAllocPrepared(c, n),
               prepared' = [prepared EXCEPT ![c][i] = [name |-> n, sql |-> text, in_use |-> TRUE]],
               Tagged(c, "P", "1"), portals' = portals
        PROVE  WireInv' /\ Protocol!Next
    <2> DEFINE t == [sl EXCEPT ![i] = [name |-> n, sql |-> text, in_use |-> TRUE]]
    <2>1. Puts(sl, t, n, text)
      <3>1. GoodSlots(sl)
        BY SameOf
      <3>2. i \in IF First(Named(sl, n)) # {} THEN First(Named(sl, n)) ELSE First(Unused(sl))
        BY <1>2, <1>3
      <3> HIDE DEF sl
      <3> QED  BY <3>1, <3>2, ParsedSlot
    <2>2. prepared' = [prepared EXCEPT ![c] = t]
      BY <1>3 DEF WireInv, OnClients
    <2> HIDE DEF t
    <2>3. Sts' = [Sts EXCEPT ![c][n] = text] /\ Follow(c, n)
      BY <1>3, <2>1, <2>2, SlotsChange
    <2>4. /\ batch_error' = batch_error /\ rows' = rows /\ Answer(c, "P", NoSql, <<<<"1">>>>)
      BY <1>3 DEF Tagged
    <2>5. Tells(c, "P", "done", NoSql)
      BY <2>4, SameOf, Answered, WentDone, ReadNothing
    <2>6. Protocol!Next
      BY <1>1, <2>3, <2>4, <2>5, ParseMaps
    <2>7. \E k : Cells(rows', k)
      BY <2>4 DEF WireInv
    <2>8. /\ portals' = [portals EXCEPT ![c] = portals[c]]
          /\ batch_error' = [batch_error EXCEPT ![c] = batch_error[c]]
      BY <1>3, <2>4, SameOf
    <2>9. WireInv'
      <3>1. GoodSlots(t)
        BY <2>1 DEF Puts
      <3> QED  BY <1>1, <3>1, <2>2, <2>4, <2>7, <2>8, SameOf, MessageKeeps
    <2> QED  BY <2>6, <2>9
  <1>4. ASSUME FindOrAllocPrepared(c, n) = {}, Refuse(c, "P", "53000")
        PROVE  WireInv' /\ Protocol!Next
    <2>1. /\ WireInv' /\ Stay /\ Tells(c, "P", "failed", NoSql)
          /\ batch_error' = [batch_error EXCEPT ![c] = TRUE]
      BY <1>1, <1>4, RefuseKeeps, WentDone
    <2>2. First(Named(sl, n)) = {} /\ First(Unused(sl)) = {}
      BY <1>2, <1>4
    <2>3. TextOf(sl, n) = NoSql /\ Cardinality({m \in Names : TextOf(sl, m) # NoSql}) = MaxPrepared
      BY <2>2, SameOf, NoSlotLeft
    <2>4. Sts[c][n] = NoSql /\ HeldIn(Sts[c]) = {m \in Names : TextOf(sl, m) # NoSql}
      BY <2>3, Seen DEF HeldIn
    <2> QED  BY <1>1, <2>1, <2>3, <2>4, ParseFailMaps
  <1> QED  BY <1>3, <1>4 DEF HandleParse

LEMMA BindStep ==
    ASSUME WireInv, NEW c \in Clients, NEW p \in Names, NEW n \in Names, NEW values \in Values,
           HandleBind(c, p, n, values)
    PROVE  WireInv' /\ Protocol!Next
  <1>1. Reads(c) /\ ~batch_error[c] /\ phase' = [phase EXCEPT ![c] = "loop"]
    BY DEF HandleBind, Batched, Reads, Go
  <1> DEFINE sl == prepared[c]
  <1> DEFINE po == portals[c]
  <1>2. /\ FindPrepared(c, n) = First(Named(sl, n))
        /\ FindOrAllocPortal(c, p) =
                IF First(Named(po, p)) # {} THEN First(Named(po, p)) ELSE First(Unused(po))
    BY DEF FindOrAllocPortal, FindPortal, FindPrepared
  <1>3. ASSUME FindPrepared(c, n) = {}, Refuse(c, "B", "26000")  PROVE WireInv' /\ Protocol!Next
    <2>1. /\ WireInv' /\ Stay /\ Tells(c, "B", "failed", NoSql)
          /\ batch_error' = [batch_error EXCEPT ![c] = TRUE]
      BY <1>1, <1>3, RefuseKeeps, WentDone
    <2>2. Sts[c][n] = NoSql
      BY <1>2, <1>3, Seen DEF TextOf
    <2> QED  BY <1>1, <2>1, <2>2, BindFailMaps
  <1>4. ASSUME NEW i \in FindPrepared(c, n), NEW j \in FindOrAllocPortal(c, p),
               portals' = [portals EXCEPT ![c][j] =
                            [name |-> p, prep |-> i, values |-> values, in_use |-> TRUE]],
               Tagged(c, "B", "2"), prepared' = prepared
        PROVE  WireInv' /\ Protocol!Next
    <2> DEFINE q == [po EXCEPT ![j] = [name |-> p, prep |-> i, values |-> values, in_use |-> TRUE]]
    <2>1. Apart(sl, MaxPrepared) /\ MaxPrepared \in Nat
      BY SameOf, WireAssumption DEF GoodSlots
    <2>2. i \in 1..MaxPrepared /\ StandsAt(sl, n, i)
      BY <2>1, <1>2, NamedAt
    <2>3. Binds(sl, po, q, p, [text |-> sl[i].sql, values |-> values])
      <3>1. GoodPortals(po)
        BY SameOf
      <3>2. j \in IF First(Named(po, p)) # {} THEN First(Named(po, p)) ELSE First(Unused(po))
        BY <1>2, <1>4
      <3> HIDE DEF po, sl
      <3> QED  BY <2>2, <3>1, <3>2, BoundPortal
    <2>4. portals' = [portals EXCEPT ![c] = q]
      BY <1>4 DEF WireInv, OnClients
    <2>5. Sts[c][n] = sl[i].sql /\ sl[i].sql # NoSql
      <3>1. TextOf(sl, n) = sl[i].sql
        BY <2>1, <2>2, TextAt
      <3>2. sl[i].sql \in Texts
        BY <2>2, SameOf DEF GoodSlots, StandsAt
      <3> QED  BY <3>1, <3>2, Seen, NoSqlApart
    <2> HIDE DEF q
    <2>6. Sts' = Sts /\ Bds' = [Bds EXCEPT ![c][p] = [text |-> Sts[c][n], values |-> values]]
      <3>1. PICK it : it = [text |-> sl[i].sql, values |-> values]
        OBVIOUS
      <3>2. Rebinds(c, p, q, it)
        BY <1>4, <2>3, <2>4, <3>1 DEF Rebinds
      <3>3. Sts' = Sts /\ Bds' = [Bds EXCEPT ![c][p] = it]
        BY <3>2, PortalsChange
      <3> QED  BY <3>1, <3>3, <2>5
    <2>7. /\ batch_error' = batch_error /\ rows' = rows /\ Answer(c, "B", NoSql, <<<<"2">>>>)
      BY <1>4 DEF Tagged
    <2>8. Tells(c, "B", "done", NoSql)
      BY <2>7, SameOf, Answered, WentDone, ReadNothing
    <2>9. Protocol!Next
      BY <1>1, <2>5, <2>6, <2>7, <2>8, BindMaps
    <2>10. \E k : Cells(rows', k)
      BY <2>7 DEF WireInv
    <2>11. /\ prepared' = [prepared EXCEPT ![c] = prepared[c]]
           /\ batch_error' = [batch_error EXCEPT ![c] = batch_error[c]]
      BY <1>4, <2>7, SameOf
    <2>12. WireInv'
      <3>1. GoodPortals(q)
        BY <2>3 DEF Binds
      <3> QED  BY <1>1, <3>1, <2>4, <2>7, <2>10, <2>11, SameOf, MessageKeeps
    <2> QED  BY <2>9, <2>12
  <1>5. ASSUME FindOrAllocPortal(c, p) = {}, Refuse(c, "B", "53000")  PROVE WireInv' /\ Protocol!Next
    <2>1. /\ WireInv' /\ Stay /\ Tells(c, "B", "failed", NoSql)
          /\ batch_error' = [batch_error EXCEPT ![c] = TRUE]
      BY <1>1, <1>5, RefuseKeeps, WentDone
    <2>2. First(Named(po, p)) = {} /\ First(Unused(po)) = {}
      BY <1>2, <1>5
    <2>3. /\ PortalOf(sl, po, p) = NoSql
          /\ Cardinality({m \in Names : PortalOf(sl, po, m) # NoSql}) = MaxPortals
      BY <2>2, SameOf, NoPortalLeft
    <2>4. Bds[c][p] = NoSql /\ HeldIn(Bds[c]) = {m \in Names : PortalOf(sl, po, m) # NoSql}
      BY <2>3, Seen DEF HeldIn
    <2> QED  BY <1>1, <2>1, <2>3, <2>4, BindFailMaps
  <1> QED  BY <1>3, <1>4, <1>5 DEF HandleBind

LEMMA NothingMore == \A a : Answering(a) => a \o <<>> = a
  <1> TAKE a
  <1>1. ASSUME NEW S, a \in Seq(S)  PROVE a \o <<>> = a
    BY <1>1, ConcatEmptySeq
  <1> QED  BY <1>1 DEF Answering

LEMMA ExecuteStep ==
    ASSUME WireInv, NEW c \in Clients, NEW p \in Names, HandleExecute(c, p)
    PROVE  WireInv' /\ WireMay
  <1>1. Reads(c) /\ ~batch_error[c]
    BY DEF HandleExecute, Batched
  <1> DEFINE sl == prepared[c]
  <1> DEFINE po == portals[c]
  <1>2. FindPortal(c, p) = First(Named(po, p)) /\ Bds[c][p] = PortalOf(sl, po, p)
    BY Seen DEF FindPortal
  <1>3. ASSUME FindPortal(c, p) = {}, Refuse(c, "E", "26000")  PROVE WireInv' /\ WireMay
    <2>1. /\ WireInv' /\ Stay /\ Tells(c, "E", "failed", NoSql)
          /\ batch_error' = [batch_error EXCEPT ![c] = TRUE]
      BY <1>1, <1>3, RefuseKeeps, WentDone
    <2>2. Bds[c][p] = NoSql
      BY <1>2, <1>3 DEF PortalOf
    <2> QED  BY <1>1, <2>1, <2>2, ExecuteFailMaps DEF WireMay
  <1>4. ASSUME NEW j \in FindPortal(c, p)
        PROVE  /\ po[j].prep \in 1..MaxPrepared /\ po[j].values \in Values
               /\ Bds[c][p] = [text |-> sl[po[j].prep].sql, values |-> po[j].values]
               /\ sl[po[j].prep].sql \in Texts \union {NoSql}
    <2>1. Apart(po, MaxPortals) /\ MaxPortals \in Nat
      BY SameOf, WireAssumption DEF GoodPortals
    <2>2. j \in 1..MaxPortals /\ StandsAt(po, p, j)
      BY <2>1, <1>2, NamedAt
    <2>3. po[j].prep \in 1..MaxPrepared /\ po[j].values \in Values
      BY <2>2, SameOf DEF GoodPortals, StandsAt
    <2>4. PortalOf(sl, po, p) = [text |-> sl[po[j].prep].sql, values |-> po[j].values]
      BY <2>1, <2>2, PortalAt
    <2>5. sl[po[j].prep].sql \in Texts \union {NoSql}
      BY <2>3, SameOf DEF GoodSlots
    <2> QED  BY <1>2, <2>3, <2>4, <2>5
  <1>5. ASSUME NEW j \in FindPortal(c, p), NEW sql, sql = sl[po[j].prep].sql, sql = NoSql,
               Refuse(c, "E", "26000")
        PROVE  WireInv' /\ WireMay
    <2>1. /\ WireInv' /\ Stay /\ Tells(c, "E", "failed", NoSql)
          /\ batch_error' = [batch_error EXCEPT ![c] = TRUE]
      BY <1>1, <1>5, RefuseKeeps, WentDone
    <2>2. Bds[c][p].text = NoSql
      <3>1. PICK values : Bds[c][p] = [text |-> sql, values |-> values]
        BY <1>4, <1>5
      <3> QED  BY <1>5, <3>1
    <2> QED  BY <1>1, <2>1, <2>2, ExecuteFailMaps DEF WireMay
  <1>6. ASSUME NEW j \in FindPortal(c, p), NEW sql, sql = sl[po[j].prep].sql, sql # NoSql,
               Runs(c, "E", FinalSql(sql, po[j].values), <<>>)
        PROVE  WireInv' /\ WireMay
    <2>1. PICK values : values = po[j].values
      OBVIOUS
    <2>2. PICK final : final = FinalSql(sql, values)
      OBVIOUS
    <2>3. IsText(sql) /\ values \in Values /\ Bds[c][p] = [text |-> sql, values |-> values]
      BY <1>4, <1>6, <2>1, TextsTyped
    <2>4. IsText(final) /\ ReadAs(final) = Meant(sql, values)
      BY <2>2, <2>3, FinalTyped, FinalIsMeant
    <2>5. Runs(c, "E", final, <<>>)
      BY <1>6, <2>1, <2>2
    <2>6. /\ WireInv' /\ Stay /\ Tells(c, "E", Went("E", PgQuery(final) \o <<>>), ReadAs(final))
          /\ batch_error' = batch_error
      BY <1>1, <2>5, RunsKeeps
    <2>7. Answering(PgQuery(final))
      BY <2>4, QueryAnswers DEF WireInv
    <2>8. Went("E", PgQuery(final) \o <<>>) \in {"done", "failed"}
      BY <2>7, NothingMore, WentAnswering
    <2>9. PICK how \in {"done", "failed"} : Tells(c, "E", how, Meant(sql, values))
      BY <2>4, <2>6, <2>8
    <2>10. Bds[c][p] # NoSql /\ Bds[c][p].text = sql /\ Bds[c][p].values = values
      BY <2>3, NoSqlApart
    <2> QED  BY <1>1, <1>6, <2>6, <2>9, <2>10, ExecuteMaps
  <1> QED  BY <1>3, <1>5, <1>6 DEF HandleExecute

LEMMA CloseStep ==
    ASSUME WireInv, NEW c \in Clients, NEW kind, NEW n \in Names, HandleClose(c, kind, n)
    PROVE  WireInv' /\ Protocol!Next
  <1>1. Reads(c) /\ ~batch_error[c] /\ phase' = [phase EXCEPT ![c] = "loop"]
    BY DEF HandleClose, Batched, Reads, Go
  <1>2. /\ batch_error' = batch_error /\ rows' = rows /\ Answer(c, "C", NoSql, <<<<"3">>>>)
    BY DEF HandleClose, Tagged
  <1>3. Tells(c, "C", "done", NoSql)
    BY <1>2, SameOf, Answered, WentDone, ReadNothing
  <1>4. (\E k : Cells(rows', k)) /\ batch_error' = [batch_error EXCEPT ![c] = batch_error[c]]
    BY <1>2, SameOf DEF WireInv
  <1> DEFINE sl == prepared[c]
  <1> DEFINE po == portals[c]
  <1>5. FindPrepared(c, n) = First(Named(sl, n)) /\ FindPortal(c, n) = First(Named(po, n))
    BY DEF FindPrepared, FindPortal
  <1>6. ASSUME NEW i \in FindPrepared(c, n), PreparedRelease(c, i), portals' = portals
        PROVE  WireInv' /\ Protocol!Next
    <2> DEFINE t == [sl EXCEPT ![i] = FreeSlot]
    <2>1. Puts(sl, t, n, NoSql) /\ GoodSlots(t)
      <3>1. GoodSlots(sl) /\ i \in First(Named(sl, n))
        BY <1>5, <1>6, SameOf
      <3> HIDE DEF sl
      <3>2. Puts(sl, t, n, NoSql)
        BY <3>1, ClosedSlot
      <3> QED  BY <3>2 DEF Puts
    <2>2. prepared' = [prepared EXCEPT ![c] = t]
      BY <1>6 DEF WireInv, OnClients, PreparedRelease
    <2> HIDE DEF t
    <2>4. Sts' = [Sts EXCEPT ![c][n] = NoSql] /\ Follow(c, n)
      BY <1>6, <2>1, <2>2, SlotsChange
    <2>5. Protocol!Next
      BY <1>1, <1>2, <1>3, <2>1, <2>4, CloseMaps
    <2>6. portals' = [portals EXCEPT ![c] = portals[c]]
      BY <1>6, SameOf
    <2>7. WireInv'
      BY <1>1, <1>2, <1>4, <2>1, <2>2, <2>6, SameOf, MessageKeeps
    <2> QED  BY <2>5, <2>7
  <1>7. ASSUME NEW j \in FindPortal(c, n), PortalRelease(c, j), prepared' = prepared
        PROVE  WireInv' /\ Protocol!Next
    <2> DEFINE q == [po EXCEPT ![j] = FreePortal]
    <2>1. Binds(sl, po, q, n, NoSql) /\ GoodPortals(q)
      <3>1. GoodPortals(po) /\ j \in First(Named(po, n))
        BY <1>5, <1>7, SameOf
      <3> HIDE DEF sl, po
      <3>2. Binds(sl, po, q, n, NoSql)
        BY <3>1, ClosedPortal
      <3> QED  BY <3>2 DEF Binds
    <2>2. portals' = [portals EXCEPT ![c] = q]
      BY <1>7 DEF WireInv, OnClients, PortalRelease
    <2> HIDE DEF q
    <2>3. Sts' = Sts /\ Bds' = [Bds EXCEPT ![c][n] = NoSql]
      <3>1. Rebinds(c, n, q, NoSql)
        BY <1>7, <2>1, <2>2 DEF Rebinds
      <3> QED  BY <3>1, PortalsChange
    <2>4. Protocol!Next
      BY <1>1, <1>2, <1>3, <2>1, <2>3, CloseMaps
    <2>5. prepared' = [prepared EXCEPT ![c] = prepared[c]]
      BY <1>7, SameOf
    <2>6. WireInv'
      BY <1>1, <1>2, <1>4, <2>1, <2>2, <2>5, SameOf, MessageKeeps
    <2> QED  BY <2>4, <2>6
  <1>8. ASSUME prepared' = prepared, portals' = portals,
               FindPrepared(c, n) = {} \/ FindPortal(c, n) = {}
        PROVE  WireInv' /\ Protocol!Next
    <2>1. WireInv' /\ Stay
      BY <1>1, <1>2, <1>4, <1>8, PlainKeeps
    <2>2. CASE FindPrepared(c, n) = {}
      <3>1. Sts[c][n] = NoSql
        BY <1>5, <2>2, Seen DEF TextOf
      <3>2. Sts' = [Sts EXCEPT ![c][n] = NoSql]
        BY <2>1, <3>1 DEF Stay, Sts
      <3>3. Follow(c, n)
        BY <2>1 DEF Stay, Follow
      <3> QED  BY <1>1, <1>2, <1>3, <2>1, <3>2, <3>3, CloseMaps
    <2>3. CASE FindPortal(c, n) = {}
      <3>1. Bds[c][n] = NoSql
        BY <1>5, <2>3, Seen DEF PortalOf
      <3>2. Sts' = Sts /\ Bds' = [Bds EXCEPT ![c][n] = NoSql]
        BY <2>1, <3>1 DEF Stay, Bds
      <3> QED  BY <1>1, <1>2, <1>3, <2>1, <3>2, CloseMaps
    <2> QED  BY <1>8, <2>2, <2>3
  <1> QED  BY <1>6, <1>7, <1>8 DEF HandleClose

LEMMA OtherSteps ==
    ASSUME WireInv, NEW c \in Clients,
           \/ \E type \in {"P", "B", "D", "E"} : Malformed(c, type)
           \/ \E type \in {"P", "B", "D", "E", "C"} : Skipped(c, type)
           \/ \E text \in Texts : SimpleQuery(c, text)
           \/ HandleDescribe(c) \/ Sync(c)
           \/ \E known \in BOOLEAN : Other(c, known)
    PROVE  WireInv' /\ Protocol!Next
  <1>1. ASSUME NEW type \in {"P", "B", "D", "E"}, Malformed(c, type)
        PROVE  WireInv' /\ Protocol!Next
    <2>1. PICK code : code = IF type = "B" THEN "0A000" ELSE "08P01"
      OBVIOUS
    <2>2. Reads(c) /\ ~batch_error[c] /\ Refuse(c, type, code)
      BY <1>1, <2>1 DEF Malformed, Batched
    <2>3. /\ WireInv' /\ Stay /\ Tells(c, type, Went(type, Error(code)), NoSql)
          /\ batch_error' = [batch_error EXCEPT ![c] = TRUE]
      BY <2>2, RefuseKeeps
    <2>4. Went(type, Error(code)) = "malformed"
      BY <2>1, WentDone
    <2> QED  BY <2>2, <2>3, <2>4, MalformedMaps
  <1>2. ASSUME NEW type \in {"P", "B", "D", "E", "C"}, Skipped(c, type)
        PROVE  WireInv' /\ Protocol!Next
    <2>1. /\ Reads(c) /\ batch_error[c] /\ Answer(c, type, NoSql, <<>>) /\ rows' = rows
          /\ prepared' = prepared /\ portals' = portals /\ batch_error' = batch_error
      BY <1>2 DEF Skipped, conn
    <2>2. (\E n : Cells(rows', n)) /\ batch_error' = [batch_error EXCEPT ![c] = batch_error[c]]
      BY <2>1, SameOf DEF WireInv
    <2>3. WireInv' /\ Stay /\ Tells(c, type, Went(type, <<>>), ReadAs(NoSql))
      BY <2>1, <2>2, PlainKeeps
    <2>4. Tells(c, type, "skipped", NoSql)
      BY <2>3, WentDone, ReadNothing
    <2> QED  BY <2>1, <2>3, <2>4, KeepsMaps
  <1>3. ASSUME NEW text \in Texts, SimpleQuery(c, text)
        PROVE  WireInv' /\ Protocol!Next
    <2>1. Reads(c) /\ Runs(c, "Q", text, Ready("I"))
      BY <1>3 DEF SimpleQuery
    <2>2. /\ WireInv' /\ Stay /\ batch_error' = batch_error
          /\ Tells(c, "Q", Went("Q", PgQuery(text) \o Ready("I")), ReadAs(text))
      BY <2>1, RunsKeeps
    <2>3. Answering(PgQuery(text))
      BY TextsTyped, QueryAnswers DEF WireInv
    <2>4. ReadAs(text) = Meant(text, <<>>)
      BY DEF Meant
    <2>5. PICK how \in {"done", "failed"} : Tells(c, "Q", how, Meant(text, <<>>))
      BY <2>2, <2>3, <2>4, WentAnswering
    <2> QED  BY <2>2, <2>5, QueryMaps
  <1>4. ASSUME HandleDescribe(c)  PROVE WireInv' /\ Protocol!Next
    <2>1. /\ Reads(c) /\ ~batch_error[c] /\ Answer(c, "D", NoSql, <<<<"n">>>>) /\ rows' = rows
          /\ prepared' = prepared /\ portals' = portals /\ batch_error' = batch_error
      BY <1>4 DEF HandleDescribe, Batched, Tagged
    <2>2. (\E n : Cells(rows', n)) /\ batch_error' = [batch_error EXCEPT ![c] = batch_error[c]]
      BY <2>1, SameOf DEF WireInv
    <2>3. WireInv' /\ Stay /\ Tells(c, "D", Went("D", <<<<"n">>>>), ReadAs(NoSql))
      BY <2>1, <2>2, PlainKeeps
    <2>4. Tells(c, "D", "done", NoSql)
      BY <2>3, WentDone, ReadNothing
    <2> QED  BY <2>1, <2>3, <2>4, KeepsMaps
  <1>5. ASSUME Sync(c)  PROVE WireInv' /\ Protocol!Next
    <2>1. PICK answers : answers = Ready(IF batch_error[c] THEN "E" ELSE "I")
      OBVIOUS
    <2>2. /\ Reads(c) /\ Answer(c, "S", NoSql, answers) /\ rows' = rows
          /\ prepared' = prepared /\ portals' = portals
          /\ batch_error' = [batch_error EXCEPT ![c] = FALSE]
      BY <1>5, <2>1 DEF Sync, AfterSync
    <2>3. \E n : Cells(rows', n)
      BY <2>2 DEF WireInv
    <2>4. WireInv' /\ Stay /\ Tells(c, "S", Went("S", answers), ReadAs(NoSql))
      BY <2>2, <2>3, PlainKeeps
    <2>5. Tells(c, "S", "done", NoSql)
      BY <2>4, WentDone, ReadNothing
    <2> QED  BY <2>2, <2>4, <2>5, EndMaps
  <1>6. ASSUME NEW known \in BOOLEAN, Other(c, known)  PROVE WireInv' /\ Protocol!Next
    <2>1. PICK answers : answers = IF known THEN <<>> ELSE Error("08P01") \o Ready("I")
      OBVIOUS
    <2>2. /\ Reads(c) /\ Answer(c, "H", NoSql, answers) /\ rows' = rows
          /\ prepared' = prepared /\ portals' = portals /\ batch_error' = batch_error
      BY <1>6, <2>1 DEF Other, conn
    <2>3. (\E n : Cells(rows', n)) /\ batch_error' = [batch_error EXCEPT ![c] = batch_error[c]]
      BY <2>2, SameOf DEF WireInv
    <2>4. WireInv' /\ Stay /\ Tells(c, "H", Went("H", answers), ReadAs(NoSql))
      BY <2>2, <2>3, PlainKeeps
    <2>5. Tells(c, "H", "done", NoSql)
      BY <2>4, WentDone, ReadNothing
    <2> QED  BY <2>2, <2>4, <2>5, KeepsMaps
  <1> QED  BY <1>1, <1>2, <1>3, <1>4, <1>5, <1>6

Early == {"none", "startup", "plain", "password"}

LEMMA PhaseKeeps ==
    ASSUME WireInv, NEW c \in Clients, NEW p, Go(c, p), p \in Early => phase[c] \in Early,
           UNCHANGED <<prepared, portals, batch_error, rows>>,
           OnClients(handed)', OnClients(said)'
    PROVE  WireInv'
  <1>1. phase' = [d \in Clients |-> IF d = c THEN p ELSE phase[d]]
    BY DEF Go, WireInv, OnClients
  <1>2. \A d \in Clients : phase'[d] \in Early => phase[d] \in Early
    BY <1>1
  <1>3. \A d \in Clients : phase'[d] \in Early =>
          prepared'[d] = Slots /\ portals'[d] = PortalSlots /\ batch_error'[d] = FALSE
    BY <1>2 DEF WireInv, Early
  <1>4. OnClients(phase)'
    BY <1>1 DEF OnClients
  <1>5. OnClients(prepared)' /\ OnClients(portals)' /\ OnClients(batch_error)'
    BY DEF WireInv, OnClients
  <1>6. \A d \in Clients : GoodSlots(prepared'[d]) /\ GoodPortals(portals'[d])
    BY DEF WireInv
  <1>7. \E n : Cells(rows', n)
    BY DEF WireInv
  <1> QED  BY <1>3, <1>4, <1>5, <1>6, <1>7 DEF WireInv, Early

LEMMA ConnectSteps ==
    ASSUME WireInv, NEW c \in Clients,
           \/ Accept(c) \/ LoopHead(c) \/ HangUp(c)
           \/ \E m \in {"ssl", "login", "cancel"} : ReadStartup(c, m)
    PROVE  WireInv' /\ UNCHANGED Protocol!vars
  <1>1. /\ UNCHANGED <<prepared, portals, batch_error, handed, said, rows>>
        /\ \E p : Go(c, p) /\ (p \in Early => phase[c] \in Early)
    <2>1. CASE Accept(c)
      BY <2>1 DEF Accept, conn, Early
    <2>2. CASE LoopHead(c)
      <3>1. (IF running THEN "reading" ELSE "over") \notin Early
        BY DEF Early
      <3> QED  BY <2>2, <3>1 DEF LoopHead, conn
    <2>3. CASE HangUp(c)
      <3>1. "over" \notin Early
        BY DEF Early
      <3> QED  BY <2>3, <3>1 DEF HangUp, conn
    <2>4. ASSUME NEW m \in {"ssl", "login", "cancel"}, ReadStartup(c, m)
          PROVE  /\ UNCHANGED <<prepared, portals, batch_error, handed, said, rows>>
                 /\ \E p : Go(c, p) /\ (p \in Early => phase[c] \in Early)
      BY <2>4 DEF ReadStartup, conn, Early
    <2> QED  BY <2>1, <2>2, <2>3, <2>4
  <1>2. OnClients(handed)' /\ OnClients(said)'
    BY <1>1 DEF WireInv, OnClients
  <1>3. WireInv'
    BY <1>1, <1>2, PhaseKeeps
  <1> QED  BY <1>1, <1>3, StaySeen, StutterMaps

LEMMA PasswordStep ==
    ASSUME WireInv, NEW c \in Clients, NEW user, NEW password, HandlePassword(c, user, password)
    PROVE  WireInv' /\ Protocol!Next
  <1>1. PICK answers : \E p \in {"loop", "over"} : Go(c, p) /\ Answer(c, "X", NoSql, answers)
    BY DEF HandlePassword
  <1>0. PICK p \in {"loop", "over"} : Go(c, p) /\ Answer(c, "X", NoSql, answers)
    BY <1>1
  <1>2. phase[c] = "password" /\ UNCHANGED <<prepared, portals, batch_error, rows>>
    BY DEF HandlePassword, conn
  <1>3. OnClients(handed)' /\ OnClients(said)'
    BY <1>0, SameOf, Answered DEF OnClients
  <1>4. WireInv'
    <2>1. p \notin Early
      BY DEF Early
    <2> QED  BY <1>0, <1>2, <1>3, <2>1, PhaseKeeps
  <1>5. Tells(c, "X", "done", NoSql)
    BY <1>0, SameOf, Answered, WentDone, ReadNothing
  <1>6. prepared[c] = Slots /\ portals[c] = PortalSlots /\ batch_error[c] = FALSE
    BY <1>2 DEF WireInv
  <1>7. batch_error' = [batch_error EXCEPT ![c] = FALSE]
    BY <1>2, <1>6, SameOf
  <1>8. \A n \in Names : Sts[c][n] = NoSql /\ Bds[c][n] = NoSql
    BY <1>6, Seen, EmptySlots
  <1>9. Stay
    BY <1>2, StaySeen
  <1>10. Sts' = [Sts EXCEPT ![c] = [n \in Names |-> NoSql]]
    BY <1>8, <1>9 DEF Stay, Sts
  <1>11. Bds' = [Bds EXCEPT ![c] = [n \in Names |-> NoSql]]
    BY <1>8, <1>9 DEF Stay, Bds
  <1> QED  BY <1>4, <1>5, <1>7, <1>10, <1>11, EndMaps

LEMMA DoneStep ==
    ASSUME WireInv, NEW c \in Clients, Done(c)
    PROVE  WireInv' /\ Protocol!Next
  <1>1. /\ Go(c, "none") /\ rows' = rows /\ Answer(c, "X", NoSql, <<>>)
        /\ prepared' = [prepared EXCEPT ![c] = Slots]
        /\ portals' = [portals EXCEPT ![c] = PortalSlots]
        /\ batch_error' = [batch_error EXCEPT ![c] = FALSE]
    BY DEF Done
  <1>2. /\ phase' = [d \in Clients |-> IF d = c THEN "none" ELSE phase[d]]
        /\ prepared' = [d \in Clients |-> IF d = c THEN Slots ELSE prepared[d]]
        /\ portals' = [d \in Clients |-> IF d = c THEN PortalSlots ELSE portals[d]]
        /\ batch_error' = [d \in Clients |-> IF d = c THEN FALSE ELSE batch_error[d]]
    BY <1>1 DEF Go, WireInv, OnClients
  <1>3. WireInv'
    <2>1. OnClients(handed)' /\ OnClients(said)'
      BY <1>1, SameOf, Answered DEF OnClients
    <2>2. OnClients(phase)' /\ OnClients(prepared)' /\ OnClients(portals)' /\ OnClients(batch_error)'
      BY <1>2 DEF OnClients
    <2>3. \A d \in Clients : GoodSlots(prepared'[d]) /\ GoodPortals(portals'[d])
      BY <1>2, EmptySlots DEF WireInv
    <2>4. \A d \in Clients : phase'[d] \in {"none", "startup", "plain", "password"} =>
            prepared'[d] = Slots /\ portals'[d] = PortalSlots /\ batch_error'[d] = FALSE
      BY <1>2 DEF WireInv
    <2>5. \E n : Cells(rows', n)
      BY <1>1 DEF WireInv
    <2> QED  BY <2>1, <2>2, <2>3, <2>4, <2>5 DEF WireInv
  <1>4. Tells(c, "X", "done", NoSql)
    BY <1>1, SameOf, Answered, WentDone, ReadNothing
  <1>5. Sts' = [Sts EXCEPT ![c] = [n \in Names |-> NoSql]]
    <2>1. Sts' = [d \in Clients |-> [n \in Names |->
                    IF d = c THEN NoSql ELSE TextOf(prepared[d], n)]]
      BY <1>2, Seen, EmptySlots
    <2> QED  BY <2>1, Seen
  <1>6. Bds' = [Bds EXCEPT ![c] = [n \in Names |-> NoSql]]
    <2>1. Bds' = [d \in Clients |-> [n \in Names |->
                    IF d = c THEN NoSql ELSE PortalOf(prepared[d], portals[d], n)]]
      BY <1>2, Seen, EmptySlots
    <2> QED  BY <2>1, Seen
  <1> QED  BY <1>1, <1>3, <1>4, <1>5, <1>6, EndMaps

LEMMA WireInitMaps == WireInit => WireInv /\ Protocol!Init
  <1> SUFFICES ASSUME WireInit  PROVE WireInv /\ Protocol!Init
    OBVIOUS
  <1>1. WireInv
    <2>1. \A c \in Clients : prepared[c] = Slots /\ portals[c] = PortalSlots /\ batch_error[c] = FALSE
      BY DEF WireInit
    <2>2. \A c \in Clients : GoodSlots(prepared[c]) /\ GoodPortals(portals[c])
      BY <2>1, EmptySlots
    <2>3. Cells(rows, Len(rows))
      <3>1. rows \in Seq(STRING)
        BY WireAssumption DEF WireInit
      <3> QED  BY <3>1 DEF Cells
    <2>4. /\ OnClients(phase) /\ OnClients(prepared) /\ OnClients(portals) /\ OnClients(batch_error)
          /\ OnClients(handed) /\ OnClients(said)
      BY DEF WireInit, OnClients
    <2> QED  BY <2>1, <2>2, <2>3, <2>4 DEF WireInv
  <1>2. Sts = [c \in Clients |-> Protocol!Nothing] /\ Bds = [c \in Clients |-> Protocol!Nothing]
    BY Seen, EmptySlots DEF WireInit, Protocol!Nothing
  <1>3. Ran = [c \in Clients |-> NoSql]
    BY ReadNothing DEF Ran, WireInit
  <1>4. Rep = [c \in Clients |-> <<"X", "done">>]
    BY WentDone DEF Rep, WireInit
  <1>5. batch_error = [c \in Clients |-> FALSE]
    BY DEF WireInit
  <1> QED  BY <1>1, <1>2, <1>3, <1>4, <1>5 DEF Protocol!Init, Sts, Bds, Ran, Rep

LEMMA WireStep ==
    ASSUME WireInv, [WireNext]_wireVars
    PROVE  WireInv' /\ (WireMay \/ UNCHANGED Protocol!vars)
  <1>1. ASSUME NEW c \in Clients, Message(c)  PROVE WireInv' /\ WireMay
    BY <1>1, ParseStep, BindStep, ExecuteStep, CloseStep, OtherSteps DEF Message, WireMay
  <1>2. ASSUME NEW c \in Clients,
               \/ Accept(c) \/ LoopHead(c) \/ HangUp(c)
               \/ \E m \in {"ssl", "login", "cancel"} : ReadStartup(c, m)
        PROVE  WireInv' /\ UNCHANGED Protocol!vars
    BY <1>2, ConnectSteps
  <1>3. ASSUME NEW c \in Clients, Done(c)  PROVE WireInv' /\ Protocol!Next
    BY <1>3, DoneStep
  <1>4. ASSUME NEW c \in Clients, NEW user, NEW password, HandlePassword(c, user, password)
        PROVE  WireInv' /\ Protocol!Next
    BY <1>4, PasswordStep
  <1>5. ASSUME \/ Stop
               \/ \E cells \in Loads : Elsewhere(cells)
               \/ UNCHANGED wireVars
        PROVE  WireInv' /\ UNCHANGED Protocol!vars
    <2>1. UNCHANGED <<phase, prepared, portals, batch_error, handed, said>>
      BY <1>5 DEF Stop, Elsewhere, wireVars, conn
    <2>2. \E n : Cells(rows', n)
      <3>1. CASE rows' = rows
        BY <3>1 DEF WireInv
      <3>2. ASSUME NEW cells \in Loads, rows' = cells  PROVE \E n : Cells(rows', n)
        <4>1. cells \in Seq(STRING)
          BY WireAssumption
        <4>2. Cells(cells, Len(cells))
          BY <4>1 DEF Cells
        <4> QED  BY <3>2, <4>2
      <3> QED  BY <1>5, <3>1, <3>2 DEF Stop, Elsewhere, wireVars, conn
    <2>3. WireInv'
      BY <2>1, <2>2 DEF WireInv, OnClients
    <2> QED  BY <2>1, <2>3, StaySeen, StutterMaps
  <1> QED  BY <1>1, <1>2, <1>3, <1>4, <1>5 DEF WireNext, WireMay

(* The handlers of pgwire.c keep what a client of the protocol relies on,    *)
(* however many connections, names and slots there are and whatever texts    *)
(* are parsed and values bound: an Execute hands over the text and the       *)
(* values of its Bind unless the statement is replaced, a full table of      *)
(* slots refuses only new names, and a message the server itself refuses     *)
(* has the rest of its batch skipped up to Sync.  One step is outside the    *)
(* protocol, BatchGoesOn: the error of the engine skips nothing.             *)
THEOREM WireKeepsProtocol == WireSpec => KeepsTheProtocol
  <1>1. WireInit => WireInv /\ Protocol!Init
    BY WireInitMaps
  <1>2. WireInv /\ [WireNext]_wireVars =>
          WireInv' /\ [Protocol!Next \/ \E c \in Clients : BatchGoesOn(c)]_(Protocol!vars)
    BY WireStep DEF WireMay
  <1> QED  BY <1>1, <1>2, PTL DEF WireSpec, KeepsTheProtocol

=============================================================================
