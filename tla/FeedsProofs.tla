----------------------------- MODULE FeedsProofs -----------------------------
(***************************************************************************)
(* Proofs about what feeds the tables and the runs: MatView, KafkaSource,  *)
(* Dimension and Connections, for any values of their constants.  The four *)
(* share no state; each part has its inductive invariant, one lemma for    *)
(* each action that can disturb it, and the theorems it gives:             *)
(*                                                                         *)
(*   MatView      a view that is not stale has what its definition reads;  *)
(*   KafkaSource  a message of the topic is in the table, lost or twice    *)
(*                there only as the commits and the resets explain;        *)
(*   Dimension    the versions of a key are ordered in every state, and a  *)
(*                run that ended well made the target follow the source;   *)
(*   Connections  a stored secret is one that was typed, and a run uses a  *)
(*                session of the record that it looked up.                 *)
(***************************************************************************)
EXTENDS MatView, KafkaSource, Dimension, Connections,
        SequenceTheorems, FiniteSetTheorems, TLAPS

(* A sequence, and what joining two makes.                                   *)
IsList(s) == s \in Seq({s[i] : i \in DOMAIN s})

LEMMA EmptyList == IsList(<<>>) /\ DOMAIN <<>> = {}
  <1>1. DOMAIN <<>> = {} /\ \A S : <<>> \in Seq(S)
    OBVIOUS
  <1> QED  BY <1>1 DEF IsList

Joins(c, s, t) ==
    /\ IsList(c) /\ \A i \in DOMAIN s : c[i] = s[i] /\ i \in DOMAIN c
    /\ \A i \in DOMAIN c : (i \in DOMAIN s /\ c[i] = s[i]) \/ \E j \in DOMAIN t : c[i] = t[j]
    /\ \A j \in DOMAIN t : \E i \in DOMAIN c : c[i] = t[j]
LEMMA ListsTogether ==
    ASSUME NEW s, IsList(s), NEW t, IsList(t)
    PROVE  Joins(s \o t, s, t)
  <1> DEFINE S == {s[i] : i \in DOMAIN s} \union {t[i] : i \in DOMAIN t}
             c == s \o t
  <1>1. \A A, B : A \subseteq B => Seq(A) \subseteq Seq(B)
    OBVIOUS
  <1>2. s \in Seq(S) /\ t \in Seq(S)
    BY <1>1 DEF IsList
  <1> HIDE DEF S
  <1>3. /\ Len(c) = Len(s) + Len(t) /\ Len(s) \in Nat /\ Len(t) \in Nat /\ c \in Seq(S)
        /\ \A i \in 1 .. Len(s) : c[i] = s[i]
        /\ \A i \in Len(s) + 1 .. Len(s) + Len(t) : c[i] = t[i - Len(s)]
        /\ DOMAIN c = 1 .. Len(c) /\ DOMAIN s = 1 .. Len(s) /\ DOMAIN t = 1 .. Len(t)
    BY <1>2
  <1> HIDE DEF c
  <1>4. c \in Seq({c[i] : i \in DOMAIN c})
    BY <1>3
  <1>5. \A j \in 1 .. Len(t) : c[j + Len(s)] = t[j] /\ j + Len(s) \in 1 .. Len(c)
    BY <1>3
  <1>6. \A i \in 1 .. Len(c) : i \in 1 .. Len(s) \/ (i - Len(s) \in 1 .. Len(t) /\ c[i] = t[i - Len(s)])
    BY <1>3
  <1>7. \A i \in DOMAIN s : c[i] = s[i] /\ i \in DOMAIN c
    BY <1>3
  <1>8. \A i \in DOMAIN c : (i \in DOMAIN s /\ c[i] = s[i]) \/ \E j \in DOMAIN t : c[i] = t[j]
    BY <1>3, <1>6
  <1>9. \A j \in DOMAIN t : \E i \in DOMAIN c : c[i] = t[j]
    BY <1>3, <1>5
  <1>10. IsList(c)
    BY <1>4 DEF IsList
  <1> QED  BY <1>7, <1>8, <1>9, <1>10 DEF c, Joins

(* Every set of numbers has a least one.                                      *)
LEMMA NatMin ==
    ASSUME NEW T \in SUBSET Nat, T # {}
    PROVE  \E m \in T : \A n \in T : m <= n
  <1>1. PICK N \in T : TRUE
    OBVIOUS
  <1> DEFINE R == StrictSubsetOrdering(0..N)
             U == {0..n : n \in {k \in T : k <= N}}
  <1>2. IsWellFoundedOn(R, FiniteSubsetsOf(0..N))
    <2>1. IsFiniteSet(0..N)
      BY FS_Interval
    <2> QED  BY <2>1, FS_StrictSubsetOrderingWellFounded
  <1>3. U \subseteq FiniteSubsetsOf(0..N) /\ U # {}
    <2>1. \A n \in {k \in T : k <= N} : 0..n \in SUBSET (0..N) /\ IsFiniteSet(0..n)
      BY FS_Interval
    <2>2. \A n \in {k \in T : k <= N} : 0..n \in FiniteSubsetsOf(0..N)
      BY <2>1 DEF FiniteSubsetsOf
    <2>3. 0..N \in U
      BY <1>1
    <2> QED  BY <2>2, <2>3
  <1>4. \E x \in U : \A y \in U : ~(<<y, x>> \in R)
    <2> HIDE DEF R, U
    <2> QED BY <1>2, <1>3, WFMin
  <1>5. PICK m \in {k \in T : k <= N} : \A n \in {k \in T : k <= N} : <<0..n, 0..m>> \notin R
    BY <1>4
  <1>6. ASSUME NEW n \in T, n < m  PROVE FALSE
    <2>1. n <= N /\ 0..n \subseteq 0..m /\ m \notin 0..n /\ m \in 0..m
      BY <1>5, <1>6
    <2>2. 0..n \in SUBSET (0..N) /\ 0..m \in SUBSET (0..N) /\ 0..n # 0..m
      BY <2>1, <1>5
    <2> QED  BY <1>5, <1>6, <2>1, <2>2 DEF StrictSubsetOrdering
  <1> QED  BY <1>5, <1>6

-----------------------------------------------------------------------------
(***************************************************************************)
(* MatView.  The invariant follows a refresh from its query to its outcome *)
(* (Works): while the view is not muddled nobody else is at work on it,    *)
(* the rows in hand are those of its sources as they are, and the view has *)
(* them once they are appended.  A refresh that has not read yet excuses   *)
(* nothing (Fresh): it may fail, or be lost in a crash, before it reads.   *)
(***************************************************************************)
Done == {"invalidate", "queue", "outcome"}
Busy == {"recreate", "append"} \cup Done
Tasks == {"none", "write", "refresh", "drop"}
Phases == Busy \cup {"exec", "error", "drop", "idle"}
(* A thread's task, with its rows, which are contents, in the set R.         *)
Jobs(R) == [task : Tasks, on : Names \cup {""}, phase : Phases, rows : R, refs : SUBSET Views]
Fits(r) ==
    /\ r.task = "refresh" => r.on \in Views /\ r.phase \in Busy \cup {"exec", "error"}
    /\ r.task = "write" => r.on \in Tables /\ r.phase \in Busy \ {"outcome"}
    /\ r.task = "drop" => r.on \in Views /\ r.phase = "drop"
    /\ r.task = "none" => r.phase = "idle"
ViewsTyped ==
    /\ \E R : doing \in [Threads -> Jobs(R)]
    /\ \A th \in Threads : Fits(doing[th])
    /\ content = [n \in Names |-> content[n]]
    /\ filler = [n \in Names |-> filler[n]]
    /\ is_stale \in [Views -> BOOLEAN]
    /\ defined \subseteq Views /\ muddled \subseteq Views

(* A refresh that has read and not failed.                                   *)
Working(th, v) == Refreshing(th, v) /\ doing[th].phase \in Busy
Filled(th, v) ==
    /\ \A other \in Threads \ {th} : ~Working(other, v)
    /\ doing[th].phase \in {"recreate", "append"} => doing[th].rows = Read(v)
    /\ doing[th].phase = "append" => filler[v] = th
    /\ doing[th].phase \in Done => content[v] = Read(v)
Works == \A v \in Views \ muddled : \A th \in Threads : Working(th, v) => Filled(th, v)

Excused(v) ==
    \/ is_stale[v] \/ \E th \in Threads : HasRead(th, v)
    \/ \E t \in Reads(v) : Unsettled(t)
Fresh == \A v \in defined \ muddled : Excused(v) \/ content[v] = Read(v)

Inv == ViewsTyped /\ Works /\ Fresh

-----------------------------------------------------------------------------
LEMMA DoingSet ==
    ASSUME ViewsTyped, NEW th \in Threads, NEW R, NEW r \in Jobs(R), Fits(r),
           doing' = [doing EXCEPT ![th] = r]
    PROVE  /\ doing'[th] = r /\ \A u \in Threads \ {th} : doing'[u] = doing[u]
           /\ \E S : doing' \in [Threads -> Jobs(S)]
           /\ \A u \in Threads : Fits(doing'[u])
  <1>1. PICK Q : doing \in [Threads -> Jobs(Q)]
    BY DEF ViewsTyped
  <1>2. Jobs(Q) \subseteq Jobs(Q \cup R) /\ r \in Jobs(Q \cup R)
    BY DEF Jobs
  <1>3. doing \in [Threads -> Jobs(Q \cup R)]
    BY <1>1, <1>2
  <1>4. doing' \in [Threads -> Jobs(Q \cup R)]
    BY <1>2, <1>3
  <1>5. doing'[th] = r /\ \A u \in Threads \ {th} : doing'[u] = doing[u]
    BY <1>1
  <1> QED  BY <1>4, <1>5 DEF ViewsTyped

(* A thread that goes on to another phase of its task.                       *)
Goes(th, p) ==
    /\ doing'[th].task = doing[th].task /\ doing'[th].on = doing[th].on /\ doing'[th].phase = p
    /\ \A u \in Threads \ {th} : doing'[u] = doing[u]
    /\ \E S : doing' \in [Threads -> Jobs(S)]

LEMMA PhaseSet ==
    ASSUME ViewsTyped, NEW th \in Threads, NEW p \in Phases, To(th, p)
    PROVE  Goes(th, p) /\ doing'[th].rows = doing[th].rows
  <1>1. PICK R : doing \in [Threads -> Jobs(R)]
    BY DEF ViewsTyped
  <1>2. doing' \in [Threads -> Jobs(R)] /\ \A u \in Threads \ {th} : doing'[u] = doing[u]
    BY <1>1 DEF To, Jobs
  <1>3. doing'[th].task = doing[th].task /\ doing'[th].on = doing[th].on
        /\ doing'[th].phase = p /\ doing'[th].rows = doing[th].rows
    BY <1>1 DEF To, Jobs
  <1> QED  BY <1>2, <1>3 DEF Goes

LEMMA RowsSet ==
    ASSUME ViewsTyped, NEW th \in Threads, NEW p \in Phases, NEW e,
           doing' = [doing EXCEPT ![th].phase = p, ![th].rows = e]
    PROVE  Goes(th, p) /\ doing'[th].rows = e
  <1>1. PICK Q : doing \in [Threads -> Jobs(Q)]
    BY DEF ViewsTyped
  <1>2. PICK R : R = Q \cup {e}
    OBVIOUS
  <1>3. doing \in [Threads -> Jobs(R)] /\ e \in R
    <2>1. Jobs(Q) \subseteq Jobs(R)
      BY <1>2 DEF Jobs
    <2> QED  BY <1>1, <1>2, <2>1
  <1>4. doing' \in [Threads -> Jobs(R)] /\ \A u \in Threads \ {th} : doing'[u] = doing[u]
    BY <1>3 DEF Jobs
  <1>5. doing'[th].task = doing[th].task /\ doing'[th].on = doing[th].on
        /\ doing'[th].phase = p /\ doing'[th].rows = e
    BY <1>3 DEF Jobs
  <1> QED  BY <1>4, <1>5 DEF Goes

LEMMA RefsSet ==
    ASSUME ViewsTyped, NEW th \in Threads, NEW p \in Phases, NEW f \in SUBSET Views,
           doing' = [doing EXCEPT ![th].phase = p, ![th].refs = f]
    PROVE  Goes(th, p) /\ doing'[th].rows = doing[th].rows
  <1>1. PICK R : doing \in [Threads -> Jobs(R)]
    BY DEF ViewsTyped
  <1>2. doing' \in [Threads -> Jobs(R)] /\ \A u \in Threads \ {th} : doing'[u] = doing[u]
    BY <1>1 DEF Jobs
  <1>3. doing'[th].task = doing[th].task /\ doing'[th].on = doing[th].on
        /\ doing'[th].phase = p /\ doing'[th].rows = doing[th].rows
    BY <1>1 DEF Jobs
  <1> QED  BY <1>2, <1>3 DEF Goes

LEMMA IdleFits == Idle \in Jobs({<<>>}) /\ Fits(Idle) /\ Idle.task = "none"
  BY DEF Fits, Jobs, Idle, Tasks, Phases

LEMMA WriteFits ==
    ASSUME NEW t \in Tables, NEW e,
           NEW r, r = [Idle EXCEPT !.task = "write", !.on = t, !.phase = "recreate", !.rows = e]
    PROVE  r \in Jobs({<<>>, e}) /\ Fits(r) /\ r.task = "write"
  <1>1. Idle \in Jobs({<<>>, e})
    BY DEF Jobs, Idle, Tasks, Phases
  <1>2. "recreate" \in Phases /\ "write" \in Tasks /\ t \in Names
    BY DEF Phases, Busy, Tasks, Names
  <1>3. r \in Jobs({<<>>, e}) /\ r.task = "write" /\ r.on = t /\ r.phase = "recreate"
    BY <1>1, <1>2 DEF Jobs
  <1> QED  BY <1>3 DEF Fits, Busy

LEMMA DropFits ==
    ASSUME NEW v \in Views,
           NEW r, r = [Idle EXCEPT !.task = "drop", !.on = v, !.phase = "drop"]
    PROVE  r \in Jobs({<<>>}) /\ Fits(r) /\ r.task = "drop"
  <1>1. Idle \in Jobs({<<>>})
    BY IdleFits
  <1>2. "drop" \in Phases /\ "drop" \in Tasks /\ v \in Names
    BY DEF Phases, Tasks, Names
  <1>3. r \in Jobs({<<>>}) /\ r.task = "drop" /\ r.on = v /\ r.phase = "drop"
    BY <1>1, <1>2 DEF Jobs
  <1> QED  BY <1>3 DEF Fits

LEMMA RefreshFits ==
    ASSUME NEW v \in Views
    PROVE  Refresh(v) \in Jobs({<<>>}) /\ Fits(Refresh(v)) /\ Refresh(v).phase = "exec"
  <1>1. Idle \in Jobs({<<>>})
    BY IdleFits
  <1>2. "exec" \in Phases /\ "refresh" \in Tasks /\ v \in Names
    BY DEF Phases, Tasks, Names
  <1>3. Refresh(v) \in Jobs({<<>>}) /\ Refresh(v).task = "refresh" /\ Refresh(v).on = v
        /\ Refresh(v).phase = "exec"
    BY <1>1, <1>2 DEF Jobs, Refresh
  <1> QED  BY <1>3 DEF Fits

LEMMA TablesAreNoViews == Tables \cap Views = {}
  BY MatViewAssumption DEF MatViewAssumption

LEMMA Declared ==
    ASSUME NEW v \in Views
    PROVE  Sources[v] \in Seq(Names) /\ Reads(v) \subseteq Hits[v]
  BY MatViewAssumption DEF MatViewAssumption

LEMMA SourceNames ==
    ASSUME NEW v \in Views
    PROVE  Sources[v] \in Seq(Names) /\ DOMAIN Sources[v] = 1..Len(Sources[v])
           /\ Reads(v) \subseteq Names
  <1>1. Sources[v] \in Seq(Names)
    BY Declared
  <1>2. /\ DOMAIN Sources[v] = 1..Len(Sources[v])
        /\ \A i \in 1..Len(Sources[v]) : Sources[v][i] \in Names
    BY <1>1
  <1> QED  BY <1>1, <1>2 DEF Reads

LEMMA ReadSame ==
    ASSUME NEW v \in Views, \A t \in Reads(v) : content'[t] = content[t]
    PROVE  Read(v)' = Read(v)
  <1>1. \A i \in DOMAIN Sources[v] : content'[Sources[v][i]] = content[Sources[v][i]]
    BY DEF Reads
  <1> QED  BY <1>1 DEF Read

(* app.tables[t] filled anew: what a refresh that goes on un-muddled has     *)
(* read is as it was.                                                        *)
LEMMA FillFacts ==
    ASSUME ViewsTyped, NEW t \in Names, NEW c, Fill(t, c)
    PROVE  /\ content' = [n \in Names |-> content'[n]] /\ content'[t] = c
           /\ \A n \in Names \ {t} : content'[n] = content[n]
           /\ muddled \subseteq muddled' /\ muddled' \subseteq Views
           /\ \A v \in Views : t \notin Reads(v) => Read(v)' = Read(v)
           /\ \A v \in Views \ muddled' : \A th \in Threads : HasRead(th, v) => t \notin Reads(v)
  <1>1. content' = [n \in Names |-> IF n = t THEN c ELSE content[n]]
    BY DEF ViewsTyped, Fill
  <1>2. content'[t] = c /\ \A n \in Names \ {t} : content'[n] = content[n]
    BY <1>1
  <1>3. ASSUME NEW v \in Views, t \notin Reads(v)  PROVE Read(v)' = Read(v)
    BY <1>2, <1>3, SourceNames, ReadSame
  <1>4. muddled' = muddled \cup Caught(t) /\ Caught(t) \subseteq Views
    BY DEF Fill, Caught
  <1>5. ASSUME NEW v \in Views, v \notin muddled', NEW th \in Threads, HasRead(th, v)
        PROVE  t \notin Reads(v)
    BY <1>4, <1>5 DEF Caught
  <1> QED  BY <1>1, <1>2, <1>3, <1>4, <1>5 DEF ViewsTyped

(* Steps that change no content: a refresh goes on, or another begins.       *)
LEMMA WorksKept ==
    ASSUME Works, UNCHANGED <<content, filler>>, muddled \subseteq muddled',
           \A th \in Threads : \A v \in Views : Working(th, v)' =>
                /\ Working(th, v) /\ doing'[th].rows = doing[th].rows
                /\ doing'[th].phase \in {"recreate", "append"} => doing'[th].phase = doing[th].phase
                /\ doing'[th].phase \in Done => doing[th].phase \in Done
    PROVE  Works'
  <1> SUFFICES ASSUME NEW v \in Views, v \notin muddled', NEW th \in Threads, Working(th, v)'
               PROVE  Filled(th, v)'
    BY DEF Works
  <1>1. Filled(th, v) /\ Read(v)' = Read(v)
    BY ReadSame DEF Works
  <1> QED  BY <1>1 DEF Filled

(* Nothing a view is excused by goes away, and its content stays.            *)
LEMMA FreshKept ==
    ASSUME Fresh, UNCHANGED content, muddled \subseteq muddled',
           \A v \in defined' \ muddled' : v \in defined \/ is_stale'[v],
           \A v \in defined' \ muddled' : Excused(v) => Excused(v)',
           defined' \subseteq Views
    PROVE  Fresh'
  <1> SUFFICES ASSUME NEW v \in defined', v \notin muddled'
               PROVE  Excused(v)' \/ content'[v] = Read(v)'
    BY DEF Fresh
  <1>1. Read(v)' = Read(v)
    BY ReadSame
  <1> QED  BY <1>1 DEF Fresh, Excused

-----------------------------------------------------------------------------
(* Requests                                                                  *)

(* A thread takes up a task that has not read: no excuse goes away.          *)
LEMMA Starts ==
    ASSUME Inv, NEW w \in Threads, Free(w), NEW R, NEW r \in Jobs(R), Fits(r),
           doing' = [doing EXCEPT ![w] = r],
           r.task = "refresh" => r.phase = "exec",
           UNCHANGED <<content, filler, muddled>>,
           is_stale' \in [Views -> BOOLEAN], defined' \subseteq Views,
           \A v \in Views : is_stale[v] => is_stale'[v],
           \A v \in defined' : v \in defined \/ is_stale'[v]
    PROVE  Inv'
  <1>1. /\ doing'[w] = r /\ \A u \in Threads \ {w} : doing'[u] = doing[u]
        /\ (\E S : doing' \in [Threads -> Jobs(S)]) /\ \A u \in Threads : Fits(doing'[u])
    BY DoingSet DEF Inv
  <1>2. doing[w].phase = "idle" /\ doing[w].task = "none"
    BY DEF Inv, ViewsTyped, Fits, Jobs, Tasks, Busy, Done, Free, At
  <1>3. ViewsTyped'
    BY <1>1 DEF Inv, ViewsTyped
  <1>4. \A v : ~Working(w, v)' /\ \A u \in Threads \ {w} : Working(u, v)' <=> Working(u, v)
    BY <1>1 DEF Working, Refreshing, Busy, Done
  <1>5. Works'
    BY <1>1, <1>4, WorksKept DEF Inv
  <1>6. \A v \in Views : Excused(v) => Excused(v)'
    BY <1>1, <1>2 DEF Excused, HasRead, Refreshing, Unsettled
  <1>7. Fresh'
    BY <1>6, FreshKept DEF Inv
  <1> QED  BY <1>3, <1>5, <1>7 DEF Inv

LEMMA RequestKeeps ==
    ASSUME Inv, NEW w \in Workers, Request(w)
    PROVE  Inv'
  <1> w \in Threads
    BY DEF Threads
  <1>1. ASSUME NEW t \in Tables, StartWrite(w, t)  PROVE Inv'
    <2>1. PICK r : r = [Idle EXCEPT !.task = "write", !.on = t, !.phase = "recreate",
                              !.rows = <<events + 1>>]
      OBVIOUS
    <2>2. Free(w) /\ doing' = [doing EXCEPT ![w] = r]
          /\ UNCHANGED <<content, filler, muddled, is_stale, defined>>
      BY <2>1, <1>1 DEF StartWrite
    <2>3. r \in Jobs({<<>>, <<events + 1>>}) /\ Fits(r) /\ r.task = "write"
      BY <2>1, WriteFits
    <2> QED  BY <2>2, <2>3, Starts DEF Inv, ViewsTyped
  <1>2. ASSUME NEW v \in Views, StartRefresh(w, v)  PROVE Inv'
    BY <1>2, RefreshFits, Starts DEF StartRefresh, Inv, ViewsTyped
  <1>3. ASSUME NEW v \in Views, CreateView(w, v)  PROVE Inv'
    <2>1. is_stale' = [is_stale EXCEPT ![v] = TRUE] /\ defined' = defined \cup {v}
      BY <1>3 DEF CreateView
    <2>2. is_stale' \in [Views -> BOOLEAN] /\ defined' \subseteq Views
          /\ \A u \in Views : (is_stale[u] => is_stale'[u]) /\ is_stale'[v]
      BY <2>1 DEF Inv, ViewsTyped
    <2> QED  BY <1>3, <2>1, <2>2, RefreshFits, Starts DEF CreateView
  <1>4. ASSUME NEW v \in Views, DropTable(w, v)  PROVE Inv'
    <2>1. PICK r : r = [Idle EXCEPT !.task = "drop", !.on = v, !.phase = "drop"]
      OBVIOUS
    <2>2. Free(w) /\ doing' = [doing EXCEPT ![w] = r]
          /\ UNCHANGED <<content, filler, muddled, is_stale, defined>>
      BY <2>1, <1>4 DEF DropTable
    <2>3. r \in Jobs({<<>>}) /\ Fits(r) /\ r.task = "drop"
      BY <2>1, DropFits
    <2> QED  BY <2>2, <2>3, Starts DEF Inv, ViewsTyped
  <1> QED  BY <1>1, <1>2, <1>3, <1>4 DEF Request

-----------------------------------------------------------------------------
(* The ticker                                                                *)

LEMMA DoingSame ==
    ASSUME Inv, UNCHANGED <<doing, content, filler, muddled, is_stale, defined>>
    PROVE  Inv'
  <1>1. ViewsTyped'
    BY DEF Inv, ViewsTyped
  <1>2. \A v : (\A th : Working(th, v)' <=> Working(th, v))
               /\ (Excused(v) => Excused(v)')
    BY DEF Working, Refreshing, Excused, HasRead, Unsettled
  <1>3. Works'
    BY <1>2, WorksKept DEF Inv
  <1>4. Fresh'
    BY <1>2, FreshKept DEF Inv, ViewsTyped
  <1> QED  BY <1>1, <1>3, <1>4 DEF Inv

LEMMA TickKeeps ==
    ASSUME Inv, Tick
    PROVE  Inv'
  <1> Ticker \in Threads
    BY DEF Threads
  <1>1. ASSUME NEW v \in Views, NextOfQueue(v)  PROVE Inv'
    <2>1. CASE v \in defined
      <3>1. doing' = [doing EXCEPT ![Ticker] = Refresh(v)] /\ Free(Ticker)
            /\ UNCHANGED <<content, filler, muddled, is_stale, defined>>
        BY <1>1, <2>1 DEF NextOfQueue
      <3> QED  BY <3>1, RefreshFits, Starts DEF Inv, ViewsTyped
    <2>2. CASE v \notin defined
      BY <1>1, <2>2, DoingSame DEF NextOfQueue
    <2> QED  BY <2>1, <2>2
  <1>2. TakeQueue => Inv'
    BY DoingSame DEF TakeQueue
  <1>3. ASSUME NEW due \in SUBSET Views, TakeDue(due)  PROVE Inv'
    BY <1>3, DoingSame DEF TakeDue
  <1> QED  BY <1>1, <1>2, <1>3 DEF Tick

-----------------------------------------------------------------------------
(* What a thread goes on with                                                *)

LEMMA JobPhases ==
    ASSUME ViewsTyped, NEW th \in Threads
    PROVE  /\ doing[th].task \in Tasks /\ doing[th].phase \in Phases /\ Fits(doing[th])
           /\ doing[th].phase \in {"recreate", "append", "invalidate", "queue"} =>
                doing[th].task \in {"refresh", "write"} /\ doing[th].on \in Names
           /\ doing[th].phase \in {"exec", "outcome", "error"} =>
                doing[th].task = "refresh" /\ doing[th].on \in Views
           /\ doing[th].phase = "drop" => doing[th].task = "drop" /\ doing[th].on \in Views
  <1>1. doing[th].task \in Tasks /\ doing[th].phase \in Phases /\ Fits(doing[th])
    BY DEF ViewsTyped, Jobs
  <1> QED  BY <1>1 DEF Fits, Tasks, Busy, Done, Names

(* recreate_table                                                            *)
LEMMA RecreateKeeps ==
    ASSUME Inv, NEW th \in Threads, RecreateTable(th)
    PROVE  Inv'
  <1> DEFINE t == doing[th].on
  <1>1. ViewsTyped /\ doing[th].phase = "recreate" /\ Fill(t, <<>>) /\ defined' = defined
        /\ is_stale' = is_stale /\ filler' = [filler EXCEPT ![t] = th]
    BY DEF Inv, RecreateTable, At
  <1>2. doing[th].task \in {"refresh", "write"} /\ t \in Names /\ Fits(doing[th])
    BY <1>1, JobPhases
  <1>3. Goes(th, "append") /\ doing'[th].rows = doing[th].rows
    <2>1. To(th, "append") /\ "append" \in Phases
      BY DEF RecreateTable, Phases, Busy
    <2> QED  BY <1>1, <2>1, PhaseSet
  <1>4. /\ content' = [n \in Names |-> content'[n]] /\ content'[t] = <<>>
        /\ \A n \in Names \ {t} : content'[n] = content[n]
        /\ muddled \subseteq muddled' /\ muddled' \subseteq Views
        /\ \A v \in Views : t \notin Reads(v) => Read(v)' = Read(v)
        /\ \A v \in Views \ muddled' : \A u \in Threads : HasRead(u, v) => t \notin Reads(v)
    BY <1>1, <1>2, FillFacts
  <1>5. ViewsTyped'
    <2>1. Fits(doing'[th])
      BY <1>1, <1>2, <1>3 DEF Fits, Goes, Busy, Done
    <2>2. \A u \in Threads : Fits(doing'[u])
      BY <2>1, <1>3 DEF Goes, Inv, ViewsTyped
    <2>3. filler' = [n \in Names |-> filler'[n]]
      BY <1>1 DEF ViewsTyped
    <2> QED  BY <1>1, <1>3, <1>4, <2>2, <2>3 DEF ViewsTyped, Goes
  <1>6. \A v : \A u \in Threads : /\ Working(u, v)' <=> Working(u, v)
                                  /\ HasRead(u, v) => HasRead(u, v)'
    BY <1>1, <1>3 DEF Goes, Working, Refreshing, HasRead, Busy, Done
  <1>7. Works'
    <2> SUFFICES ASSUME NEW v \in Views, v \notin muddled', NEW u \in Threads, Working(u, v)
                 PROVE  Filled(u, v)'
      BY <1>6 DEF Works
    <2>1. Filled(u, v) /\ HasRead(u, v)
      BY <1>4 DEF Inv, Works, Working, HasRead, Busy, Done
    <2>2. Read(v)' = Read(v)
      BY <1>4, <2>1
    <2>3. CASE u = th
      BY <1>1, <1>2, <1>3, <1>6, <2>1, <2>2, <2>3
         DEF Filled, Goes, Working, Refreshing, Done, ViewsTyped
    <2>4. CASE u # th
      <3>1. t # v
        BY <1>1, <1>2, <2>1, <2>4, JobPhases, TablesAreNoViews
        DEF Filled, Working, Refreshing, Busy, Inv, Fits
      <3>2. v \in Names /\ content'[v] = content[v] /\ filler'[v] = filler[v]
        BY <1>1, <1>2, <1>4, <3>1 DEF ViewsTyped, Names
      <3> QED  BY <1>3, <1>6, <2>1, <2>2, <2>4, <3>2 DEF Filled, Goes
    <2> QED  BY <2>3, <2>4
  <1>8. Fresh'
    <2> SUFFICES ASSUME NEW v \in defined, v \notin muddled', ~Excused(v)'
                 PROVE  content'[v] = Read(v)'
      BY <1>1 DEF Fresh
    <2>1. v \in Views /\ t \notin Reads(v)
      BY <1>1, <1>2, <1>3 DEF Excused, Unsettled, Goes, ViewsTyped
    <2>2. t # v
      <3>1. ASSUME t = v PROVE FALSE
        <4>1. HasRead(th, v)'
          BY <1>2, <1>3, <2>1, <3>1, TablesAreNoViews
             DEF HasRead, Refreshing, Goes, Fits
        <4> QED  BY <4>1 DEF Excused
      <3> QED  BY <3>1
    <2>3. ~Excused(v)
      BY <1>1, <1>3, <1>6 DEF Excused, Unsettled, Goes
    <2>4. content[v] = Read(v) /\ v \notin muddled
      BY <1>4, <2>3 DEF Inv, Fresh
    <2> QED  BY <1>4, <2>1, <2>2, <2>4 DEF Names
  <1> QED  BY <1>5, <1>7, <1>8 DEF Inv

(* The append of the rows, to the table this thread has made.                *)
LEMMA AppendKeeps ==
    ASSUME Inv, NEW th \in Threads, AppendRows(th)
    PROVE  Inv'
  <1> DEFINE t == doing[th].on
             c == doing[th].rows
  <1>1. /\ ViewsTyped /\ doing[th].phase = "append" /\ defined' = defined /\ is_stale' = is_stale
        /\ \/ filler[t] = th /\ Fill(t, c) /\ filler' = [filler EXCEPT ![t] = ""]
           \/ filler[t] # th /\ UNCHANGED <<content, filler, muddled>>
    BY DEF Inv, AppendRows, At
  <1>2. doing[th].task \in {"refresh", "write"} /\ t \in Names /\ Fits(doing[th])
    BY <1>1, JobPhases
  <1>3. Goes(th, "invalidate")
    <2>1. doing' = [doing EXCEPT ![th].phase = "invalidate", ![th].rows = <<>>]
          /\ "invalidate" \in Phases
      BY DEF AppendRows, Phases, Busy, Done
    <2> QED  BY <1>1, <2>1, RowsSet
  <1>4. \A v : \A u \in Threads : /\ Working(u, v)' <=> Working(u, v)
                                  /\ HasRead(u, v) => HasRead(u, v)'
    BY <1>1, <1>3 DEF Goes, Working, Refreshing, HasRead, Busy, Done
  <1>5. \A u \in Threads : Fits(doing'[u])
    <2>1. Fits(doing'[th])
      BY <1>1, <1>2, <1>3 DEF Fits, Goes, Busy, Done
    <2> QED  BY <2>1, <1>3 DEF Goes, Inv, ViewsTyped
  <1>6. CASE filler[t] = th
    <2>1. Fill(t, c) /\ filler' = [filler EXCEPT ![t] = ""]
      BY <1>1, <1>6
    <2>2. /\ content' = [n \in Names |-> content'[n]] /\ content'[t] = c
          /\ \A n \in Names \ {t} : content'[n] = content[n]
          /\ muddled \subseteq muddled' /\ muddled' \subseteq Views
          /\ \A v \in Views : t \notin Reads(v) => Read(v)' = Read(v)
          /\ \A v \in Views \ muddled' : \A u \in Threads : HasRead(u, v) => t \notin Reads(v)
      BY <1>1, <1>2, <2>1, FillFacts
    <2>3. ViewsTyped'
      <3>1. filler' = [n \in Names |-> filler'[n]]
        BY <1>1, <2>1 DEF ViewsTyped
      <3> QED  BY <1>1, <1>3, <1>5, <2>2, <3>1 DEF ViewsTyped, Goes
    <2>4. Works'
      <3> SUFFICES ASSUME NEW v \in Views, v \notin muddled', NEW u \in Threads, Working(u, v)
                   PROVE  Filled(u, v)'
        BY <1>4 DEF Works
      <3>1. Filled(u, v) /\ HasRead(u, v)
        BY <2>2 DEF Inv, Works, Working, HasRead, Busy, Done
      <3>2. Read(v)' = Read(v)
        BY <2>2, <3>1
      <3>3. CASE u = th
        <4>1. t = v /\ c = Read(v)
          BY <1>1, <3>1, <3>3 DEF Filled, Working, Refreshing
        <4>2. doing'[th].phase = "invalidate" /\ content'[v] = Read(v)'
          BY <1>3, <2>2, <3>2, <4>1 DEF Goes
        <4> QED  BY <1>4, <3>1, <3>3, <4>2 DEF Filled, Done
      <3>4. CASE u # th
        <4>1. t # v
          BY <1>1, <1>2, <3>1, <3>4, JobPhases, TablesAreNoViews
          DEF Filled, Working, Refreshing, Busy, Inv, Fits
        <4>2. v \in Names /\ content'[v] = content[v] /\ filler'[v] = filler[v]
          BY <1>1, <1>2, <2>1, <2>2, <4>1 DEF ViewsTyped, Names
        <4> QED  BY <1>3, <1>4, <3>1, <3>2, <3>4, <4>2 DEF Filled, Goes
      <3> QED  BY <3>3, <3>4
    <2>5. Fresh'
      <3> SUFFICES ASSUME NEW v \in defined, v \notin muddled', ~Excused(v)'
                   PROVE  content'[v] = Read(v)'
        BY <1>1 DEF Fresh
      <3>1. v \in Views /\ t \notin Reads(v)
        BY <1>1, <1>2, <1>3 DEF Excused, Unsettled, Goes, ViewsTyped
      <3>2. t # v
        <4>1. ASSUME t = v PROVE FALSE
          <5>1. HasRead(th, v)'
            BY <1>2, <1>3, <3>1, <4>1, TablesAreNoViews
             DEF HasRead, Refreshing, Goes, Fits
          <5> QED  BY <5>1 DEF Excused
        <4> QED  BY <4>1
      <3>3. ~Excused(v)
        BY <1>1, <1>3, <1>4 DEF Excused, Unsettled, Goes
      <3>4. content[v] = Read(v) /\ v \notin muddled
        BY <2>2, <3>3 DEF Inv, Fresh
      <3> QED  BY <2>2, <3>1, <3>2, <3>4 DEF Names
    <2> QED  BY <2>3, <2>4, <2>5 DEF Inv
  <1>7. CASE filler[t] # th
    <2>1. UNCHANGED <<content, filler, muddled, is_stale, defined>>
      BY <1>1, <1>7
    <2>2. ViewsTyped'
      BY <1>1, <1>3, <1>5, <2>1 DEF ViewsTyped, Goes
    <2>3. Works'
      <3> SUFFICES ASSUME NEW v \in Views, v \notin muddled, NEW u \in Threads, Working(u, v)
                   PROVE  Filled(u, v)'
        BY <1>4, <2>1 DEF Works
      <3>1. Filled(u, v) /\ Read(v)' = Read(v)
        BY <2>1, ReadSame DEF Inv, Works
      <3>2. u # th
        BY <1>1, <1>7, <3>1 DEF Filled, Working, Refreshing
      <3> QED  BY <1>3, <1>4, <2>1, <3>1, <3>2 DEF Filled, Goes
    <2>4. Fresh'
      <3>1. \A v : Excused(v) => Excused(v)'
        BY <1>1, <1>3, <1>4, <2>1 DEF Excused, Unsettled, Goes
      <3> QED  BY <1>1, <2>1, <3>1, FreshKept DEF Inv, ViewsTyped
    <2> QED  BY <2>2, <2>3, <2>4 DEF Inv
  <1> QED  BY <1>6, <1>7

(* mvs_invalidate: whom the settled write could have left behind is stale.   *)
LEMMA InvalidateKeeps ==
    ASSUME Inv, NEW th \in Threads, Invalidate(th)
    PROVE  Inv'
  <1> DEFINE t == doing[th].on
  <1>1. /\ ViewsTyped /\ doing[th].phase = "invalidate" /\ defined' = defined
        /\ is_stale' = [v \in Views |-> is_stale[v] \/ Depends(v, t)]
        /\ UNCHANGED <<content, filler, muddled>>
    BY DEF Inv, Invalidate, At
  <1>2. doing[th].task \in {"refresh", "write"} /\ t \in Names /\ Fits(doing[th])
    BY <1>1, JobPhases
  <1>3. Goes(th, "queue") /\ doing'[th].rows = doing[th].rows
    <2>1. PICK f : f = {v \in Invalidated(t) : Mode[v] = "on_write"}
      OBVIOUS
    <2>2. doing' = [doing EXCEPT ![th].phase = "queue", ![th].refs = f] /\ f \in SUBSET Views
          /\ "queue" \in Phases
      BY <2>1 DEF Invalidate, Phases, Busy, Done, Invalidated
    <2> QED  BY <1>1, <2>2, RefsSet
  <1>4. \A v : \A u \in Threads : /\ Working(u, v)' <=> Working(u, v)
                                  /\ HasRead(u, v) => HasRead(u, v)'
    BY <1>1, <1>3 DEF Goes, Working, Refreshing, HasRead, Busy, Done
  <1>5. is_stale' \in [Views -> BOOLEAN] /\ \A v \in Views : is_stale[v] => is_stale'[v]
    BY <1>1 DEF ViewsTyped, Depends
  <1>6. ViewsTyped'
    <2>1. Fits(doing'[th])
      BY <1>1, <1>2, <1>3 DEF Fits, Goes, Busy, Done
    <2>2. \A u \in Threads : Fits(doing'[u])
      BY <2>1, <1>3 DEF Goes, Inv, ViewsTyped
    <2> QED  BY <1>1, <1>3, <1>5, <2>2 DEF ViewsTyped, Goes
  <1>7. Works'
    BY <1>1, <1>3, <1>4, WorksKept DEF Inv, Goes, Done
  <1>8. ASSUME NEW v \in defined, Excused(v)  PROVE Excused(v)'
    <2>1. v \in Views /\ Reads(v) \subseteq Hits[v]
      BY <1>1, Declared DEF ViewsTyped
    <2>2. CASE t \in Reads(v)
      BY <1>1, <1>8, <2>1, <2>2 DEF Depends, Excused
    <2>3. CASE t \notin Reads(v)
      BY <1>3, <1>4, <1>5, <1>8, <2>1, <2>3 DEF Excused, Unsettled, Goes
    <2> QED  BY <2>2, <2>3
  <1>9. Fresh'
    BY <1>1, <1>8, FreshKept DEF Inv, ViewsTyped
  <1> QED  BY <1>6, <1>7, <1>9 DEF Inv

(* The views of mode on_write are queued.                                    *)
LEMMA EnqueueKeeps ==
    ASSUME Inv, NEW th \in Threads, Enqueue(th)
    PROVE  Inv'
  <1>1. /\ ViewsTyped /\ doing[th].phase = "queue"
        /\ UNCHANGED <<content, filler, muddled, is_stale, defined>>
    BY DEF Inv, Enqueue, At
  <1>2. doing[th].task \in {"refresh", "write"} /\ Fits(doing[th])
    BY <1>1, JobPhases
  <1>3. CASE doing[th].task = "refresh"
    <2>1. PICK R : doing \in [Threads -> Jobs(R)]
      BY <1>1 DEF ViewsTyped
    <2>2. doing' = [doing EXCEPT ![th] = [doing[th] EXCEPT !.phase = "outcome", !.refs = {}]]
          /\ "outcome" \in Phases
      BY <1>3 DEF Enqueue, Phases, Busy, Done
    <2>3. [doing[th] EXCEPT !.phase = "outcome", !.refs = {}] \in Jobs(R)
      BY <2>1, <2>2 DEF Jobs
    <2>4. Goes(th, "outcome") /\ doing'[th].rows = doing[th].rows
      <3>1. doing' \in [Threads -> Jobs(R)] /\ \A u \in Threads \ {th} : doing'[u] = doing[u]
        BY <2>1, <2>2, <2>3
      <3>2. doing'[th].task = doing[th].task /\ doing'[th].on = doing[th].on
            /\ doing'[th].phase = "outcome" /\ doing'[th].rows = doing[th].rows
        BY <2>1, <2>2 DEF Jobs
      <3> QED  BY <3>1, <3>2 DEF Goes
    <2>5. ViewsTyped'
      <3>1. Fits(doing'[th])
        BY <1>2, <1>3, <2>4 DEF Fits, Goes, Busy, Done
      <3> QED  BY <1>1, <2>4, <3>1 DEF ViewsTyped, Goes
    <2>6. \A v : \A u \in Threads : /\ Working(u, v)' <=> Working(u, v)
                                    /\ HasRead(u, v) => HasRead(u, v)'
      BY <1>1, <2>4 DEF Goes, Working, Refreshing, HasRead, Busy, Done
    <2>7. Works'
      BY <1>1, <2>4, <2>6, WorksKept DEF Inv, Goes, Done
    <2>8. \A v : Excused(v) => Excused(v)'
      BY <1>1, <2>4, <2>6 DEF Excused, Unsettled, Goes
    <2>9. Fresh'
      BY <1>1, <2>8, FreshKept DEF Inv, ViewsTyped
    <2> QED  BY <2>5, <2>7, <2>9 DEF Inv
  <1>4. CASE doing[th].task = "write"
    <2>1. doing' = [doing EXCEPT ![th] = Idle]
      BY <1>4 DEF Enqueue
    <2>2. /\ doing'[th] = Idle /\ \A u \in Threads \ {th} : doing'[u] = doing[u]
          /\ \E S : doing' \in [Threads -> Jobs(S)]
          /\ \A u \in Threads : Fits(doing'[u])
      BY <1>1, <2>1, IdleFits, DoingSet
    <2>3. \A v : \A u \in Threads : /\ Working(u, v)' => u # th /\ Working(u, v)
                                    /\ HasRead(u, v) => HasRead(u, v)'
      BY <1>4, <2>2, IdleFits DEF Working, Refreshing, HasRead
    <2>4. ViewsTyped'
      BY <1>1, <2>2 DEF ViewsTyped
    <2>5. Works'
      BY <1>1, <2>2, <2>3, WorksKept DEF Inv
    <2>6. \A v : Excused(v) => Excused(v)'
      BY <1>1, <2>2, <2>3 DEF Excused, Unsettled
    <2>7. Fresh'
      BY <1>1, <2>6, FreshKept DEF Inv, ViewsTyped
    <2> QED  BY <2>4, <2>5, <2>7 DEF Inv
  <1> QED  BY <1>2, <1>3, <1>4

(* The query of a refresh: what is muddled is settled by reading alone.      *)
LEMMA ExecuteKeeps ==
    ASSUME Inv, NEW th \in Threads, ExecuteView(th)
    PROVE  Inv'
  <1>0. PICK s : s = doing[th].on
    OBVIOUS
  <1>1. /\ ViewsTyped /\ doing[th].phase = "exec"
        /\ UNCHANGED <<content, filler, is_stale, defined>>
        /\ \/ AloneWith(th, s) /\ muddled' = muddled \ {s}
           \/ ~AloneWith(th, s) /\ muddled' = muddled \cup {s}
    BY <1>0 DEF Inv, ExecuteView, At
  <1>2. doing[th].task = "refresh" /\ s \in Views /\ Fits(doing[th])
    BY <1>0, <1>1, JobPhases
  <1>3. Goes(th, "recreate") /\ doing'[th].rows = Read(s)
    <2>1. PICK e : e = Read(s)
      OBVIOUS
    <2>2. doing' = [doing EXCEPT ![th].phase = "recreate", ![th].rows = e]
          /\ "recreate" \in Phases
      BY <1>0, <2>1 DEF ExecuteView, Phases, Busy
    <2> QED  BY <1>1, <2>1, <2>2, RowsSet
  <1>4. ViewsTyped'
    <2>1. Fits(doing'[th])
      BY <1>2, <1>3 DEF Fits, Goes, Busy
    <2>2. muddled' \subseteq Views
      BY <1>1, <1>2 DEF ViewsTyped
    <2> QED  BY <1>1, <1>3, <2>1, <2>2 DEF ViewsTyped, Goes
  <1>5. \A v : Read(v)' = Read(v)
    BY <1>1 DEF Read
  <1>6. \A v : \A u \in Threads \ {th} : (Working(u, v)' <=> Working(u, v))
                                         /\ (HasRead(u, v)' <=> HasRead(u, v))
    BY <1>3 DEF Goes, Working, Refreshing, HasRead
  <1>7. HasRead(th, s)' /\ \A v : Working(th, v)' => v = s
    BY <1>0, <1>2, <1>3 DEF HasRead, Working, Refreshing, Goes
  <1>8. Works'
    <2> SUFFICES ASSUME NEW v \in Views, v \notin muddled', NEW u \in Threads, Working(u, v)'
                 PROVE  Filled(u, v)'
      BY DEF Works
    <2>1. CASE v = s
      <3>1. AloneWith(th, s)
        BY <1>1, <2>1
      <3>2. \A w \in Threads \ {th} : ~Working(w, v)'
        BY <1>6, <2>1, <3>1 DEF AloneWith, Working
      <3>3. u = th
        BY <3>2
      <3> QED  BY <1>3, <1>5, <2>1, <3>2, <3>3 DEF Filled, Goes, Done
    <2>2. CASE v # s
      <3>1. u # th /\ v \notin muddled
        BY <1>1, <1>7, <2>2
      <3>2. Working(u, v)
        BY <1>6, <3>1
      <3>3. Filled(u, v)
        BY <3>1, <3>2 DEF Inv, Works
      <3>4. \A w \in Threads \ {u} : ~Working(w, v)'
        BY <1>6, <1>7, <2>2, <3>3 DEF Filled
      <3> QED  BY <1>1, <1>3, <1>5, <3>1, <3>3, <3>4 DEF Filled, Goes
    <2> QED  BY <2>1, <2>2
  <1>9. Fresh'
    <2> SUFFICES ASSUME NEW v \in defined, v \notin muddled', ~Excused(v)'
                 PROVE  content'[v] = Read(v)'
      BY <1>1 DEF Fresh
    <2>1. v # s
      BY <1>7 DEF Excused
    <2>2. ~Excused(v)
      <3>1. ~HasRead(th, v)
        BY <1>1 DEF HasRead
      <3> QED  BY <1>1, <1>3, <1>6, <3>1 DEF Excused, Unsettled, Goes
    <2> QED  BY <1>1, <1>5, <2>1, <2>2 DEF Inv, Fresh
  <1> QED  BY <1>4, <1>8, <1>9 DEF Inv

(* The query fails: the refresh ends in an error.                            *)
LEMMA ExecuteFailsKeeps ==
    ASSUME Inv, NEW th \in Threads, ExecuteFails(th)
    PROVE  Inv'
  <1>1. /\ ViewsTyped /\ doing[th].phase = "exec" /\ To(th, "error")
        /\ UNCHANGED <<content, filler, muddled, is_stale, defined>>
    BY DEF Inv, ExecuteFails, At
  <1>2. doing[th].task = "refresh" /\ Fits(doing[th])
    BY <1>1, JobPhases
  <1>3. Goes(th, "error")
    <2>1. "error" \in Phases
      BY DEF Phases
    <2> QED  BY <1>1, <2>1, PhaseSet
  <1>4. ViewsTyped'
    <2>1. Fits(doing'[th])
      BY <1>2, <1>3 DEF Fits, Goes
    <2> QED  BY <1>1, <1>3, <2>1 DEF ViewsTyped, Goes
  <1>5. \A v : \A u \in Threads : /\ Working(u, v)' => u # th /\ Working(u, v)
                                  /\ HasRead(u, v) => HasRead(u, v)'
    BY <1>1, <1>3 DEF Goes, Working, Refreshing, HasRead, Busy, Done
  <1>6. Works'
    BY <1>1, <1>3, <1>5, WorksKept DEF Inv, Goes
  <1>7. \A v : Excused(v) => Excused(v)'
    BY <1>1, <1>3, <1>5 DEF Excused, Unsettled, Goes
  <1>8. Fresh'
    BY <1>1, <1>7, FreshKept DEF Inv, ViewsTyped
  <1> QED  BY <1>4, <1>6, <1>8 DEF Inv

(* Success clears stale: the view has what its sources have, if nothing      *)
(* muddled it.                                                               *)
LEMMA OutcomeKeeps ==
    ASSUME Inv, NEW th \in Threads, Outcome(th)
    PROVE  Inv'
  <1>0. PICK s : s = doing[th].on
    OBVIOUS
  <1>1. /\ ViewsTyped /\ doing[th].phase \in {"outcome", "error"} /\ doing' = [doing EXCEPT ![th] = Idle]
        /\ is_stale' = [v \in Views |-> IF v = s /\ v \in defined THEN doing[th].phase = "error"
                                        ELSE is_stale[v]]
        /\ UNCHANGED <<content, filler, muddled, defined>>
    BY <1>0 DEF Inv, Outcome, Parked, At
  <1>2. doing[th].task = "refresh" /\ s \in Views
    BY <1>0, <1>1, JobPhases
  <1>3. /\ doing'[th] = Idle /\ \A u \in Threads \ {th} : doing'[u] = doing[u]
        /\ \E S : doing' \in [Threads -> Jobs(S)]
        /\ \A u \in Threads : Fits(doing'[u])
    BY <1>1, IdleFits, DoingSet
  <1>4. ViewsTyped'
    BY <1>1, <1>3 DEF ViewsTyped
  <1>5. \A v : \A u \in Threads : /\ Working(u, v)' => u # th /\ Working(u, v)
                                  /\ u # th => (HasRead(u, v)' <=> HasRead(u, v))
    BY <1>3, IdleFits DEF Working, Refreshing, HasRead
  <1>6. Works'
    BY <1>1, <1>3, <1>5, WorksKept DEF Inv
  <1>7. Fresh'
    <2> SUFFICES ASSUME NEW v \in defined, v \notin muddled, ~Excused(v)'
                 PROVE  content[v] = Read(v)
      <3>1. \A v : Read(v)' = Read(v)
        BY <1>1 DEF Read
      <3> QED  BY <1>1, <3>1 DEF Fresh
    <2>1. v \in Views
      BY <1>1 DEF ViewsTyped
    <2>2. CASE v = s
      <3>1. doing[th].phase = "outcome"
        BY <1>1, <2>1, <2>2 DEF Excused
      <3>2. Working(th, v)
        BY <1>0, <1>2, <2>2, <3>1 DEF Working, Refreshing, Busy, Done
      <3> QED  BY <2>1, <3>1, <3>2 DEF Inv, Works, Filled, Done
    <2>3. CASE v # s
      <3>1. ~HasRead(th, v)
        BY <1>0, <2>3 DEF HasRead, Refreshing
      <3>2. is_stale'[v] = is_stale[v]
        BY <1>1, <2>1, <2>3
      <3>3. ~Excused(v)
        BY <1>1, <1>3, <1>5, <3>1, <3>2 DEF Excused, Unsettled
      <3> QED  BY <3>3 DEF Inv, Fresh
    <2> QED  BY <2>2, <2>3
  <1> QED  BY <1>4, <1>6, <1>7 DEF Inv

(* The end of h_matview_drop.                                                *)
LEMMA DropViewKeeps ==
    ASSUME Inv, NEW th \in Threads, DropView(th)
    PROVE  Inv'
  <1>0. PICK s : s = doing[th].on
    OBVIOUS
  <1>1. /\ ViewsTyped /\ doing[th].phase = "drop" /\ doing' = [doing EXCEPT ![th] = Idle]
        /\ is_stale' = [is_stale EXCEPT ![s] = TRUE] /\ defined' = defined \ {s}
        /\ UNCHANGED <<content, filler, muddled>>
    BY <1>0 DEF Inv, DropView, Parked, At
  <1>2. doing[th].task = "drop"
    BY <1>1, JobPhases
  <1>3. /\ doing'[th] = Idle /\ \A u \in Threads \ {th} : doing'[u] = doing[u]
        /\ \E S : doing' \in [Threads -> Jobs(S)]
        /\ \A u \in Threads : Fits(doing'[u])
    BY <1>1, IdleFits, DoingSet
  <1>4. is_stale' \in [Views -> BOOLEAN] /\ \A v \in Views : is_stale[v] => is_stale'[v]
    BY <1>1 DEF ViewsTyped
  <1>5. ViewsTyped'
    BY <1>1, <1>3, <1>4 DEF ViewsTyped
  <1>6. \A v : \A u \in Threads : /\ Working(u, v)' => u # th /\ Working(u, v)
                                  /\ HasRead(u, v) => HasRead(u, v)'
    BY <1>2, <1>3, IdleFits DEF Working, Refreshing, HasRead
  <1>7. Works'
    BY <1>1, <1>3, <1>6, WorksKept DEF Inv
  <1>8. \A v \in Views : Excused(v) => Excused(v)'
    BY <1>1, <1>3, <1>4, <1>6 DEF Excused, Unsettled
  <1>9. Fresh'
    BY <1>1, <1>8, FreshKept DEF Inv, ViewsTyped
  <1> QED  BY <1>5, <1>7, <1>9 DEF Inv

-----------------------------------------------------------------------------
(* What tells no view, and the end of the process                            *)

LEMMA OtherWriteKeeps ==
    ASSUME Inv, NEW t \in Tables, OtherWrite(t)
    PROVE  Inv'
  <1>1. /\ ViewsTyped /\ UNCHANGED <<filler, doing, is_stale, defined>>
        /\ content' = [content EXCEPT ![t] = <<events + 1>>]
        /\ muddled' = muddled \cup {v \in Views : t \in Reads(v)}
    BY DEF Inv, OtherWrite
  <1>2. /\ content' = [n \in Names |-> content'[n]]
        /\ \A n \in Names \ {t} : content'[n] = content[n]
    BY <1>1 DEF ViewsTyped
  <1>3. ViewsTyped'
    BY <1>1, <1>2 DEF ViewsTyped
  <1>4. ASSUME NEW v \in Views, v \notin muddled'
        PROVE  v \notin muddled /\ Read(v)' = Read(v) /\ content'[v] = content[v]
    <2>1. v \notin muddled /\ t \notin Reads(v)
      BY <1>1, <1>4
    <2>2. v \in Names \ {t}
      BY TablesAreNoViews DEF Names
    <2> QED  BY <1>2, <2>1, <2>2, SourceNames, ReadSame
  <1>5. \A v : \A u : Working(u, v)' <=> Working(u, v)
    BY <1>1 DEF Working, Refreshing
  <1>6. Works'
    BY <1>1, <1>4, <1>5 DEF Inv, Works, Filled
  <1>7. \A v : Excused(v)' <=> Excused(v)
    BY <1>1 DEF Excused, HasRead, Refreshing, Unsettled
  <1>8. Fresh'
    BY <1>1, <1>4, <1>7 DEF Inv, Fresh, ViewsTyped
  <1> QED  BY <1>3, <1>6, <1>8 DEF Inv

LEMMA CrashKeeps ==
    ASSUME Inv, Crash
    PROVE  Inv'
  <1>1. /\ ViewsTyped /\ UNCHANGED <<content, filler, is_stale, defined>>
        /\ doing' = [th \in Threads |-> Idle]
        /\ muddled' = muddled \cup
                {v \in Views : \/ \E t \in Reads(v) \cup {v} : Unsettled(t)
                               \/ \E th \in Threads : HasRead(th, v)}
    BY DEF Inv, Crash
  <1>2. \A th \in Threads : doing'[th] = Idle
    BY <1>1
  <1>3. ViewsTyped'
    <2>1. doing' \in [Threads -> Jobs({<<>>})] /\ \A th \in Threads : Fits(doing'[th])
      BY <1>1, IdleFits
    <2>2. muddled' \subseteq Views
      BY <1>1 DEF ViewsTyped
    <2> QED  BY <1>1, <2>1, <2>2 DEF ViewsTyped
  <1>4. \A v : \A u \in Threads : ~Working(u, v)'
    BY <1>2, IdleFits DEF Working, Refreshing
  <1>5. Works'
    BY <1>4 DEF Works
  <1>6. Fresh'
    <2> SUFFICES ASSUME NEW v \in defined, v \notin muddled', ~Excused(v)'
                 PROVE  content'[v] = Read(v)'
      BY <1>1 DEF Fresh
    <2>1. v \in Views /\ v \notin muddled
      BY <1>1 DEF ViewsTyped
    <2>2. ~is_stale[v]
      BY <1>1 DEF Excused
    <2>3. ~Excused(v)
      BY <1>1, <2>1, <2>2 DEF Excused
    <2>4. Read(v)' = Read(v)
      BY <1>1 DEF Read
    <2> QED  BY <1>1, <2>1, <2>3, <2>4 DEF Inv, Fresh
  <1> QED  BY <1>3, <1>5, <1>6 DEF Inv

-----------------------------------------------------------------------------
(* The start: views over views, made one rank after another                  *)

(* The contents of a view from those of what it reads.                       *)
MadeOf(f, n) == IF n \in Tables THEN <<0>> ELSE [i \in DOMAIN Sources[n] |-> f[Sources[n][i]]]

LEMMA MadeOfSame ==
    ASSUME NEW f, NEW g, NEW n \in Names,
           n \in Views => \A t \in Reads(n) : f[t] = g[t]
    PROVE  MadeOf(f, n) = MadeOf(g, n)
  <1>1. CASE n \in Tables
    BY <1>1 DEF MadeOf
  <1>2. CASE n \notin Tables
    <2>1. \A i \in DOMAIN Sources[n] : f[Sources[n][i]] = g[Sources[n][i]]
      BY <1>2 DEF Names, Reads
    <2> QED  BY <1>2, <2>1 DEF MadeOf
  <1> QED  BY <1>1, <1>2

(* f is right up to rank k; and can be made right one rank further.          *)
RightBelow(rank, f, k) == \A n \in Names : rank[n] < k => f[n] = MadeOf(f, n)

LEMMA OneRankMore ==
    ASSUME NEW N \in Nat, NEW rank \in [Names -> 0..N],
           \A v \in Views : \A t \in Reads(v) : rank[t] < rank[v],
           NEW f, NEW k \in Nat, RightBelow(rank, f, k)
    PROVE  \E g : g = [n \in Names |-> g[n]] /\ RightBelow(rank, g, k + 1)
  <1>1. PICK g : g = [n \in Names |-> IF rank[n] < k THEN f[n] ELSE MadeOf(f, n)]
    OBVIOUS
  <1>2. \A n \in Names : g[n] = IF rank[n] < k THEN f[n] ELSE MadeOf(f, n)
    BY <1>1
  <1>3. g = [n \in Names |-> g[n]]
    BY <1>1
  <1>4. ASSUME NEW n \in Names, rank[n] < k + 1  PROVE g[n] = MadeOf(g, n)
    <2>1. g[n] = MadeOf(f, n)
      BY <1>2 DEF RightBelow
    <2>2. ASSUME n \in Views, NEW t \in Reads(n)  PROVE f[t] = g[t]
      <3>1. t \in Names /\ rank[t] \in Nat /\ rank[n] \in Nat /\ rank[t] < rank[n]
        BY <2>2, SourceNames
      <3>2. rank[t] < k
        BY <1>4, <3>1
      <3> QED  BY <1>2, <3>1, <3>2
    <2> QED  BY <2>1, <2>2, MadeOfSame
  <1> QED  BY <1>3, <1>4 DEF RightBelow

LEMMA ViewsCanBeMade == \E f : f = [n \in Names |-> MadeOf(f, n)]
  <1>1. PICK N \in Nat : \E rank \in [Names -> 0..N] :
            \A v \in Views : \A t \in Reads(v) : rank[t] < rank[v]
    <2>1. Cardinality(Views) \in Nat
      BY MatViewAssumption, FS_CardinalityType DEF MatViewAssumption
    <2> QED  BY <2>1, MatViewAssumption DEF MatViewAssumption
  <1>2. PICK rank \in [Names -> 0..N] : \A v \in Views : \A t \in Reads(v) : rank[t] < rank[v]
    BY <1>1
  <1> DEFINE Can(k) == \E f : f = [n \in Names |-> f[n]] /\ RightBelow(rank, f, k)
             T == {k \in Nat : ~Can(k)}
  <1>3. ASSUME T # {}  PROVE FALSE
    <2>1. PICK k \in T : \A j \in T : k <= j
      <3>1. T \in SUBSET Nat
        OBVIOUS
      <3> HIDE DEF T
      <3> QED  BY <1>3, <3>1, NatMin
    <2>2. k # 0
      <3>1. PICK f : f = [n \in Names |-> 0]
        OBVIOUS
      <3>2. RightBelow(rank, f, 0)
        BY DEF RightBelow
      <3>3. f = [n \in Names |-> f[n]]
        BY <3>1
      <3> QED  BY <3>2, <3>3
    <2>3. k - 1 \in Nat /\ Can(k - 1)
      BY <2>1, <2>2
    <2>4. PICK f : RightBelow(rank, f, k - 1)
      BY <2>3
    <2>5. \E g : g = [n \in Names |-> g[n]] /\ RightBelow(rank, g, (k - 1) + 1)
      BY <1>2, <2>3, <2>4, OneRankMore
    <2>6. (k - 1) + 1 = k
      BY <2>1
    <2> QED  BY <2>1, <2>5, <2>6
  <1>4. Can(N + 1)
    BY <1>3
  <1>5. PICK f : f = [n \in Names |-> f[n]] /\ RightBelow(rank, f, N + 1)
    BY <1>4
  <1>6. \A n \in Names : f[n] = MadeOf(f, n)
    BY <1>5 DEF RightBelow
  <1>7. f = [n \in Names |-> MadeOf(f, n)]
    BY <1>5, <1>6
  <1> QED  BY <1>7

LEMMA MadeIsMade ==
    /\ Made = [n \in Names |-> Made[n]]
    /\ \A v \in Views : Made[v] = [i \in DOMAIN Sources[v] |-> Made[Sources[v][i]]]
  <1>1. Made = CHOOSE f : f = [n \in Names |-> MadeOf(f, n)]
    BY DEF Made, MadeOf
  <1>2. Made = [n \in Names |-> MadeOf(Made, n)]
    <2> HIDE DEF Made
    <2> QED  BY <1>1, ViewsCanBeMade
  <1> HIDE DEF Made
  <1>3. \A n \in Names : Made[n] = MadeOf(Made, n)
    BY <1>2
  <1>4. Made = [n \in Names |-> Made[n]]
    BY <1>2, <1>3
  <1>5. ASSUME NEW v \in Views
        PROVE  Made[v] = [i \in DOMAIN Sources[v] |-> Made[Sources[v][i]]]
    <2>1. v \in Names /\ v \notin Tables
      BY TablesAreNoViews DEF Names
    <2> QED  BY <1>3, <2>1 DEF MadeOf
  <1> QED  BY <1>4, <1>5

LEMMA InitInv ==
    ASSUME Init
    PROVE  Inv
  <1>1. /\ content = Made /\ filler = [n \in Names |-> ""]
        /\ defined = Views /\ is_stale = [v \in Views |-> FALSE]
        /\ doing = [th \in Threads |-> Idle] /\ muddled = {}
    BY DEF Init
  <1>2. ViewsTyped
    <2>1. doing \in [Threads -> Jobs({<<>>})] /\ \A th \in Threads : Fits(doing[th])
      BY <1>1, IdleFits
    <2>2. content = [n \in Names |-> content[n]]
      BY <1>1, MadeIsMade
    <2> QED  BY <1>1, <2>1, <2>2 DEF ViewsTyped
  <1>3. Works
    BY <1>1, IdleFits DEF Works, Working, Refreshing
  <1>4. \A v \in Views : content[v] = Read(v)
    BY <1>1, MadeIsMade DEF Read
  <1> QED  BY <1>1, <1>2, <1>3, <1>4 DEF Inv, Fresh

LEMMA NextInv ==
    ASSUME Inv, [Next]_mvVars
    PROVE  Inv'
  <1>1. ASSUME NEW th \in Threads, Step(th)  PROVE Inv'
    BY <1>1, RecreateKeeps, AppendKeeps, InvalidateKeeps, EnqueueKeeps, ExecuteKeeps,
       ExecuteFailsKeeps, OutcomeKeeps, DropViewKeeps DEF Step
  <1>2. CASE UNCHANGED mvVars
    BY <1>2, DoingSame DEF mvVars
  <1> QED  BY <1>1, <1>2, TickKeeps, RequestKeeps, OtherWriteKeeps, CrashKeeps DEF Next

(* A view that is not stale has what its definition reads, for any number of *)
(* views over views, workers, requests, failures and crashes                 *)
(* (matview.c:447-557, write_rs_to_table).                                   *)
THEOREM FreshViewsAreCurrent == Spec => []FreshIsCurrent
  <1>1. Init => Inv
    BY InitInv
  <1>2. Inv /\ [Next]_mvVars => Inv'
    BY NextInv
  <1>3. Inv => FreshIsCurrent
    BY DEF Inv, Fresh, FreshIsCurrent, Excused, HasRead
  <1> QED  BY <1>1, <1>2, <1>3, PTL DEF Spec

-----------------------------------------------------------------------------
(***************************************************************************)
(* KafkaSource.  The invariant relates the position of the reader to the   *)
(* offset the broker keeps (Passed) and both to what the target has and    *)
(* what was reported (Holds, Told): a commit comes before the append, so   *)
(* the rows in hand are neither in the table nor to be read again.         *)
(***************************************************************************)
(* The functions of the state.                                               *)
SessionKeys == {"open", "assigned", "pos", "offset_fallback_tried", "schema_cache"}
RunFields == {"phase", "batch", "got", "created"}
Moves == {"read", "commit", "append"}
IsSession(s) == s = [f \in SessionKeys |-> s[f]]
IsRun(r) == r = [f \in RunFields |-> r[f]]
IsCount(t) == t = [o \in Offsets |-> t[o]] /\ \A o \in Offsets : t[o] \in Nat
KafkaTyped ==
    /\ first \in Nat /\ end \in Nat /\ first <= end /\ end <= Len(Payload)
    /\ committed \in Int /\ -1 <= committed /\ committed <= end
    /\ IsSession(session) /\ IsRun(run) /\ IsCount(told) /\ IsList(stage) /\ IsList(run.batch)
    /\ session.pos \in Nat /\ session.pos <= end
    /\ run.phase \in {"sample"} \union Moves => session.assigned

(* What a run holds: pages it appended, and the page it is at work on.       *)
Holds ==
    /\ run.phase \notin Moves => run.got = {}
    /\ run.phase \notin {"commit", "append"} => InBatch = {}
    /\ run.created => run.got = {stage[i].offset : i \in DOMAIN stage}
    /\ ~run.created => run.got = {}
    /\ \A o \in Dropped : o \in Offsets /\ o < session.pos

(* Of an incremental step, what the position has passed and what it may pass *)
(* again, against the offset the broker keeps.                               *)
Passed ==
    session.assigned =>
        \A o \in Offsets :
            /\ o < session.pos => o < committed \/ o \in skipped \union again \union Dropped
            /\ session.pos <= o /\ o < committed => o \in again
(* What was taken is committed, and nothing taken is held once more.         *)
Once ==
    \A o \in Offsets :
        /\ told[o] >= 1 => o \in again \/ o < committed
        /\ o \in Dropped => told[o] = 0 \/ o \in again
        /\ o \in run.got => o \in again \/ o < committed
        /\ run.phase = "append" /\ o \in InBatch => o \in again \/ o < committed

KafkaInv == KafkaTyped /\ Holds /\ (explicit_group => Passed /\ Once /\ MessagesAccounted)

-----------------------------------------------------------------------------

LEMMA KafkaStarts ==
    ASSUME KafkaInit
    PROVE  KafkaInv
  <1>1. /\ session = NoSession /\ run = NoRun /\ stage = <<>> /\ first = 0 /\ end = 0 /\ committed = -1
        /\ told = [o \in Offsets |-> 0] /\ skipped = {} /\ again = {}
    BY DEF KafkaInit
  <1>2. /\ IsSession(session) /\ session.pos = 0 /\ ~session.assigned
        /\ IsRun(run) /\ run.phase = "idle" /\ run.batch = <<>>
        /\ run.got = {} /\ ~run.created
    BY <1>1 DEF NoSession, NoRun, IsSession, IsRun, SessionKeys, RunFields
  <1>3. InBatch = {}
    BY <1>2 DEF InBatch
  <1>4. KafkaTyped
    <2>1. IsList(stage) /\ IsList(run.batch)
      BY <1>1, <1>2, EmptyList
    <2>2. IsCount(told)
      BY <1>1 DEF IsCount
    <2> QED  BY <1>1, <1>2, <2>1, <2>2, KafkaAssumption DEF KafkaTyped, Moves
  <1>5. Holds
    BY <1>2, <1>3 DEF Holds, Dropped, Moves
  <1>6. Passed /\ Once /\ MessagesAccounted
    BY <1>1, <1>2, <1>3 DEF Passed, Once, MessagesAccounted, Dropped, Offsets
  <1> QED  BY <1>4, <1>5, <1>6 DEF KafkaInv

LEMMA OpenSessionKeeps ==
    ASSUME KafkaInv, OpenSession
    PROVE  KafkaInv'
  <1>1. /\ run.phase = "idle" /\ UNCHANGED <<cfg, first, end, committed, stage, told, skipped, again>>
        /\ KafkaTyped /\ Holds /\ (explicit_group => Passed /\ Once /\ MessagesAccounted)
        /\ explicit_group' = explicit_group
    BY DEF OpenSession, KafkaInv, explicit_group
  <1>2. /\ IsRun(run') /\ run'.phase \in {"describe", "assign"}
        /\ run'.batch = <<>> /\ run'.got = {} /\ ~run'.created
    BY DEF OpenSession, NoRun, IsRun, RunFields
  <1>3. /\ IsSession(session')
        /\ \/ session' = session
           \/ session'.pos = 0 /\ ~session'.assigned
    BY <1>1 DEF OpenSession, KafkaTyped, NoSession, IsSession, SessionKeys
  <1>4. InBatch' = {} /\ Dropped' = {} /\ Dropped = {}
    BY <1>1, <1>2, EmptyList DEF InBatch, Dropped, Holds, Moves
  <1>5. KafkaTyped'
    <2>1. IsList(run'.batch)
      BY <1>2, EmptyList
    <2> QED  BY <1>1, <1>2, <1>3, <2>1 DEF KafkaTyped, Moves
  <1>6. Holds'
    BY <1>1, <1>2, <1>4 DEF Holds, Moves
  <1>7. ASSUME explicit_group  PROVE Passed' /\ Once' /\ MessagesAccounted'
    <2>1. Passed' 
      BY <1>1, <1>3, <1>4, <1>7 DEF Passed
    <2>2. Once'
      BY <1>1, <1>2, <1>4, <1>7 DEF Once, Moves
    <2>3. MessagesAccounted'
      BY <1>1, <1>4, <1>7 DEF MessagesAccounted
    <2> QED  BY <2>1, <2>2, <2>3
  <1> QED  BY <1>1, <1>5, <1>6, <1>7 DEF KafkaInv

LEMMA AssignAllKeeps ==
    ASSUME KafkaInv, NEW known \in BOOLEAN, AssignAll(known)
    PROVE  KafkaInv'
  <1>1. /\ run.phase \in {"describe", "assign"} /\ UNCHANGED <<cfg, first, end, committed, stage, told>>
        /\ KafkaTyped /\ Holds /\ (explicit_group => Passed /\ Once /\ MessagesAccounted)
        /\ explicit_group' = explicit_group
    BY DEF AssignAll, KafkaInv, explicit_group
  <1>2. /\ IsRun(run') /\ run'.phase \in {"sample", "read"}
        /\ run'.batch = run.batch /\ run'.got = run.got /\ run'.created = run.created
    BY <1>1 DEF AssignAll, KafkaTyped, IsRun, RunFields
  <1>3. InBatch' = InBatch /\ InBatch = {} /\ run.got = {}
    BY <1>1, <1>2 DEF InBatch, Holds, Moves
  <1> DEFINE p == Assign(known)
  <1>4. p \in Nat /\ p <= end
    <2>1. StartOffset \in {0, end, first}
      BY Zenon DEF StartOffset
    <2>2. p = StartOffset \/ (p = committed /\ committed >= 0)
      BY DEF Assign, Resumes
    <2> HIDE DEF p
    <2> QED  BY <1>1, <2>1, <2>2 DEF KafkaTyped
  <1>5. CASE session.assigned
    <2>1. session' = session /\ skipped' = skipped /\ again \subseteq again'
      BY <1>5 DEF AssignAll, Assigned
    <2>2. KafkaTyped'
      BY <1>1, <1>2, <1>5, <2>1 DEF KafkaTyped
    <2>3. Holds'
      BY <1>1, <1>2, <1>3, <2>1 DEF Holds, Dropped, Moves
    <2>4. explicit_group => Passed' /\ Once' /\ MessagesAccounted'
      BY <1>1, <1>2, <1>3, <2>1 DEF Passed, Once, MessagesAccounted, Dropped
    <2> QED  BY <1>1, <2>2, <2>3, <2>4 DEF KafkaInv
  <1>6. CASE ~session.assigned
    <2>1. /\ IsSession(session') /\ session'.assigned /\ session'.pos = p
          /\ skipped' = skipped \cup MovedOver(p)
          /\ again' = IF known /\ Resumes THEN again ELSE again \cup MovedBack(p)
      BY <1>1, <1>6 DEF AssignAll, Assigned, KafkaTyped, IsSession, SessionKeys
    <2>2. KafkaTyped'
      BY <1>1, <1>2, <1>4, <2>1 DEF KafkaTyped
    <2>3. Holds'
      BY <1>1, <1>2, <1>3 DEF Holds, Dropped, Moves
    <2>4. ASSUME explicit_group  PROVE Passed'
      <3>1. ASSUME NEW o \in Offsets, o < p  PROVE o < committed \/ o \in skipped'
        BY <2>1, <3>1 DEF MovedOver, Between, Offsets
      <3>2. ASSUME NEW o \in Offsets, p <= o, o < committed  PROVE o \in again'
        <4>1. ~(known /\ Resumes)
          BY <1>1, <3>2 DEF Assign, Offsets, KafkaTyped
        <4> QED  BY <2>1, <3>2, <4>1 DEF MovedBack
      <3> HIDE DEF p
      <3> QED  BY <1>1, <2>1, <3>1, <3>2 DEF Passed
    <2>5. explicit_group => Once' /\ MessagesAccounted'
      BY <1>1, <1>2, <1>3, <2>1 DEF Once, MessagesAccounted, Dropped
    <2> QED  BY <1>1, <2>2, <2>3, <2>4, <2>5 DEF KafkaInv
  <1> QED  BY <1>5, <1>6

(* A step that moves the position past messages it does not take.            *)
LEMMA PassesOver ==
    ASSUME KafkaInv, UNCHANGED <<cfg, first, end, committed, stage, told, again>>,
           run.phase \in {"sample", "read"}, IsRun(run'), run'.phase \in {"sample", "read"},
           run'.batch = run.batch, run'.got = run.got, run'.created = run.created,
           IsSession(session'), session'.assigned, session'.pos \in Nat,
           session.pos <= session'.pos, session'.pos <= end,
           skipped' = skipped \cup Between(session.pos, session'.pos),
           run'.phase = "read" \/ run'.phase = run.phase
    PROVE  KafkaInv'
  <1>1. /\ KafkaTyped /\ Holds /\ (explicit_group => Passed /\ Once /\ MessagesAccounted)
        /\ explicit_group' = explicit_group /\ session.assigned
    BY DEF KafkaInv, explicit_group, KafkaTyped, Moves
  <1>2. InBatch' = InBatch /\ Dropped' = Dropped
    BY DEF InBatch, Dropped
  <1>3. KafkaTyped'
    BY <1>1 DEF KafkaTyped
  <1>4. Holds'
    BY <1>1, <1>2, <1>3 DEF Holds, Moves, Offsets, KafkaTyped
  <1>5. ASSUME explicit_group  PROVE Passed'
    <2>1. ASSUME NEW o \in Offsets, o < session'.pos
          PROVE  o < committed \/ o \in skipped' \union again \union Dropped
      <3>1. CASE o < session.pos
        BY <1>1, <1>5, <3>1 DEF Passed
      <3>2. CASE session.pos <= o
        BY <2>1, <3>2 DEF Between
      <3> QED  BY <1>1, <3>1, <3>2 DEF Offsets, KafkaTyped
    <2>2. ASSUME NEW o \in Offsets, session'.pos <= o, o < committed  PROVE o \in again
      BY <1>1, <1>5, <2>2 DEF Passed, Offsets, KafkaTyped
    <2> QED  BY <1>2, <2>1, <2>2 DEF Passed
  <1>6. explicit_group => Once' /\ MessagesAccounted'
    BY <1>1, <1>2 DEF Once, MessagesAccounted
  <1> QED  BY <1>1, <1>3, <1>4, <1>5, <1>6 DEF KafkaInv

LEMMA DescribeKeeps ==
    ASSUME KafkaInv, Describe
    PROVE  KafkaInv'
  <1>1. /\ run.phase = "sample" /\ UNCHANGED <<cfg, first, end, committed, stage, told, again>>
        /\ KafkaTyped /\ session.assigned
    BY DEF Describe, KafkaInv, KafkaTyped
  <1>2. /\ IsRun(run') /\ run'.phase = "read"
        /\ run'.batch = run.batch /\ run'.got = run.got /\ run'.created = run.created
    BY <1>1 DEF Describe, KafkaTyped, IsRun, RunFields
  <1>3. /\ IsSession(session') /\ session'.assigned
        /\ \/ session.pos < end /\ session'.pos = session.pos + 1 /\ skipped' = skipped \cup {session.pos}
           \/ session'.pos = session.pos /\ skipped' = skipped
    BY <1>1 DEF Describe, KafkaTyped, IsSession, SessionKeys
  <1>4. /\ session'.pos \in Nat /\ session.pos <= session'.pos /\ session'.pos <= end
        /\ skipped' = skipped \cup Between(session.pos, session'.pos)
    BY <1>1, <1>3, KafkaAssumption DEF KafkaTyped, Between, Offsets
  <1> QED  BY <1>1, <1>2, <1>3, <1>4, PassesOver

LEMMA OutOfRangeKeeps ==
    ASSUME KafkaInv, OutOfRange
    PROVE  KafkaInv'
  <1>1. PICK pos \in {first, end}, tried \in BOOLEAN :
            Reset(pos, tried) /\ run.phase \in {"sample", "read"} /\ session.pos < first
    <2>1. ~InRange => session.pos < first
      BY DEF InRange, KafkaInv, KafkaTyped
    <2> QED  BY <2>1 DEF OutOfRange
  <1>2. /\ UNCHANGED <<cfg, first, end, committed, run, stage, told, again>>
        /\ KafkaTyped /\ session.assigned
    BY <1>1 DEF Reset, KafkaInv, KafkaTyped, Moves
  <1>3. IsSession(session') /\ session'.assigned /\ session'.pos = pos
    BY <1>1, <1>2 DEF Reset, KafkaTyped, IsSession, SessionKeys
  <1>4. /\ session'.pos \in Nat /\ session.pos <= session'.pos /\ session'.pos <= end
        /\ skipped' = skipped \cup Between(session.pos, session'.pos) /\ IsRun(run')
    BY <1>1, <1>2, <1>3 DEF KafkaTyped, Reset
  <1> QED  BY <1>1, <1>2, <1>3, <1>4, PassesOver

(* The page read is the messages from the position on.                       *)
LEMMA PageRead ==
    ASSUME KafkaTyped, NEW n \in Nat, session.pos + n <= end, NEW known
    PROVE  LET b == Polled(n, known)
           IN  IsList(b) /\ {b[i].offset : i \in DOMAIN b} = Between(session.pos, session.pos + n)
  <1> DEFINE b == Polled(n, known)
  <1>1. DOMAIN b = 1 .. n /\ \A i \in 1 .. n : b[i].offset = session.pos + i - 1
    BY DEF Polled, Parsed
  <1>2. b = [i \in 1 .. n |-> b[i]]
    BY <1>1 DEF Polled
  <1> HIDE DEF b
  <1>3. IsList(b)
    BY <1>1, <1>2 DEF IsList
  <1>4. \A i \in 1 .. n : b[i].offset \in Between(session.pos, session.pos + n)
    BY <1>1, KafkaAssumption DEF KafkaTyped, Between, Offsets
  <1>5. ASSUME NEW o \in Between(session.pos, session.pos + n)
        PROVE  \E i \in 1 .. n : b[i].offset = o
    <2>1. o - session.pos + 1 \in 1 .. n /\ session.pos + (o - session.pos + 1) - 1 = o
      BY DEF KafkaTyped, Between, Offsets
    <2> QED  BY <1>1, <2>1
  <1> QED  BY <1>1, <1>3, <1>4, <1>5 DEF b

LEMMA ReadBatchKeeps ==
    ASSUME KafkaInv, NEW n \in 1 .. PAGE_SIZE, NEW known, ReadBatch(n, known)
    PROVE  KafkaInv'
  <1>1. /\ run.phase = "read" /\ session.pos + n <= end
        /\ UNCHANGED <<cfg, first, end, committed, stage, told, skipped, again>>
        /\ KafkaTyped /\ Holds /\ (explicit_group => Passed /\ Once /\ MessagesAccounted)
        /\ explicit_group' = explicit_group /\ session.assigned /\ n \in Nat
    BY KafkaAssumption DEF ReadBatch, KafkaInv, explicit_group, KafkaTyped, Moves
  <1> DEFINE b == Polled(n, known)
             P == Between(session.pos, session.pos + n)
  <1>2. IsList(b) /\ {b[i].offset : i \in DOMAIN b} = P
    BY <1>1, PageRead
  <1> HIDE DEF b, P
  <1>3. /\ IsRun(run') /\ run'.phase = "commit" /\ run'.batch = b
        /\ run'.got = run.got /\ run'.created = run.created
    BY <1>1 DEF ReadBatch, KafkaTyped, IsRun, RunFields, b
  <1>4. IsSession(session') /\ session'.assigned /\ session'.pos = session.pos + n
    BY <1>1 DEF ReadBatch, KafkaTyped, IsSession, SessionKeys
  <1>5. InBatch' = P /\ InBatch = {} /\ Dropped' = run.got \union P /\ Dropped = run.got
    BY <1>1, <1>2, <1>3 DEF InBatch, Holds, Dropped
  <1>6. \A o \in P : o \in Offsets /\ session.pos <= o /\ o < session.pos + n
    BY DEF P, Between
  <1>7. KafkaTyped'
    BY <1>1, <1>2, <1>3, <1>4 DEF KafkaTyped
  <1>8. Holds'
    <2>1. \A o \in Dropped' : o \in Offsets /\ o < session'.pos
      BY <1>1, <1>4, <1>5, <1>6 DEF Holds, KafkaTyped, Offsets
    <2> QED  BY <1>1, <1>3, <1>5, <2>1 DEF Holds, Moves
  <1>9. ASSUME explicit_group  PROVE Passed' /\ Once' /\ MessagesAccounted'
    <2>1. Passed'
      <3>1. ASSUME NEW o \in Offsets, o < session.pos + n, ~(o < session.pos)  PROVE o \in P
        BY <1>1, <3>1 DEF P, Between, Offsets, KafkaTyped
      <3>2. ASSUME NEW o \in Offsets, session.pos + n <= o  PROVE session.pos <= o
        BY <1>1, <3>2 DEF Offsets, KafkaTyped
      <3> QED  BY <1>1, <1>4, <1>5, <1>9, <3>1, <3>2 DEF Passed
    <2>2. Once'
      <3>1. ASSUME NEW o \in P  PROVE told[o] = 0 \/ o \in again
        BY <1>1, <1>6, <1>9, <3>1 DEF Passed, Once, KafkaTyped, IsCount
      <3> QED  BY <1>1, <1>3, <1>5, <1>9, <3>1 DEF Once
    <2>3. MessagesAccounted'
      BY <1>1, <1>5, <1>9 DEF MessagesAccounted
    <2> QED  BY <2>1, <2>2, <2>3
  <1> QED  BY <1>1, <1>7, <1>8, <1>9 DEF KafkaInv

LEMMA CommitKeeps ==
    ASSUME KafkaInv, Commit
    PROVE  KafkaInv'
  <1>1. /\ run.phase = "commit" /\ UNCHANGED <<cfg, first, end, session, stage, told, skipped>>
        /\ KafkaTyped /\ Holds /\ (explicit_group => Passed /\ Once /\ MessagesAccounted)
        /\ explicit_group' = explicit_group /\ session.assigned
    BY DEF Commit, KafkaInv, explicit_group, KafkaTyped, Moves
  <1>2. /\ IsRun(run') /\ run'.phase = "append"
        /\ run'.batch = run.batch /\ run'.got = run.got /\ run'.created = run.created
    BY <1>1 DEF Commit, KafkaTyped, IsRun, RunFields
  <1>3. InBatch' = InBatch /\ Dropped' = Dropped
    BY <1>2 DEF InBatch, Dropped
  <1>4. \/ ~explicit_group /\ UNCHANGED <<committed, again>>
        \/ explicit_group /\ committed' = session.pos /\ again' = again
        \/ explicit_group /\ again' = again \cup InBatch /\ committed' = committed
    BY DEF Commit
  <1>5. KafkaTyped'
    <2>1. committed' \in Int /\ -1 <= committed' /\ committed' <= end
      BY <1>1, <1>4 DEF KafkaTyped
    <2> QED  BY <1>1, <1>2, <2>1 DEF KafkaTyped
  <1>6. Holds'
    BY <1>1, <1>2, <1>3 DEF Holds, Moves
  <1>7. ASSUME explicit_group, committed' = session.pos, again' = again
        PROVE  Passed' /\ Once' /\ MessagesAccounted'
    <2>1. \A o \in Dropped : o < committed'
      BY <1>1, <1>7 DEF Holds
    <2>2. \A o \in Offsets : o < committed => o \in again \/ o < committed'
      BY <1>1, <1>7 DEF Passed, KafkaTyped, Offsets
    <2>3. Passed'
      BY <1>1, <1>7 DEF Passed, KafkaTyped, Offsets
    <2>4. Once'
      BY <1>1, <1>3, <1>7, <2>1, <2>2 DEF Once, Dropped
    <2>5. \A o \in Offsets : o < session.pos => told[o] > 0 \/ o \in skipped \union again \union Dropped
      BY <1>1, <1>7 DEF Passed, MessagesAccounted
    <2>6. MessagesAccounted'
      BY <1>1, <1>3, <1>7, <2>5 DEF MessagesAccounted
    <2> QED  BY <2>3, <2>4, <2>6
  <1>8. ASSUME explicit_group, again' = again \cup InBatch, committed' = committed
        PROVE  Passed' /\ Once' /\ MessagesAccounted'
    BY <1>1, <1>3, <1>8 DEF Passed, Once, MessagesAccounted, Dropped
  <1> QED  BY <1>1, <1>4, <1>5, <1>6, <1>7, <1>8 DEF KafkaInv

LEMMA AppendPageKeeps ==
    ASSUME KafkaInv, AppendPage
    PROVE  KafkaInv'
  <1>1. /\ run.phase = "append" /\ UNCHANGED <<cfg, first, end, committed, session, told, skipped, again>>
        /\ KafkaTyped /\ Holds /\ (explicit_group => Passed /\ Once /\ MessagesAccounted)
        /\ explicit_group' = explicit_group /\ session.assigned
    BY DEF AppendPage, KafkaInv, explicit_group, KafkaTyped, Moves
  <1>2. /\ IsRun(run') /\ run'.phase = "read" /\ run'.batch = <<>>
        /\ run'.got = run.got \union InBatch /\ run'.created
    BY <1>1 DEF AppendPage, KafkaTyped, IsRun, RunFields
  <1>3. InBatch' = {} /\ Dropped' = Dropped
    BY <1>2, EmptyList DEF InBatch, Dropped
  <1> DEFINE s == IF run.created THEN stage ELSE <<>>
             t == Rows(run.batch)
  <1>4. IsList(s) /\ {s[i].offset : i \in DOMAIN s} = run.got
    <2>1. CASE run.created
      BY <1>1, <2>1 DEF KafkaTyped, Holds
    <2>2. CASE ~run.created
      BY <1>1, <2>2, EmptyList DEF Holds
    <2> QED  BY <2>1, <2>2
  <1>5. IsList(t) /\ {t[i].offset : i \in DOMAIN t} = InBatch
    <2>1. IsList(run.batch)
      BY <1>1 DEF KafkaTyped
    <2>2. \E m \in Nat : DOMAIN run.batch = 1 .. m
      BY <2>1 DEF IsList
    <2>3. DOMAIN t = DOMAIN run.batch /\ t = [i \in DOMAIN run.batch |-> t[i]]
          /\ \A i \in DOMAIN t : t[i].offset = run.batch[i].offset
      BY DEF Rows, Row
    <2> HIDE DEF t
    <2>4. IsList(t)
      BY <2>2, <2>3 DEF IsList
    <2> QED  BY <2>3, <2>4 DEF InBatch
  <1>6. stage' = s \o t
    BY DEF AppendPage
  <1> HIDE DEF s, t
  <1>7. Joins(s \o t, s, t)
    <2>1. IsList(s) /\ IsList(t)
      BY <1>4, <1>5
    <2> QED  BY <2>1, ListsTogether
  <1>8. IsList(stage') /\ {stage'[i].offset : i \in DOMAIN stage'} = run.got \union InBatch
    <2> DEFINE c == s \o t
    <2>1. /\ \A i \in DOMAIN c : c[i].offset \in run.got \union InBatch
          /\ \A o \in run.got \union InBatch : \E i \in DOMAIN c : c[i].offset = o
      BY <1>4, <1>5, <1>7 DEF Joins
    <2> HIDE DEF c
    <2>2. {c[i].offset : i \in DOMAIN c} = run.got \union InBatch
      BY <2>1
    <2> QED  BY <1>6, <1>7, <2>2 DEF c, Joins
  <1>9. KafkaTyped'
    <2>1. IsList(run'.batch)
      BY <1>2, EmptyList
    <2> QED  BY <1>1, <1>2, <1>8, <2>1 DEF KafkaTyped
  <1>10. Holds'
    BY <1>1, <1>2, <1>3, <1>8 DEF Holds, Moves
  <1>11. explicit_group => Passed' /\ Once' /\ MessagesAccounted'
    BY <1>1, <1>2, <1>3 DEF Passed, Once, MessagesAccounted, Dropped
  <1> QED  BY <1>1, <1>9, <1>10, <1>11 DEF KafkaInv

LEMMA EndOfRunKeeps ==
    ASSUME KafkaInv, NEW keep \in BOOLEAN, EndOfRun(keep)
    PROVE  KafkaInv'
  <1>1. /\ run.phase = "read" /\ UNCHANGED <<cfg, first, end, committed, skipped, again>>
        /\ KafkaTyped /\ Holds /\ (explicit_group => Passed /\ Once /\ MessagesAccounted)
        /\ explicit_group' = explicit_group
    BY DEF EndOfRun, KafkaInv, explicit_group
  <1>2. /\ IsRun(run') /\ run'.phase = "idle" /\ run'.batch = <<>> /\ run'.got = {} /\ ~run'.created
    BY DEF EndOfRun, NoRun, IsRun, RunFields
  <1>3. /\ IsSession(session')
        /\ \/ session' = session
           \/ session'.pos = 0 /\ ~session'.assigned
    BY <1>1 DEF EndOfRun, KafkaTyped, NoSession, IsSession, SessionKeys
  <1>4. InBatch' = {} /\ Dropped' = {} /\ Dropped = run.got
    BY <1>1, <1>2, EmptyList DEF InBatch, Dropped, Holds
  <1>5. /\ IsCount(told')
        /\ \A o \in Offsets : /\ told[o] <= told'[o]
                              /\ o \notin run.got => told'[o] = told[o]
                              /\ o \in run.got => told'[o] > 0
                              /\ told[o] = 0 => told'[o] < 2
    <2>1. \A o \in Offsets : told'[o] = IF run.created /\ InStage(o) /\ told[o] < 2 THEN told[o] + 1 ELSE told[o]
      BY DEF EndOfRun
    <2>2. told' = [o \in Offsets |-> told'[o]]
      BY DEF EndOfRun
    <2>3. \A o \in Offsets : told[o] \in Nat
      BY <1>1 DEF KafkaTyped, IsCount
    <2>4. \A o \in Offsets : o \in run.got <=> run.created /\ InStage(o)
      BY <1>1 DEF Holds, InStage
    <2> QED  BY <2>1, <2>2, <2>3, <2>4 DEF IsCount
  <1>6. KafkaTyped'
    <2>1. IsList(run'.batch) /\ IsList(stage')
      BY <1>1, <1>2, EmptyList DEF EndOfRun, KafkaTyped
    <2> QED  BY <1>1, <1>2, <1>3, <1>5, <2>1 DEF KafkaTyped, Moves
  <1>7. Holds'
    BY <1>2, <1>4 DEF Holds
  <1>8. ASSUME explicit_group  PROVE Passed' /\ Once' /\ MessagesAccounted'
    <2>1. \A o \in run.got : o \in again \/ o < committed
      BY <1>1, <1>8 DEF Once, Holds, Dropped
    <2>2. Passed'
      BY <1>1, <1>3, <1>4, <1>8, <2>1 DEF Passed
    <2>3. Once'
      BY <1>1, <1>2, <1>4, <1>5, <1>8, <2>1 DEF Once
    <2>4. MessagesAccounted'
      <3>1. ASSUME NEW o \in Offsets, told'[o] > 1  PROVE o \in again
        BY <1>1, <1>4, <1>5, <1>8, <3>1 DEF Once, MessagesAccounted, KafkaTyped, IsCount
      <3>2. ASSUME NEW o \in Offsets, o < committed  PROVE told'[o] > 0 \/ o \in skipped \union again
        BY <1>1, <1>4, <1>5, <1>8, <3>2 DEF MessagesAccounted, KafkaTyped, IsCount
      <3> QED  BY <1>1, <3>1, <3>2 DEF MessagesAccounted
    <2> QED  BY <2>2, <2>3, <2>4
  <1> QED  BY <1>1, <1>6, <1>7, <1>8 DEF KafkaInv

LEMMA EndKeeps ==
    ASSUME KafkaInv, End
    PROVE  KafkaInv'
  <1>1. /\ UNCHANGED <<cfg, first, end, committed, stage, told, again>>
        /\ skipped' = skipped \union {o \in Dropped : o < committed}
        /\ KafkaTyped /\ Holds /\ (explicit_group => Passed /\ Once /\ MessagesAccounted)
        /\ explicit_group' = explicit_group
    BY DEF End, KafkaInv, explicit_group
  <1>2. /\ IsRun(run') /\ run'.phase = "idle" /\ run'.batch = <<>> /\ run'.got = {} /\ ~run'.created
        /\ IsSession(session') /\ session'.pos = 0 /\ ~session'.assigned
    BY DEF End, NoRun, IsRun, RunFields, NoSession, IsSession, SessionKeys
  <1>3. InBatch' = {} /\ Dropped' = {}
    BY <1>2, EmptyList DEF InBatch, Dropped
  <1>4. KafkaTyped'
    <2>1. IsList(run'.batch)
      BY <1>2, EmptyList
    <2> QED  BY <1>1, <1>2, <2>1 DEF KafkaTyped, Moves
  <1>5. Holds'
    BY <1>2, <1>3 DEF Holds
  <1>6. ASSUME explicit_group  PROVE Passed' /\ Once' /\ MessagesAccounted'
    <2>1. Passed'
      BY <1>2 DEF Passed
    <2>2. Once'
      BY <1>1, <1>2, <1>3, <1>6 DEF Once
    <2>3. MessagesAccounted'
      BY <1>1, <1>3, <1>6 DEF MessagesAccounted
    <2> QED  BY <2>1, <2>2, <2>3
  <1> QED  BY <1>1, <1>4, <1>5, <1>6 DEF KafkaInv

LEMMA OthersKeep ==
    ASSUME KafkaInv, Produce \/ Retention \/ LoseSession
    PROVE  KafkaInv'
  <1>1. /\ UNCHANGED <<cfg, committed, run, stage, told, again>> /\ skipped \subseteq skipped'
        /\ KafkaTyped /\ Holds /\ (explicit_group => Passed /\ Once /\ MessagesAccounted)
        /\ explicit_group' = explicit_group
    BY DEF Produce, Retention, LoseSession, KafkaInv, explicit_group
  <1>2. first' \in Nat /\ end' \in Nat /\ first' <= end' /\ end <= end' /\ end' <= Len(Payload)
    BY <1>1, KafkaAssumption DEF Produce, Retention, LoseSession, KafkaTyped
  <1>3. \/ session' = session
        \/ /\ IsSession(session') /\ session'.pos = 0 /\ ~session'.assigned
           /\ run.phase = "idle"
    BY DEF Produce, Retention, LoseSession, NoSession, IsSession, SessionKeys
  <1>4. InBatch' = InBatch /\ Dropped' = Dropped
    BY <1>1 DEF InBatch, Dropped
  <1>5. KafkaTyped'
    BY <1>1, <1>2, <1>3 DEF KafkaTyped, Moves
  <1>6. Holds'
    <2>1. run.phase = "idle" => Dropped = {}
      BY <1>1 DEF Holds, Dropped, Moves
    <2> QED  BY <1>1, <1>3, <1>4, <2>1 DEF Holds
  <1>7. ASSUME explicit_group  PROVE Passed' /\ Once' /\ MessagesAccounted'
    BY <1>1, <1>3, <1>4, <1>7 DEF Passed, Once, MessagesAccounted
  <1> QED  BY <1>1, <1>5, <1>6, <1>7 DEF KafkaInv

(* The inductive invariant: what the position, the group's offset, the pages *)
(* in hand and the runs that ended say of each message (kafka_read_batch,    *)
(* kafka_assign_all, run_connector_step).                                    *)
THEOREM KafkaInvariant == KafkaSpec => []KafkaInv
  <1>1. KafkaInit => KafkaInv
    BY KafkaStarts
  <1>2. KafkaInv /\ [KafkaNext]_kafkaVars => KafkaInv'
    <2> SUFFICES ASSUME KafkaInv, [KafkaNext]_kafkaVars  PROVE KafkaInv'
      OBVIOUS
    <2>1. CASE OpenSession \/ (\E known \in BOOLEAN : AssignAll(known)) \/ Describe \/ OutOfRange
      BY <2>1, OpenSessionKeeps, AssignAllKeeps, DescribeKeeps, OutOfRangeKeeps
    <2>2. CASE (\E n \in 1 .. PAGE_SIZE : \E known \in SUBSET Schemas : ReadBatch(n, known)) \/ Commit \/ AppendPage
      BY <2>2, ReadBatchKeeps, CommitKeeps, AppendPageKeeps
    <2>3. CASE (\E keep \in BOOLEAN : EndOfRun(keep)) \/ ReadFails \/ KafkaCrash
      BY <2>3, EndOfRunKeeps, EndKeeps DEF ReadFails, KafkaCrash
    <2>4. CASE Produce \/ Retention \/ LoseSession
      BY <2>4, OthersKeep
    <2>5. CASE UNCHANGED kafkaVars
      <3>1. explicit_group' = explicit_group /\ InBatch' = InBatch
        BY <2>5 DEF kafkaVars, explicit_group, InBatch
      <3> QED  BY <2>5, <3>1 DEF kafkaVars, KafkaInv, KafkaTyped, Holds, Passed, Once, MessagesAccounted, Dropped
    <2> QED  BY <2>1, <2>2, <2>3, <2>4, <2>5 DEF KafkaNext
  <1> QED  BY <1>1, <1>2, PTL DEF KafkaSpec

(* Of an incremental step no message the group's offset has passed is lost   *)
(* or loaded twice, but for those the reader was moved past or may read      *)
(* again: with any pages, commits that fail, resets, retention and runs that *)
(* are cut short (kafka_read_batch, run_connector_step).                     *)
THEOREM MessagesAreAccounted == KafkaSpec => []MessagesAccounted
  <1>1. KafkaInv => MessagesAccounted
    BY DEF KafkaInv, MessagesAccounted
  <1> QED  BY <1>1, KafkaInvariant, PTL

-----------------------------------------------------------------------------
(***************************************************************************)
(* Dimension.  The invariant says that what is in the target and what is   *)
(* still to be appended are together one rebuild, as far as the ceiling of *)
(* a result lets it (Rebuilt); the lemmas before it say what a rebuild     *)
(* makes of an ordered history, and that a prefix of an ordered history is *)
(* one, which is what the ceiling and a crash leave of it.                 *)
(***************************************************************************)
(* The rows of a target: versions, numbered, at most the last of a key open. *)
VersionFields == {"key", "val", "at", "hash", "to", "flag", "from", "ver"}
IsVersion(v) ==
    /\ v = [f \in VersionFields |-> v[f]]
    /\ v.at \in Nat /\ v.from \in Nat /\ v.to \in Nat /\ v.ver \in Nat /\ v.hash = v.val
IsTable(rows) == IsList(rows) /\ \A i \in DOMAIN rows : IsVersion(rows[i])
UpTo(i, rows) == {j \in VersionsOf(rows[i].key, rows) : j <= i}
Ordered(rows) ==
    \A i \in DOMAIN rows :
        /\ rows[i].ver = Cardinality(UpTo(i, rows))
        /\ IsOpen(rows[i]) => After(i, rows) = {}
        /\ rows[i].flag = IF IsOpen(rows[i]) THEN 1 ELSE 0

(* What a rebuild at the time t makes of a source and of a target, and       *)
(* whether the ceiling cut it.                                               *)
Rebuilt(src, before, t, cut, made) ==
    /\ src \in Snapshots /\ ~Refused(src)
    /\ IsTable(before) /\ Ordered(before)
    /\ cut = (Len(History(mode, src, before, t)) > MAX_RS_ROWS)
    /\ made = Capped(History(mode, src, before, t))

StepFields == {"at", "src", "before", "out", "cut"}
DimTyped ==
    /\ source \in Snapshots /\ clock \in Nat \ {0} /\ IsTable(target)
    /\ step = [f \in StepFields |-> step[f]] /\ step.at \in {"idle", "read", "write"}
    /\ step.at # "idle" => step.src \in Snapshots /\ last.said # "ok"
    /\ step.at = "write" => IsList(step.out)
DimInv ==
    /\ DimTyped /\ Ordered(target)
    /\ step.at = "write" => \E t \in 1 .. clock : Rebuilt(step.src, step.before, t, step.cut, target \o step.out)
    /\ last.said = "ok" /\ step.at = "idle" => \E t \in 1 .. clock : Rebuilt(last.src, last.before, t, last.cut, target)

(* A first of the largest, in a set of places of a sequence.                 *)
LEMMA BestOf ==
    ASSUME NEW N \in Nat, NEW V \in SUBSET (1 .. N), V # {}, NEW f, \A j \in V : f[j] \in Nat
    PROVE  \E i \in V : \A j \in V : f[j] < f[i] \/ (f[j] = f[i] /\ i <= j)
  <1> DEFINE Low(n) == {j \in V : j <= n}
             Ok(n) == Low(n) = {} \/ \E i \in Low(n) : \A j \in Low(n) : f[j] < f[i] \/ (f[j] = f[i] /\ i <= j)
             Bad == {n \in 0 .. N : ~Ok(n)}
  <1>0. \A j \in V : j \in Nat /\ 1 <= j /\ j <= N
    OBVIOUS
  <1>1. Ok(0)
    <2>1. \A j \in V : ~(j <= 0)
      BY <1>0
    <2>2. Low(0) = {}
      BY <2>1
    <2> HIDE DEF Low
    <2> QED  BY <2>2
  <1>2. ASSUME NEW n \in 0 .. (N - 1), Ok(n)  PROVE Ok(n + 1)
    <2>1. CASE n + 1 \notin V
      <3>1. \A j \in V : j <= n + 1 <=> j <= n
        BY <1>0, <2>1
      <3>2. Low(n + 1) = Low(n)
        BY <3>1
      <3> HIDE DEF Low
      <3> QED  BY <1>2, <3>2
    <2>2. CASE n + 1 \in V /\ Low(n) = {}
      <3>1. \A j \in V : j <= n + 1 <=> j <= n \/ j = n + 1
        BY <1>0
      <3>2. Low(n + 1) = {n + 1}
        BY <2>2, <3>1
      <3> HIDE DEF Low
      <3> QED  BY <1>0, <2>2, <3>2
    <2>3. ASSUME n + 1 \in V, NEW i \in Low(n), \A j \in Low(n) : f[j] < f[i] \/ (f[j] = f[i] /\ i <= j)
          PROVE  Ok(n + 1)
      <3>0. \A j \in V : j <= n + 1 <=> j <= n \/ j = n + 1
        BY <1>0
      <3>1. Low(n + 1) = Low(n) \union {n + 1} /\ i \in Low(n + 1) /\ n + 1 \in Low(n + 1)
            /\ \A j \in Low(n + 1) : f[j] \in Nat /\ j \in Nat
        BY <1>0, <2>3, <3>0
      <3>2. i <= n + 1
        BY <2>3, <3>0
      <3> HIDE DEF Low
      <3>3. CASE f[n + 1] > f[i]
        <4>1. \A j \in Low(n + 1) : f[j] < f[n + 1] \/ (f[j] = f[n + 1] /\ n + 1 <= j)
          BY <2>3, <3>1, <3>3
        <4> QED  BY <3>1, <4>1
      <3>4. CASE ~(f[n + 1] > f[i])
        <4>1. \A j \in Low(n + 1) : f[j] < f[i] \/ (f[j] = f[i] /\ i <= j)
          BY <2>3, <3>1, <3>2, <3>4
        <4> QED  BY <3>1, <4>1
      <3> QED  BY <3>3, <3>4
    <2> HIDE DEF Low
    <2> QED  BY <1>2, <2>1, <2>2, <2>3
  <1>3. Low(N) = V
    BY <1>0
  <1> HIDE DEF Ok
  <1>4. ASSUME Bad # {}  PROVE FALSE
    <2>1. PICK b \in Bad : \A n \in Bad : b <= n
      <3>1. Bad \in SUBSET Nat
        OBVIOUS
      <3> HIDE DEF Bad
      <3> QED  BY <1>4, <3>1, NatMin
    <2>2. b # 0
      BY <1>1, <2>1
    <2>3. b - 1 \in 0 .. (N - 1) /\ b - 1 \in 0 .. N /\ ~(b <= b - 1) /\ (b - 1) + 1 = b
      BY <2>1, <2>2
    <2>4. Ok(b - 1)
      BY <2>1, <2>3
    <2> QED  BY <1>2, <2>1, <2>3, <2>4
  <1>5. Ok(N)
    BY <1>4
  <1> HIDE DEF Low
  <1> QED  BY <1>3, <1>5 DEF Ok

LEMMA PlacesOf ==
    ASSUME NEW rows, IsList(rows), NEW k
    PROVE  /\ Len(rows) \in Nat /\ DOMAIN rows = 1 .. Len(rows)
           /\ VersionsOf(k, rows) \in SUBSET (1 .. Len(rows)) /\ IsFiniteSet(VersionsOf(k, rows))
           /\ Cardinality(VersionsOf(k, rows)) \in Nat
  <1>1. Len(rows) \in Nat /\ DOMAIN rows = 1 .. Len(rows)
    BY DEF IsList
  <1>2. VersionsOf(k, rows) \in SUBSET (1 .. Len(rows))
    BY <1>1 DEF VersionsOf
  <1>3. IsFiniteSet(1 .. Len(rows))
    BY <1>1, FS_Interval
  <1>4. IsFiniteSet(VersionsOf(k, rows))
    BY <1>2, <1>3, FS_Subset
  <1> QED  BY <1>1, <1>2, <1>4, FS_CardinalityType

LEMMA LatestIsAVersion ==
    ASSUME NEW m, NEW rows, IsTable(rows), NEW k, Known(k, rows)
    PROVE  Latest(m, k, rows) \in VersionsOf(k, rows)
  <1> DEFINE V == VersionsOf(k, rows)
             f == [j \in V |-> Time(m, rows[j])]
  <1>1. Len(rows) \in Nat /\ DOMAIN rows = 1 .. Len(rows) /\ V \in SUBSET (1 .. Len(rows)) /\ V # {}
    BY PlacesOf DEF IsTable, Known
  <1>2. \A j \in V : f[j] = Time(m, rows[j]) /\ f[j] \in Nat
    BY <1>1 DEF IsTable, IsVersion, Time
  <1> HIDE DEF V, f
  <1>3. \E i \in V : \A j \in V : f[j] < f[i] \/ (f[j] = f[i] /\ i <= j)
    BY <1>1, <1>2, BestOf
  <1>4. \E i \in V : \A j \in V :
            Time(m, rows[j]) < Time(m, rows[i]) \/ (Time(m, rows[j]) = Time(m, rows[i]) /\ i <= j)
    BY <1>2, <1>3
  <1> QED  BY <1>4 DEF Latest, V

LEMMA LastIsAVersion ==
    ASSUME NEW rows, IsList(rows), NEW k, Known(k, rows)
    PROVE  \E i \in VersionsOf(k, rows) : After(i, rows) = {} /\ UpTo(i, rows) = VersionsOf(k, rows)
  <1> DEFINE V == VersionsOf(k, rows)
             f == [j \in V |-> j]
  <1>1. Len(rows) \in Nat /\ DOMAIN rows = 1 .. Len(rows) /\ V \in SUBSET (1 .. Len(rows)) /\ V # {}
    BY PlacesOf DEF Known
  <1>2. \A j \in V : f[j] = j /\ f[j] \in Nat /\ rows[j].key = k
    BY <1>1 DEF VersionsOf
  <1> HIDE DEF f
  <1>3. PICK i \in V : \A j \in V : f[j] < f[i] \/ (f[j] = f[i] /\ i <= j)
    <2> HIDE DEF V
    <2> QED  BY <1>1, <1>2, BestOf
  <1>4. \A j \in V : j <= i
    BY <1>1, <1>2, <1>3
  <1>5. rows[i].key = k
    BY <1>2
  <1>6. After(i, rows) = {} /\ UpTo(i, rows) = V
    BY <1>1, <1>4, <1>5 DEF After, UpTo
  <1> QED  BY <1>6

(* The number a version more of a key gets.                                  *)
LEMMA NextNumber ==
    ASSUME NEW rows, IsTable(rows), Ordered(rows), NEW k
    PROVE  1 + Max({0} \union {rows[i].ver : i \in VersionsOf(k, rows)}) = Cardinality(VersionsOf(k, rows)) + 1
  <1> DEFINE V == VersionsOf(k, rows)
             S == {0} \union {rows[i].ver : i \in V}
             c == Cardinality(V)
  <1>1. c \in Nat /\ IsFiniteSet(V) /\ Len(rows) \in Nat /\ DOMAIN rows = 1 .. Len(rows)
        /\ V \in SUBSET (1 .. Len(rows)) /\ IsList(rows)
    BY PlacesOf DEF IsTable
  <1>2. \A i \in V : rows[i].ver = Cardinality(UpTo(i, rows)) /\ rows[i].key = k /\ UpTo(i, rows) \in SUBSET V
    BY DEF Ordered, VersionsOf, UpTo
  <1>3. \A i \in V : rows[i].ver \in Nat /\ rows[i].ver <= c
    <2> HIDE DEF V
    <2>1. \A i \in V : Cardinality(UpTo(i, rows)) \in Nat /\ Cardinality(UpTo(i, rows)) <= c
      BY <1>1, <1>2, FS_Subset, FS_CardinalityType
    <2> QED  BY <1>2, <2>1
  <1>4. c \in S
    <2>1. CASE V = {}
      BY <2>1, FS_EmptySet
    <2>2. CASE V # {}
      <3>1. PICK i \in V : UpTo(i, rows) = V
        BY <1>1, <2>2, LastIsAVersion DEF Known
      <3> QED  BY <1>2, <3>1
    <2> QED  BY <2>1, <2>2
  <1>5. \A y \in S : y \in Nat /\ c >= y
    BY <1>1, <1>3
  <1> HIDE DEF S, c
  <1>6. Max(S) = c
    <2>1. \A x \in S : (\A y \in S : x >= y) => x = c
      BY <1>1, <1>4, <1>5
    <2> QED  BY <1>4, <1>5, <2>1 DEF Max
  <1> QED  BY <1>1, <1>6 DEF S, c

-----------------------------------------------------------------------------
(* What a rebuild adds: a version for every row that is new, in their order. *)
New(m, src, rows, t, q) == Version(m, src[q], rows, t)
FromSource(m, src, rows, t, s, n) ==
    /\ IsList(s)
    /\ \E h \in [DOMAIN s -> 1 .. n] :
        /\ \A p \in DOMAIN s : IsNew(m, src[h[p]], rows) /\ s[p] = New(m, src, rows, t, h[p])
        /\ \A p, r \in DOMAIN s : h[p] = h[r] => p = r
        /\ \A q \in 1 .. n : IsNew(m, src[q], rows) => \E p \in DOMAIN s : h[p] = q

LEMMA AppendIsList ==
    ASSUME NEW s, IsList(s), NEW v
    PROVE  /\ IsList(Append(s, v)) /\ Len(s) \in Nat /\ DOMAIN s = 1 .. Len(s)
           /\ DOMAIN Append(s, v) = 1 .. (Len(s) + 1) /\ Append(s, v)[Len(s) + 1] = v
           /\ \A p \in 1 .. Len(s) : Append(s, v)[p] = s[p]
  <1> DEFINE S == {s[i] : i \in DOMAIN s} \union {v}
             a == Append(s, v)
  <1>1. \A A, B : A \subseteq B => Seq(A) \subseteq Seq(B)
    OBVIOUS
  <1>2. s \in Seq(S) /\ v \in S
    BY <1>1 DEF IsList
  <1> HIDE DEF S
  <1>3. /\ a \in Seq(S) /\ Len(s) \in Nat /\ DOMAIN s = 1 .. Len(s)
        /\ DOMAIN a = 1 .. (Len(s) + 1) /\ Len(a) = Len(s) + 1 /\ a[Len(s) + 1] = v
        /\ \A p \in 1 .. Len(s) : a[p] = s[p]
    BY <1>2
  <1> HIDE DEF a
  <1>4. a \in Seq({a[i] : i \in DOMAIN a})
    BY <1>3
  <1> QED  BY <1>3, <1>4 DEF IsList, a

LEMMA OneMoreRow ==
    ASSUME NEW m, NEW src, NEW rows, NEW t, NEW s, NEW n \in Nat, FromSource(m, src, rows, t, s, n)
    PROVE  FromSource(m, src, rows, t,
                IF IsNew(m, src[n + 1], rows) THEN Append(s, New(m, src, rows, t, n + 1)) ELSE s, n + 1)
  <1>1. PICK h \in [DOMAIN s -> 1 .. n] :
        /\ \A p \in DOMAIN s : IsNew(m, src[h[p]], rows) /\ s[p] = New(m, src, rows, t, h[p])
        /\ \A p, r \in DOMAIN s : h[p] = h[r] => p = r
        /\ \A q \in 1 .. n : IsNew(m, src[q], rows) => \E p \in DOMAIN s : h[p] = q
    BY DEF FromSource
  <1>2. IsList(s)
    BY DEF FromSource
  <1>3. \A q \in 1 .. (n + 1) : q \in 1 .. n \/ q = n + 1
    OBVIOUS
  <1>4. CASE ~IsNew(m, src[n + 1], rows)
    <2>1. h \in [DOMAIN s -> 1 .. (n + 1)]
      OBVIOUS
    <2>2. \A q \in 1 .. (n + 1) : IsNew(m, src[q], rows) => \E p \in DOMAIN s : h[p] = q
      BY <1>1, <1>3, <1>4
    <2> QED  BY <1>1, <1>2, <1>4, <2>1, <2>2 DEF FromSource
  <1>5. CASE IsNew(m, src[n + 1], rows)
    <2> DEFINE v == New(m, src, rows, t, n + 1)
               a == Append(s, v)
               l == Len(s)
               g == [p \in DOMAIN a |-> IF p = l + 1 THEN n + 1 ELSE h[p]]
    <2>1. /\ IsList(a) /\ l \in Nat /\ DOMAIN s = 1 .. l /\ DOMAIN a = 1 .. (l + 1)
          /\ a[l + 1] = v /\ \A p \in 1 .. l : a[p] = s[p]
      BY <1>2, AppendIsList
    <2>2. \A p \in 1 .. (l + 1) : p \in 1 .. l \/ p = l + 1
      BY <2>1
    <2> HIDE DEF a, v, l
    <2>3. /\ \A p \in 1 .. l : g[p] = h[p] /\ h[p] \in 1 .. n /\ p \in DOMAIN a
          /\ g[l + 1] = n + 1 /\ l + 1 \in DOMAIN a
      BY <2>1
    <2>4. g \in [DOMAIN a -> 1 .. (n + 1)]
      BY <2>1, <2>2, <2>3
    <2>5. \A p \in DOMAIN a : IsNew(m, src[g[p]], rows) /\ a[p] = New(m, src, rows, t, g[p])
      BY <1>1, <1>5, <2>1, <2>2, <2>3 DEF v
    <2>6. \A p, r \in DOMAIN a : g[p] = g[r] => p = r
      BY <1>1, <2>1, <2>2, <2>3
    <2>7. \A q \in 1 .. (n + 1) : IsNew(m, src[q], rows) => \E p \in DOMAIN a : g[p] = q
      BY <1>1, <1>3, <2>1, <2>3
    <2> HIDE DEF g
    <2>8. FromSource(m, src, rows, t, a, n + 1)
      BY <2>1, <2>4, <2>5, <2>6, <2>7 DEF FromSource
    <2> QED  BY <1>5, <2>8 DEF a, v
  <1> QED  BY <1>4, <1>5

(* The recursion of Added is well defined.                                   *)
More(m, src, rows, t, s, n) ==
    IF IsNew(m, src[n], rows) THEN Append(s, New(m, src, rows, t, n)) ELSE s
AddSteps(m, src, rows, t, g, n) ==
    /\ g = [k \in 0 .. n |-> g[k]] /\ g[0] = <<>>
    /\ \A k \in 1 .. n : g[k] = More(m, src, rows, t, g[k - 1], k)

LEMMA AddedExists ==
    ASSUME NEW m, NEW src, NEW rows, NEW t, NEW N \in Nat
    PROVE  \E g : AddSteps(m, src, rows, t, g, N) /\ \A k \in 0 .. N : FromSource(m, src, rows, t, g[k], k)
  <1> DEFINE Ok(n) == \E g : AddSteps(m, src, rows, t, g, n) /\ \A k \in 0 .. n : FromSource(m, src, rows, t, g[k], k)
             Bad == {n \in 0 .. N : ~Ok(n)}
  <1>1. Ok(0)
    <2> DEFINE g == [k \in 0 .. 0 |-> <<>>]
    <2>1. FromSource(m, src, rows, t, <<>>, 0)
      <3>1. <<>> \in [DOMAIN <<>> -> 1 .. 0] /\ \A q \in 1 .. 0 : FALSE
        OBVIOUS
      <3> QED  BY <3>1, EmptyList DEF FromSource
    <2>2. g[0] = <<>> /\ (\A k \in 0 .. 0 : k = 0) /\ (\A k \in 1 .. 0 : FALSE) /\ g = [k \in 0 .. 0 |-> g[k]]
      OBVIOUS
    <2> HIDE DEF g
    <2>3. AddSteps(m, src, rows, t, g, 0)
      BY <2>2 DEF AddSteps
    <2>4. \A k \in 0 .. 0 : FromSource(m, src, rows, t, g[k], k)
      BY <2>1, <2>2
    <2> QED  BY <2>3, <2>4
  <1>2. ASSUME NEW n \in 0 .. (N - 1), Ok(n)  PROVE Ok(n + 1)
    <2>1. PICK g : AddSteps(m, src, rows, t, g, n) /\ \A k \in 0 .. n : FromSource(m, src, rows, t, g[k], k)
      BY <1>2
    <2> DEFINE s == More(m, src, rows, t, g[n], n + 1)
               e == [k \in 0 .. (n + 1) |-> IF k = n + 1 THEN s ELSE g[k]]
    <2>2. FromSource(m, src, rows, t, s, n + 1)
      BY <2>1, OneMoreRow DEF More
    <2> HIDE DEF s
    <2>3. /\ \A k \in 0 .. (n + 1) : k \in 0 .. n \/ k = n + 1
          /\ \A k \in 0 .. n : e[k] = g[k] /\ k # n + 1
          /\ e[n + 1] = s /\ e = [k \in 0 .. (n + 1) |-> e[k]]
      OBVIOUS
    <2> HIDE DEF e
    <2>4. \A k \in 0 .. (n + 1) : FromSource(m, src, rows, t, e[k], k)
      BY <2>1, <2>2, <2>3
    <2>5. AddSteps(m, src, rows, t, e, n + 1)
      <3>1. e[0] = <<>>
        BY <2>1, <2>3 DEF AddSteps
      <3>2. ASSUME NEW k \in 1 .. (n + 1)  PROVE e[k] = More(m, src, rows, t, e[k - 1], k)
        <4>0. k - 1 \in 0 .. n /\ n \in Nat
          OBVIOUS
        <4>1. k - 1 \in 0 .. n /\ e[k - 1] = g[k - 1]
          BY <2>3, <4>0
        <4>2. CASE k = n + 1
          <5>1. e[k] = s /\ k - 1 = n
            BY <2>3, <4>2
          <5> QED  BY <4>1, <4>2, <5>1 DEF s
        <4>3. CASE k # n + 1
          <5>1. k \in 1 .. n /\ k \in 0 .. n
            BY <4>0, <4>3
          <5>2. e[k] = g[k]
            BY <2>3, <5>1
          <5> QED  BY <2>1, <4>1, <5>1, <5>2 DEF AddSteps
        <4> QED  BY <4>2, <4>3
      <3> QED  BY <2>3, <3>1, <3>2 DEF AddSteps
    <2> QED  BY <2>4, <2>5
  <1> HIDE DEF Ok
  <1>4. ASSUME Bad # {}  PROVE FALSE
    <2>1. PICK b \in Bad : \A n \in Bad : b <= n
      <3>1. Bad \in SUBSET Nat
        OBVIOUS
      <3> HIDE DEF Bad
      <3> QED  BY <1>4, <3>1, NatMin
    <2>2. b # 0
      BY <1>1, <2>1
    <2>3. b - 1 \in 0 .. (N - 1) /\ b - 1 \in 0 .. N /\ ~(b <= b - 1) /\ (b - 1) + 1 = b
      BY <2>1, <2>2
    <2>4. Ok(b - 1)
      BY <2>1, <2>3
    <2> QED  BY <1>2, <2>1, <2>3, <2>4
  <1>5. Ok(N)
    BY <1>4
  <1> QED  BY <1>5 DEF Ok

LEMMA AddedComesFrom ==
    ASSUME NEW m, NEW src, IsList(src), NEW rows, NEW t
    PROVE  FromSource(m, src, rows, t, Added(m, src, rows, t), Len(src))
  <1> DEFINE n == Len(src)
             Unfold(g) == [k \in 0 .. n |->
                IF k = 0 THEN <<>>
                ELSE IF IsNew(m, src[k], rows) THEN Append(g[k - 1], Version(m, src[k], rows, t)) ELSE g[k - 1]]
             f == CHOOSE g : g = Unfold(g)
  <1>1. n \in Nat /\ 0 \in 0 .. n /\ n \in 0 .. n
    BY PlacesOf
  <1>2. Added(m, src, rows, t) = f[n]
    BY DEF Added
  <1>3. PICK g : AddSteps(m, src, rows, t, g, n) /\ \A k \in 0 .. n : FromSource(m, src, rows, t, g[k], k)
    <2> HIDE DEF n
    <2> QED  BY <1>1, AddedExists
  <1>4. g = Unfold(g)
    <2>1. g = [k \in 0 .. n |-> g[k]]
      BY <1>3 DEF AddSteps
    <2>2. \A k \in 0 .. n : k = 0 \/ k \in 1 .. n
      BY <1>1
    <2>3. \A k \in 0 .. n : g[k] = IF k = 0 THEN <<>>
                ELSE IF IsNew(m, src[k], rows) THEN Append(g[k - 1], Version(m, src[k], rows, t)) ELSE g[k - 1]
      BY <1>3, <2>2 DEF AddSteps, More, New
    <2> QED  BY <2>1, <2>3, Zenon
  <1>5. f = Unfold(f)
    BY <1>4
  <1> HIDE DEF f
  <1>6. \A k \in 0 .. n : f[k] = IF k = 0 THEN <<>>
                ELSE IF IsNew(m, src[k], rows) THEN Append(f[k - 1], Version(m, src[k], rows, t)) ELSE f[k - 1]
    BY <1>5
  <1> DEFINE Differ == {k \in 0 .. n : f[k] # g[k]}
  <1>7. ASSUME Differ # {}  PROVE FALSE
    <2>1. PICK b \in Differ : \A k \in Differ : b <= k
      <3>1. Differ \in SUBSET Nat
        BY <1>1
      <3> HIDE DEF Differ
      <3> QED  BY <1>7, <3>1, NatMin
    <2>2. b # 0
      BY <1>1, <1>3, <1>6, <2>1 DEF AddSteps
    <2>3. b \in 1 .. n /\ b - 1 \in 0 .. n /\ ~(b <= b - 1)
      BY <1>1, <2>1, <2>2
    <2>4. f[b - 1] = g[b - 1]
      BY <2>1, <2>3
    <2> QED  BY <1>3, <1>6, <2>1, <2>2, <2>3, <2>4 DEF AddSteps, More, New
  <1> QED  BY <1>1, <1>2, <1>3, <1>7

(* What a rebuild keeps: every version, closed or flagged.                   *)
Carries(c, m, src, rows, t) ==
    /\ IsTable(c) /\ DOMAIN c = DOMAIN rows
    /\ \A i \in DOMAIN rows :
        /\ c[i].key = rows[i].key /\ c[i].ver = rows[i].ver /\ c[i].val = rows[i].val
        /\ IF IsOpen(rows[i]) /\ rows[i].key \in ClosedKeys(m, src, rows)
           THEN c[i].to = t /\ c[i].flag = 0
           ELSE /\ c[i] = [rows[i] EXCEPT !.flag = IF IsOpen(rows[i]) THEN 1 ELSE 0]
                /\ c[i].to = rows[i].to
                /\ c[i].flag = IF IsOpen(rows[i]) THEN 1 ELSE 0

LEMMA CarriedIs ==
    ASSUME NEW m, NEW src, NEW rows, IsTable(rows), NEW t \in Nat
    PROVE  Carries(Carried(m, src, rows, t), m, src, rows, t)
  <1> DEFINE c == Carried(m, src, rows, t)
  <1>1. /\ DOMAIN c = DOMAIN rows /\ c = [i \in DOMAIN rows |-> c[i]]
        /\ \A i \in DOMAIN rows :
             c[i] = IF IsOpen(rows[i]) /\ rows[i].key \in ClosedKeys(m, src, rows)
                    THEN [rows[i] EXCEPT !.to = t, !.flag = 0]
                    ELSE [rows[i] EXCEPT !.flag = IF IsOpen(rows[i]) THEN 1 ELSE 0]
    BY DEF Carried
  <1>2. Len(rows) \in Nat /\ DOMAIN rows = 1 .. Len(rows)
    BY PlacesOf DEF IsTable
  <1> HIDE DEF c
  <1>3. IsList(c)
    <2> DEFINE n == Len(rows)
    <2>1. n \in Nat /\ DOMAIN c = 1 .. n /\ c = [i \in 1 .. n |-> c[i]]
      BY <1>1, <1>2
    <2> HIDE DEF n
    <2> QED  BY <2>1 DEF IsList
  <1>5. ASSUME NEW i \in DOMAIN rows
        PROVE  /\ IsVersion(c[i])
               /\ c[i].key = rows[i].key /\ c[i].ver = rows[i].ver /\ c[i].val = rows[i].val
               /\ IF IsOpen(rows[i]) /\ rows[i].key \in ClosedKeys(m, src, rows)
                  THEN c[i].to = t /\ c[i].flag = 0
                  ELSE c[i] = [rows[i] EXCEPT !.flag = IF IsOpen(rows[i]) THEN 1 ELSE 0] /\ c[i].to = rows[i].to
                       /\ c[i].flag = IF IsOpen(rows[i]) THEN 1 ELSE 0
    <2>1. IsVersion(rows[i])
      BY DEF IsTable
    <2> DEFINE b == IF IsOpen(rows[i]) THEN 1 ELSE 0
               closes == IsOpen(rows[i]) /\ rows[i].key \in ClosedKeys(m, src, rows)
    <2>2. c[i] = IF closes THEN [rows[i] EXCEPT !.to = t, !.flag = 0] ELSE [rows[i] EXCEPT !.flag = b]
      BY <1>1
    <2> DEFINE v == rows[i]
    <2>4. IsVersion(v) /\ rows[i] = v
      BY <2>1
    <2> HIDE DEF b, closes, v
    <2>3. /\ IsVersion(c[i])
          /\ c[i].key = rows[i].key /\ c[i].ver = rows[i].ver /\ c[i].val = rows[i].val
          /\ IF closes THEN c[i].to = t /\ c[i].flag = 0
             ELSE c[i] = [rows[i] EXCEPT !.flag = b] /\ c[i].to = rows[i].to /\ c[i].flag = b
      <3>1. CASE closes
        BY <2>2, <2>4, <3>1 DEF IsVersion, VersionFields
      <3>2. CASE ~closes
        BY <2>2, <2>4, <3>2 DEF IsVersion, VersionFields
      <3> QED  BY <3>1, <3>2
    <2> QED  BY <2>3 DEF b, closes
  <1>6. IsTable(c)
    BY <1>1, <1>3, <1>5 DEF IsTable
  <1> QED  BY <1>1, <1>5, <1>6 DEF c, Carries

(* The versions of the whole: those carried, at their places, and those      *)
(* added after them, of different keys.                                      *)
IsMade(w, m, src, rows, t) ==
    /\ IsList(w) /\ Len(rows) \in Nat /\ Len(rows) <= Len(w) /\ Len(w) \in Nat
    /\ DOMAIN w = 1 .. Len(w) /\ DOMAIN rows = 1 .. Len(rows)
    /\ \A i \in 1 .. Len(rows) : w[i] = Carried(m, src, rows, t)[i]
    /\ \A i \in (Len(rows) + 1) .. Len(w) :
          \E q \in 1 .. Len(src) : IsNew(m, src[q], rows) /\ w[i] = New(m, src, rows, t, q)
    /\ \A i, j \in (Len(rows) + 1) .. Len(w) : w[i].key = w[j].key => i = j
    /\ \A q \in 1 .. Len(src) : IsNew(m, src[q], rows) =>
          \E i \in (Len(rows) + 1) .. Len(w) : w[i] = New(m, src, rows, t, q)

IsAdded(v, m, r, rows, t) ==
    /\ v.key = r.key /\ v.val = r.val /\ v.hash = v.val /\ v.at = r.at
    /\ v.to = 0 /\ v.flag = 1 /\ v = [f \in VersionFields |-> v[f]]
    /\ v.from = IF m.business /\ r.at # 0 THEN r.at ELSE t
    /\ v.ver = 1 + Max({0} \union {rows[i].ver : i \in VersionsOf(r.key, rows)})
LEMMA NewIs ==
    ASSUME NEW m, NEW src, NEW rows, NEW t, NEW q
    PROVE  IsAdded(New(m, src, rows, t, q), m, src[q], rows, t)
  BY DEF New, Version, Hash, Open, VersionFields, IsAdded

LEMMA WholeIs ==
    ASSUME NEW m, NEW src \in Snapshots, ~Refused(src), NEW rows, IsTable(rows), NEW t \in Nat
    PROVE  IsMade(History(m, src, rows, t), m, src, rows, t)
  <1> DEFINE c == Carried(m, src, rows, t)
             a == Added(m, src, rows, t)
             w == c \o a
             n == Len(rows)
             k == Len(src)
  <1>1. IsList(src) /\ k \in Nat /\ DOMAIN src = 1 .. k
    <2>1. IsList(src)
      BY DimensionAssumption DEF IsList
    <2> QED  BY <2>1, PlacesOf
  <1>2. IsList(c) /\ DOMAIN c = DOMAIN rows
    <2>1. Carries(c, m, src, rows, t)
      BY CarriedIs
    <2> HIDE DEF c
    <2> QED  BY <2>1 DEF Carries, IsTable
  <1>3. n \in Nat /\ DOMAIN rows = 1 .. n /\ Len(c) = n
    <2>1. n \in Nat /\ DOMAIN rows = 1 .. n /\ Len(c) \in Nat /\ DOMAIN c = 1 .. Len(c)
      BY <1>2, PlacesOf DEF IsTable
    <2> HIDE DEF c
    <2>2. Len(c) = n
      BY <1>2, <2>1
    <2> QED  BY <2>1, <2>2
  <1>4. IsList(a) /\ FromSource(m, src, rows, t, a, k)
    <2>1. FromSource(m, src, rows, t, a, k)
      BY <1>1, AddedComesFrom
    <2> HIDE DEF a, k
    <2> QED  BY <2>1 DEF FromSource
  <1>5. Len(a) \in Nat /\ DOMAIN a = 1 .. Len(a)
    BY <1>4, PlacesOf
  <1>6. PICK h \in [DOMAIN a -> 1 .. k] :
        /\ \A p \in DOMAIN a : IsNew(m, src[h[p]], rows) /\ a[p] = New(m, src, rows, t, h[p])
        /\ \A p, r \in DOMAIN a : h[p] = h[r] => p = r
        /\ \A q \in 1 .. k : IsNew(m, src[q], rows) => \E p \in DOMAIN a : h[p] = q
    BY <1>4 DEF FromSource
  <1>7. IsList(w)
    <2> HIDE DEF c, a
    <2> QED  BY <1>2, <1>4, ListsTogether DEF Joins
  <1>8. /\ Len(w) = n + Len(a) /\ DOMAIN w = 1 .. Len(w)
        /\ \A i \in 1 .. n : w[i] = c[i]
        /\ \A i \in (n + 1) .. Len(w) : w[i] = a[i - n]
    <2> DEFINE S == {c[i] : i \in DOMAIN c} \union {a[i] : i \in DOMAIN a}
    <2>1. \A A, B : A \subseteq B => Seq(A) \subseteq Seq(B)
      OBVIOUS
    <2> HIDE DEF c, a
    <2>2. c \in Seq(S) /\ a \in Seq(S)
      BY <1>2, <1>4, <2>1 DEF IsList
    <2> HIDE DEF S
    <2> QED  BY <1>3, <1>5, <2>2
  <1>9. \A i \in (n + 1) .. Len(w) : i - n \in DOMAIN a /\ n + (i - n) = i
    BY <1>3, <1>5, <1>8
  <1>10. \A p \in DOMAIN a : n + p \in (n + 1) .. Len(w) /\ (n + p) - n = p
    BY <1>3, <1>5, <1>8
  <1> HIDE DEF w, a, c, n, k
  <1>11. \A i \in (n + 1) .. Len(w) : \E q \in 1 .. k : IsNew(m, src[q], rows) /\ w[i] = New(m, src, rows, t, q)
    BY <1>6, <1>8, <1>9
  <1>12. \A i, j \in (n + 1) .. Len(w) : w[i].key = w[j].key => i = j
    <2>1. SUFFICES ASSUME NEW i \in (n + 1) .. Len(w), NEW j \in (n + 1) .. Len(w), w[i].key = w[j].key
                   PROVE  i = j
      OBVIOUS
    <2>2. /\ i - n \in DOMAIN a /\ j - n \in DOMAIN a /\ w[i] = a[i - n] /\ w[j] = a[j - n]
          /\ h[i - n] \in 1 .. k /\ h[j - n] \in 1 .. k
      BY <1>6, <1>8, <1>9
    <2>3. w[i].key = src[h[i - n]].key /\ w[j].key = src[h[j - n]].key
      <3>1. w[i] = New(m, src, rows, t, h[i - n]) /\ w[j] = New(m, src, rows, t, h[j - n])
        BY <1>6, <2>2
      <3>2. /\ IsAdded(New(m, src, rows, t, h[i - n]), m, src[h[i - n]], rows, t)
            /\ IsAdded(New(m, src, rows, t, h[j - n]), m, src[h[j - n]], rows, t)
        BY NewIs
      <3>3. ASSUME NEW v, NEW r, IsAdded(v, m, r, rows, t)  PROVE v.key = r.key
        BY <3>3 DEF IsAdded
      <3> QED  BY <3>1, <3>2, <3>3
    <2>4. h[i - n] = h[j - n]
      BY <1>1, <2>1, <2>2, <2>3 DEF Refused
    <2> QED  BY <1>3, <1>6, <1>9, <2>2, <2>4
  <1>13. \A q \in 1 .. k : IsNew(m, src[q], rows) => \E i \in (n + 1) .. Len(w) : w[i] = New(m, src, rows, t, q)
    <2>1. SUFFICES ASSUME NEW q \in 1 .. k, IsNew(m, src[q], rows)
                   PROVE  \E i \in (n + 1) .. Len(w) : w[i] = New(m, src, rows, t, q)
      OBVIOUS
    <2>2. PICK p \in DOMAIN a : h[p] = q
      BY <1>6, <2>1
    <2> QED  BY <1>6, <1>8, <1>10, <2>2
  <1>14. n <= Len(w) /\ Len(w) \in Nat
    BY <1>3, <1>5, <1>8
  <1>15. History(m, src, rows, t) = w
    BY DEF History, w, c, a
  <1> QED  BY <1>3, <1>7, <1>8, <1>11, <1>12, <1>13, <1>14, <1>15 DEF IsMade, n, k, c

(* A rebuild keeps the numbers and leaves one version of a key open at most. *)
LEMMA WholeIsOrdered ==
    ASSUME NEW m, NEW src \in Snapshots, ~Refused(src), NEW rows, IsTable(rows), Ordered(rows), NEW t \in Nat \ {0}
    PROVE  IsTable(History(m, src, rows, t)) /\ Ordered(History(m, src, rows, t))
  <1> DEFINE w == History(m, src, rows, t)
             c == Carried(m, src, rows, t)
             n == Len(rows)
             k == Len(src)
  <1>1. IsMade(w, m, src, rows, t) /\ Carries(c, m, src, rows, t)
    BY WholeIs, CarriedIs
  <1>2. k \in Nat /\ DOMAIN src = 1 .. k /\ \A q \in 1 .. k : src[q].at \in Nat /\ src[q].deleted \in BOOLEAN
    <2>1. IsList(src)
      BY DimensionAssumption DEF IsList
    <2>2. k \in Nat /\ DOMAIN src = 1 .. k
      BY <2>1, PlacesOf
    <2> QED  BY <2>2, DimensionAssumption
  <1> HIDE DEF w, c
  <1>3. /\ IsList(w) /\ n \in Nat /\ n <= Len(w) /\ Len(w) \in Nat
        /\ DOMAIN w = 1 .. Len(w) /\ DOMAIN rows = 1 .. n
        /\ \A i, j \in (n + 1) .. Len(w) : w[i].key = w[j].key => i = j
    BY <1>1 DEF IsMade
  <1>4. \A i \in 1 .. n :
            /\ IsVersion(w[i]) /\ IsVersion(rows[i])
            /\ w[i].key = rows[i].key /\ w[i].ver = rows[i].ver
            /\ IF IsOpen(rows[i]) /\ rows[i].key \in ClosedKeys(m, src, rows)
               THEN w[i].to = t /\ w[i].flag = 0
               ELSE w[i].to = rows[i].to /\ w[i].flag = IF IsOpen(rows[i]) THEN 1 ELSE 0
    BY <1>1, <1>3 DEF IsMade, Carries, IsTable, c
  <1>5. \A i \in (n + 1) .. Len(w) : \E q \in 1 .. k :
            IsNew(m, src[q], rows) /\ IsAdded(w[i], m, src[q], rows, t)
    BY <1>1, NewIs DEF IsMade
  <1>6. \A i \in 1 .. Len(w) : i \in 1 .. n \/ i \in (n + 1) .. Len(w)
    BY <1>3
  <1>7. ASSUME NEW i \in (n + 1) .. Len(w), NEW q \in 1 .. k, IsNew(m, src[q], rows), IsAdded(w[i], m, src[q], rows, t)
        PROVE  /\ IsVersion(w[i]) /\ w[i].ver = Cardinality(UpTo(i, w))
               /\ After(i, w) = {} /\ IsOpen(w[i]) /\ w[i].flag = 1
    <2> DEFINE V == VersionsOf(src[q].key, rows)
    <2>1. /\ w[i].key = src[q].key /\ w[i].to = 0 /\ w[i].flag = 1 /\ w[i].ver = Cardinality(V) + 1
          /\ w[i].at = src[q].at /\ w[i].from \in Nat /\ w[i].hash = w[i].val /\ w[i] = [f \in VersionFields |-> w[i][f]]
      BY <1>2, <1>7, NextNumber DEF IsAdded
    <2>2. Cardinality(V) \in Nat /\ IsFiniteSet(V) /\ V \in SUBSET (1 .. n)
      BY PlacesOf DEF IsTable
    <2>3. IsVersion(w[i])
      BY <1>2, <2>1, <2>2 DEF IsVersion
    <2>4. V = {j \in 1 .. n : w[j].key = src[q].key}
      BY <1>3, <1>4 DEF VersionsOf
    <2>5. VersionsOf(w[i].key, w) = V \union {i}
      <3>1. \A j \in (n + 1) .. Len(w) : w[j].key = src[q].key <=> j = i
        BY <1>3, <2>1
      <3>2. i \in 1 .. Len(w) /\ \A j \in 1 .. n : j \in 1 .. Len(w)
        BY <1>3
      <3> HIDE DEF V
      <3> QED  BY <1>3, <1>6, <2>1, <2>4, <3>1, <3>2 DEF VersionsOf
    <2>6. i \notin V /\ \A j \in V \union {i} : j <= i /\ ~(j > i)
      BY <1>3, <2>2
    <2> HIDE DEF V
    <2>7. UpTo(i, w) = V \union {i} /\ After(i, w) = {}
      BY <2>5, <2>6 DEF UpTo, After
    <2>8. Cardinality(V \union {i}) = Cardinality(V) + 1
      BY <2>2, <2>6, FS_AddElement
    <2> QED  BY <2>1, <2>3, <2>7, <2>8 DEF IsOpen, Open
  <1>8. ASSUME NEW i \in 1 .. n
        PROVE  /\ w[i].ver = Cardinality(UpTo(i, w))
               /\ IsOpen(w[i]) => After(i, w) = {}
               /\ w[i].flag = IF IsOpen(w[i]) THEN 1 ELSE 0
    <2>1. /\ rows[i].ver = Cardinality(UpTo(i, rows))
          /\ w[i].key = rows[i].key /\ w[i].ver = rows[i].ver
      BY <1>3, <1>4 DEF Ordered
    <2>2. UpTo(i, w) = UpTo(i, rows)
      <3>1. \A j \in 1 .. Len(w) : j <= i => j \in 1 .. n
        BY <1>3
      <3>2. \A j \in 1 .. n : j \in 1 .. Len(w) /\ w[j].key = rows[j].key
        BY <1>3, <1>4
      <3> QED  BY <1>3, <2>1, <3>1, <3>2 DEF UpTo, VersionsOf
    <2>3. ASSUME IsOpen(w[i])  PROVE After(i, w) = {}
      <3>1. IsOpen(rows[i]) /\ rows[i].key \notin ClosedKeys(m, src, rows)
        BY <1>4, <2>3 DEF IsOpen, Open
      <3>2. After(i, rows) = {}
        BY <1>3, <3>1 DEF Ordered
      <3>3. ASSUME NEW j \in 1 .. Len(w), j > i, w[j].key = w[i].key  PROVE FALSE
        <4>1. CASE j \in 1 .. n
          <5>1. j \in After(i, rows)
            BY <1>3, <1>4, <3>3, <4>1 DEF After, VersionsOf
          <5> QED  BY <3>2, <5>1
        <4>2. CASE j \in (n + 1) .. Len(w)
          <5>1. PICK q \in 1 .. k : IsNew(m, src[q], rows) /\ IsAdded(w[j], m, src[q], rows, t)
            BY <1>5, <4>2
          <5>2. src[q].key = rows[i].key
            BY <2>1, <3>3, <5>1 DEF IsAdded
          <5>3. Known(src[q].key, rows)
            BY <1>3, <5>2 DEF Known, VersionsOf
          <5>4. Closes(m, src[q], rows)
            BY <5>1, <5>3 DEF IsNew, Closes
          <5> QED  BY <1>2, <3>1, <5>2, <5>4 DEF ClosedKeys
        <4> QED  BY <1>6, <4>1, <4>2
      <3> QED  BY <1>3, <3>3 DEF After, VersionsOf
    <2>4. w[i].flag = IF IsOpen(w[i]) THEN 1 ELSE 0
      BY <1>4 DEF IsOpen, Open
    <2> QED  BY <2>1, <2>2, <2>3, <2>4
  <1>9. IsTable(w)
    <2>1. \A i \in 1 .. Len(w) : IsVersion(w[i])
      BY <1>4, <1>5, <1>6, <1>7
    <2> QED  BY <1>3, <2>1 DEF IsTable
  <1>10. Ordered(w)
    <2>1. ASSUME NEW i \in 1 .. Len(w)
          PROVE  /\ w[i].ver = Cardinality(UpTo(i, w))
                 /\ IsOpen(w[i]) => After(i, w) = {}
                 /\ w[i].flag = IF IsOpen(w[i]) THEN 1 ELSE 0
      BY <1>5, <1>6, <1>7, <1>8
    <2> QED  BY <1>3, <2>1 DEF Ordered
  <1> QED  BY <1>9, <1>10 DEF w

(* The first part of a table is in order as the table is.                    *)
LEMMA PrefixIsOrdered ==
    ASSUME NEW s, IsList(s), NEW r, IsList(r), IsTable(s \o r), Ordered(s \o r)
    PROVE  IsTable(s) /\ Ordered(s)
  <1> DEFINE w == s \o r
  <1>1. /\ Len(s) \in Nat /\ Len(r) \in Nat /\ DOMAIN s = 1 .. Len(s)
        /\ DOMAIN w = 1 .. (Len(s) + Len(r)) /\ \A i \in 1 .. Len(s) : w[i] = s[i]
    <2> DEFINE S == {s[i] : i \in DOMAIN s} \union {r[i] : i \in DOMAIN r}
    <2>1. \A A, B : A \subseteq B => Seq(A) \subseteq Seq(B)
      OBVIOUS
    <2>2. s \in Seq(S) /\ r \in Seq(S)
      BY <2>1 DEF IsList
    <2> HIDE DEF S
    <2> QED  BY <2>2
  <1>2. IsTable(w) /\ Ordered(w)
    OBVIOUS
  <1> HIDE DEF w
  <1>3. \A i \in 1 .. Len(s) : i \in DOMAIN w /\ w[i] = s[i]
    BY <1>1
  <1>4. IsTable(s)
    BY <1>1, <1>2, <1>3 DEF IsTable
  <1>5. ASSUME NEW i \in 1 .. Len(s)
        PROVE  UpTo(i, s) = UpTo(i, w) /\ After(i, s) \subseteq After(i, w)
    <2>1. \A j \in DOMAIN w : j <= i => j \in 1 .. Len(s)
      BY <1>1
    <2> QED  BY <1>1, <1>3, <2>1 DEF UpTo, After, VersionsOf
  <1>6. Ordered(s)
    <2>1. ASSUME NEW i \in 1 .. Len(s)
          PROVE  /\ s[i].ver = Cardinality(UpTo(i, s))
                 /\ IsOpen(s[i]) => After(i, s) = {}
                 /\ s[i].flag = IF IsOpen(s[i]) THEN 1 ELSE 0
      BY <1>2, <1>3, <1>5 DEF Ordered
    <2> QED  BY <1>1, <2>1 DEF Ordered
  <1> QED  BY <1>4, <1>6

(* A sequence is its two parts.                                              *)
LEMMA Pieces ==
    ASSUME NEW s, IsList(s), NEW n \in Nat, n <= Len(s)
    PROVE  /\ IsList(SubSeq(s, 1, n)) /\ IsList(SubSeq(s, n + 1, Len(s)))
           /\ \A p : IsList(p) => p \o s = (p \o SubSeq(s, 1, n)) \o SubSeq(s, n + 1, Len(s))
  <1> DEFINE S == {s[i] : i \in DOMAIN s}
             a == SubSeq(s, 1, n)
             b == SubSeq(s, n + 1, Len(s))
  <1>1. s \in Seq(S) /\ Len(s) \in Nat
    BY DEF IsList
  <1> HIDE DEF S
  <1>2. a \in Seq(S) /\ Len(a) = n /\ \A i \in 1 .. n : a[i] = s[i]
    BY <1>1
  <1>3. b \in Seq(S) /\ Len(b) = Len(s) - n /\ \A i \in 1 .. (Len(s) - n) : b[i] = s[n + i]
    BY <1>1
  <1> HIDE DEF a, b
  <1>4. \A T : \A q \in Seq(T) : q \in Seq({q[i] : i \in DOMAIN q})
    OBVIOUS
  <1>5. IsList(a) /\ IsList(b)
    <2>1. a \in Seq({a[i] : i \in DOMAIN a})
      BY <1>2, <1>4
    <2>2. b \in Seq({b[i] : i \in DOMAIN b})
      BY <1>3, <1>4
    <2> QED  BY <2>1, <2>2 DEF IsList
  <1>6. ASSUME NEW p, IsList(p)  PROVE p \o s = (p \o a) \o b
    <2> DEFINE T == {p[i] : i \in DOMAIN p} \union S
               x == p \o s
               y == (p \o a) \o b
    <2>1. \A A, B : A \subseteq B => Seq(A) \subseteq Seq(B)
      OBVIOUS
    <2>2. p \in Seq(T) /\ s \in Seq(T) /\ a \in Seq(T) /\ b \in Seq(T)
      BY <1>1, <1>2, <1>3, <1>6, <2>1 DEF IsList
    <2> HIDE DEF T
    <2>12. \A u, v \in Seq(T) :
               /\ u \o v \in Seq(T) /\ Len(u \o v) = Len(u) + Len(v) /\ Len(u) \in Nat /\ Len(v) \in Nat
               /\ \A i \in 1 .. Len(u) + Len(v) : (u \o v)[i] = IF i <= Len(u) THEN u[i] ELSE v[i - Len(u)]
      OBVIOUS
    <2>3. /\ x \in Seq(T) /\ Len(x) = Len(p) + Len(s) /\ Len(p) \in Nat
          /\ \A i \in 1 .. Len(x) : x[i] = IF i <= Len(p) THEN p[i] ELSE s[i - Len(p)]
      BY <2>2
    <2>4. /\ p \o a \in Seq(T) /\ Len(p \o a) = Len(p) + n
          /\ \A i \in 1 .. Len(p) + n : (p \o a)[i] = IF i <= Len(p) THEN p[i] ELSE a[i - Len(p)]
      BY <1>2, <2>2, <2>12
    <2> DEFINE z == p \o a
    <2> HIDE DEF z
    <2>5. /\ y \in Seq(T) /\ Len(y) = Len(p) + n + (Len(s) - n)
          /\ \A i \in 1 .. Len(y) : y[i] = IF i <= Len(p) + n THEN z[i] ELSE b[i - (Len(p) + n)]
      <3>1. z \in Seq(T) /\ Len(z) = Len(p) + n
        BY <2>4 DEF z
      <3>2. y = z \o b
        BY DEF z
      <3>3. /\ z \o b \in Seq(T) /\ Len(z \o b) = Len(z) + Len(b)
            /\ \A i \in 1 .. Len(z) + Len(b) : (z \o b)[i] = IF i <= Len(z) THEN z[i] ELSE b[i - Len(z)]
        BY <2>2, <2>12, <3>1
      <3> HIDE DEF y
      <3> QED  BY <1>3, <3>1, <3>2, <3>3
    <2>6. Len(y) = Len(x)
      BY <1>1, <2>3, <2>5
    <2> HIDE DEF x, y
    <2>7. \A i \in 1 .. Len(y) : i <= Len(p) + n => y[i] = IF i <= Len(p) THEN p[i] ELSE s[i - Len(p)]
      BY <1>2, <2>3, <2>4, <2>5 DEF z
    <2>8. \A i \in 1 .. Len(y) : ~(i <= Len(p) + n) =>
                i - (Len(p) + n) \in 1 .. (Len(s) - n) /\ n + (i - (Len(p) + n)) = i - Len(p) /\ ~(i <= Len(p))
      BY <1>1, <2>3, <2>5
    <2>9. \A i \in 1 .. Len(y) : ~(i <= Len(p) + n) => y[i] = s[i - Len(p)]
      BY <1>3, <2>5, <2>8
    <2>10. \A i \in 1 .. Len(y) : x[i] = y[i]
      BY <2>3, <2>6, <2>7, <2>8, <2>9
    <2>11. \A v, u \in Seq(T) : Len(v) = Len(u) /\ (\A i \in 1 .. Len(u) : v[i] = u[i]) => v = u
      OBVIOUS
    <2> QED  BY <2>3, <2>5, <2>6, <2>10, <2>11 DEF x, y
  <1> QED  BY <1>5, <1>6 DEF a, b

LEMMA EmptyEnds ==
    ASSUME NEW s, IsList(s)
    PROVE  <<>> \o s = s /\ s \o <<>> = s
  BY DEF IsList

(* What is left of a history at the ceiling is in order as the history is.   *)
LEMMA CappedIsOrdered ==
    ASSUME NEW w, IsTable(w), Ordered(w)
    PROVE  IsTable(Capped(w)) /\ Ordered(Capped(w))
  <1>1. CASE Len(w) > MAX_RS_ROWS
    <2> DEFINE s == SubSeq(w, 1, MAX_RS_ROWS)
               r == SubSeq(w, MAX_RS_ROWS + 1, Len(w))
    <2>1. IsList(w) /\ Len(w) \in Nat /\ MAX_RS_ROWS \in Nat /\ MAX_RS_ROWS <= Len(w)
      BY <1>1, PlacesOf, DimensionAssumption DEF IsTable
    <2>2. IsList(s) /\ IsList(r) /\ <<>> \o w = (<<>> \o s) \o r
      BY <2>1, Pieces, EmptyList
    <2> HIDE DEF s, r
    <2>3. s \o r = w
      BY <2>1, <2>2, EmptyEnds
    <2>4. IsTable(s) /\ Ordered(s)
      BY <2>2, <2>3, PrefixIsOrdered
    <2> QED  BY <1>1, <2>4 DEF Capped, s
  <1>2. CASE ~(Len(w) > MAX_RS_ROWS)
    BY <1>2 DEF Capped
  <1> QED  BY <1>1, <1>2

-----------------------------------------------------------------------------
(* What a rebuild makes of the keys of the source and of the others, when    *)
(* the version picked is the open one.                                       *)
LEMMA WholeFollows ==
    ASSUME last.said = "ok", step.at = "idle", ~last.cut, PicksAreOpen,
           NEW t \in Nat \ {0}, Rebuilt(last.src, last.before, t, last.cut, target)
    PROVE  /\ \A i \in DOMAIN last.src : Mirrors(last.src[i])
           /\ \A k \in (Keys(target) \union Keys(last.before)) \ Keys(last.src) : Untouched(k)
           /\ \A i \in DOMAIN target :
                 i > Len(last.before) =>
                     \A j \in CurrentOf(target[i].key, last.before) : last.before[j].val # target[i].val
  <1> DEFINE m == mode
             src == last.src
             rows == last.before
             w == History(m, src, rows, t)
             c == Carried(m, src, rows, t)
             n == Len(rows)
             l == Len(src)
  <1>1. src \in Snapshots /\ ~Refused(src) /\ IsTable(rows) /\ Ordered(rows) /\ target = w
    BY DEF Rebuilt, Capped
  <1>2. IsMade(w, m, src, rows, t) /\ Carries(c, m, src, rows, t)
    BY <1>1, WholeIs, CarriedIs
  <1>3. l \in Nat /\ DOMAIN src = 1 .. l
    <2>1. IsList(src)
      BY <1>1, DimensionAssumption DEF IsList
    <2> QED  BY <2>1, PlacesOf
  <1>4. \A k \in Keys(rows) : IsOpen(rows[Latest(m, k, rows)])
    BY DEF PicksAreOpen
  <1> HIDE DEF w, c, m, src, rows
  <1>5. /\ n \in Nat /\ n <= Len(w) /\ Len(w) \in Nat
        /\ DOMAIN w = 1 .. Len(w) /\ DOMAIN rows = 1 .. n
        /\ \A i, j \in (n + 1) .. Len(w) : w[i].key = w[j].key => i = j
    BY <1>2 DEF IsMade
  <1>6. \A i \in 1 .. n :
            /\ IsVersion(rows[i]) /\ w[i].key = rows[i].key /\ w[i].val = rows[i].val
            /\ IF IsOpen(rows[i]) /\ rows[i].key \in ClosedKeys(m, src, rows)
               THEN w[i].to = t
               ELSE /\ w[i] = [rows[i] EXCEPT !.flag = IF IsOpen(rows[i]) THEN 1 ELSE 0]
                    /\ w[i].to = rows[i].to
    <2>1. \A i \in 1 .. n : w[i] = c[i] /\ IsVersion(rows[i])
      BY <1>1, <1>2, <1>5 DEF IsMade, IsTable, c
    <2> QED  BY <1>2, <1>5, <2>1 DEF Carries
  <1>7. \A i \in (n + 1) .. Len(w) : \E q \in 1 .. l :
            IsNew(m, src[q], rows) /\ IsAdded(w[i], m, src[q], rows, t)
    BY <1>2, NewIs DEF IsMade
  <1>8. \A q \in 1 .. l : IsNew(m, src[q], rows) =>
            \E i \in (n + 1) .. Len(w) : IsAdded(w[i], m, src[q], rows, t)
    BY <1>2, NewIs DEF IsMade
  <1>9. \A i \in 1 .. Len(w) : i \in 1 .. n \/ i \in (n + 1) .. Len(w)
    BY <1>5
  <1>10. \A p, q \in 1 .. l : src[p].key = src[q].key => p = q
    BY <1>1, <1>3 DEF Refused
  (* The version picked is the one that is open.                             *)
  <1>11. ASSUME NEW k, Known(k, rows)
         PROVE  /\ Latest(m, k, rows) \in 1 .. n /\ rows[Latest(m, k, rows)].key = k
                /\ IsOpen(rows[Latest(m, k, rows)])
                /\ \A j \in CurrentOf(k, rows) : j = Latest(m, k, rows)
    <2> DEFINE b == Latest(m, k, rows)
    <2>1. b \in VersionsOf(k, rows)
      BY <1>1, <1>11, LatestIsAVersion
    <2> HIDE DEF b
    <2>2. b \in 1 .. n /\ rows[b].key = k
      BY <1>5, <2>1 DEF VersionsOf
    <2>3. IsOpen(rows[b])
      BY <1>4, <1>5, <2>2 DEF Keys, b
    <2>4. ASSUME NEW j \in CurrentOf(k, rows)  PROVE j = b
      <3>1. j \in 1 .. n /\ rows[j].key = k /\ IsOpen(rows[j])
        BY <1>5 DEF CurrentOf, VersionsOf
      <3>2. After(j, rows) = {} /\ After(b, rows) = {}
        BY <1>1, <1>5, <2>2, <2>3, <3>1 DEF Ordered
      <3>3. ~(b > j) /\ ~(j > b)
        BY <1>5, <2>2, <3>1, <3>2 DEF After, VersionsOf
      <3> QED  BY <1>5, <2>2, <3>1, <3>3
    <2> QED  BY <2>2, <2>3, <2>4 DEF b
  <1>12. ASSUME NEW q \in 1 .. l, src[q].key \in ClosedKeys(m, src, rows)  PROVE Closes(m, src[q], rows)
    BY <1>3, <1>10, <1>12 DEF ClosedKeys
  <1>13. ASSUME NEW q \in 1 .. l  PROVE Mirrors(src[q])
    <2> DEFINE k == src[q].key
    <2>1. CASE src[q].deleted
      <3>1. ASSUME NEW i \in 1 .. Len(w), w[i].key = k, IsOpen(w[i])  PROVE FALSE
        <4>1. CASE i \in 1 .. n
          <5>1. rows[i].key = k /\ Known(k, rows)
            BY <1>5, <1>6, <3>1, <4>1 DEF Known, VersionsOf
          <5>2. k \in ClosedKeys(m, src, rows)
            BY <1>3, <2>1, <5>1 DEF Closes, ClosedKeys
          <5> HIDE DEF k
          <5> QED  BY <1>6, <3>1, <4>1, <5>1, <5>2 DEF IsOpen, Open
        <4>2. CASE i \in (n + 1) .. Len(w)
          <5>1. PICK p \in 1 .. l : IsNew(m, src[p], rows) /\ IsAdded(w[i], m, src[p], rows, t)
            BY <1>7, <4>2
          <5>2. src[p].key = k /\ ~src[p].deleted
            BY <3>1, <5>1 DEF IsAdded, IsNew
          <5>3. p = q
            BY <1>10, <5>2
          <5> QED  BY <2>1, <5>2, <5>3
        <4> QED  BY <1>9, <4>1, <4>2
      <3>2. CurrentOf(k, target) = {}
        BY <1>1, <1>5, <3>1 DEF CurrentOf, VersionsOf
      <3> QED  BY <2>1, <3>2 DEF Mirrors
    <2>2. CASE ~src[q].deleted
      <3>1. \E i \in 1 .. Len(w) : w[i].key = k /\ IsOpen(w[i]) /\ w[i].val = src[q].val
        <4>1. CASE IsNew(m, src[q], rows)
          <5>1. PICK i \in (n + 1) .. Len(w) : IsAdded(w[i], m, src[q], rows, t)
            BY <1>8, <4>1
          <5>2. w[i].key = k /\ w[i].to = 0 /\ w[i].val = src[q].val /\ i \in 1 .. Len(w)
            BY <1>5, <5>1 DEF IsAdded
          <5> QED  BY <5>2 DEF IsOpen, Open
        <4>2. CASE ~IsNew(m, src[q], rows)
          <5> DEFINE b == Latest(m, k, rows)
          <5>1. Known(k, rows) /\ ~Changed(m, src[q], rows[b])
            BY <2>2, <4>2 DEF IsNew
          <5>2. b \in 1 .. n /\ rows[b].key = k /\ IsOpen(rows[b])
            BY <1>11, <5>1
          <5>3. rows[b].val = src[q].val
            <6> HIDE DEF b
            <6> QED  BY <1>6, <5>1, <5>2 DEF Changed, Hash, IsVersion
          <5>4. k \notin ClosedKeys(m, src, rows)
            <6>1. ~Closes(m, src[q], rows)
              BY <2>2, <5>1 DEF Closes
            <6> QED  BY <1>12, <6>1
          <5> HIDE DEF b, k
          <5>5. b \in 1 .. Len(w)
            BY <1>5, <5>2
          <5> HIDE DEF n
          <5>6. w[b].key = k /\ w[b].val = src[q].val /\ w[b].to = rows[b].to
            BY <1>6, <5>2, <5>3, <5>4
          <5> QED  BY <5>2, <5>5, <5>6 DEF IsOpen
        <4> QED  BY <4>1, <4>2
      <3>2. \E i \in CurrentOf(k, target) : target[i].val = src[q].val
        BY <1>1, <1>5, <3>1 DEF CurrentOf, VersionsOf
      <3> QED  BY <2>2, <3>2 DEF Mirrors
    <2> QED  BY <2>1, <2>2
  <1>14. ASSUME NEW k \in (Keys(w) \union Keys(rows)) \ Keys(src)  PROVE Untouched(k)
    <2>1. \A q \in 1 .. l : src[q].key # k
      BY <1>3, <1>14 DEF Keys
    <2>2. \A i \in (n + 1) .. Len(w) : w[i].key # k
      <3>1. ASSUME NEW i \in (n + 1) .. Len(w), NEW q \in 1 .. l, IsAdded(w[i], m, src[q], rows, t)
            PROVE  w[i].key # k
        BY <2>1, <3>1 DEF IsAdded
      <3> QED  BY <1>7, <3>1
    <2>3. VersionsOf(k, w) = VersionsOf(k, rows)
      <3>1. \A i \in 1 .. n : i \in 1 .. Len(w)
        BY <1>5
      <3>2. \A i \in 1 .. n : w[i].key = rows[i].key
        <4> HIDE DEF n
        <4> QED  BY <1>6
      <3> QED  BY <1>5, <1>9, <2>2, <3>1, <3>2 DEF VersionsOf
    <2>4. k \notin ClosedKeys(m, src, rows)
      BY <1>3, <2>1 DEF ClosedKeys
    <2>5. ASSUME NEW i \in VersionsOf(k, rows)  PROVE w[i] = rows[i]
      <3> DEFINE v == rows[i]
                 f == IF IsOpen(rows[i]) THEN 1 ELSE 0
      <3>1. i \in 1 .. n /\ rows[i].key = k
        BY <1>5 DEF VersionsOf
      <3>2. w[i] = [v EXCEPT !.flag = f] /\ IsVersion(v)
        BY <1>6, <2>4, <3>1
      <3>3. v.flag = f
        BY <1>1, <1>5, <3>1 DEF Ordered
      <3> HIDE DEF v, f
      <3>4. w[i] = v
        BY <3>2, <3>3 DEF IsVersion, VersionFields
      <3> QED  BY <3>4 DEF v
    <2> QED  BY <1>1, <2>3, <2>5 DEF Untouched, rows
  <1>15. ASSUME NEW i \in DOMAIN w, i > n, NEW j \in CurrentOf(w[i].key, rows)
         PROVE  rows[j].val # w[i].val
    <2>1. i \in (n + 1) .. Len(w)
      BY <1>5, <1>15
    <2>2. PICK q \in 1 .. l : IsNew(m, src[q], rows) /\ IsAdded(w[i], m, src[q], rows, t)
      BY <1>7, <2>1
    <2> DEFINE k == src[q].key
               b == Latest(m, k, rows)
    <2>3. w[i].key = k /\ w[i].val = src[q].val
      BY <2>2 DEF IsAdded
    <2>4. Known(k, rows)
      BY <1>15, <2>3 DEF CurrentOf, Known
    <2>5. Changed(m, src[q], rows[b])
      BY <2>2, <2>4 DEF IsNew
    <2>6. j = b /\ b \in 1 .. n
      BY <1>11, <1>15, <2>3, <2>4
    <2> HIDE DEF b, k
    <2> QED  BY <1>6, <2>3, <2>5, <2>6 DEF Changed, Hash, IsVersion
  <1>16. \A q \in DOMAIN src : Mirrors(src[q])
    BY <1>3, <1>13
  <1> QED  BY <1>1, <1>14, <1>15, <1>16 DEF src, rows

(* ----- The steps of the run.                                              *)
LEMMA ReadSourceSteps ==
    ASSUME DimInv, ReadSource
    PROVE  DimInv'
  <1>1. CASE Len(source) > MAX_RS_ROWS
    <2>1. last'.said # "ok" /\ UNCHANGED <<step, source, clock, target>>
      BY <1>1 DEF ReadSource, NothingSaid
    <2> QED  BY <2>1 DEF ReadSource, DimInv, DimTyped
  <1>2. CASE ~(Len(source) > MAX_RS_ROWS)
    <2>1. /\ step' = [NoStep EXCEPT !.at = "read", !.src = source]
          /\ last' = NothingSaid /\ UNCHANGED <<source, clock, target>>
      BY <1>2 DEF ReadSource
    <2>3. last'.said # "ok"
      BY <2>1 DEF NothingSaid
    <2>2. step'.at = "read" /\ step'.src = source /\ step' = [f \in StepFields |-> step'[f]]
      BY <2>1 DEF NoStep, StepFields
    <2> QED  BY <2>1, <2>2, <2>3 DEF DimInv, DimTyped
  <1> QED  BY <1>1, <1>2

LEMMA RebuildSteps ==
    ASSUME DimInv, Rebuild
    PROVE  DimInv'
  <1>1. CASE Len(target) > MAX_RS_ROWS \/ Refused(step.src)
    <2>1. /\ step' = NoStep /\ last'.said # "ok" /\ UNCHANGED <<source, clock, target>>
      BY <1>1 DEF Rebuild, NothingSaid
    <2>2. step'.at = "idle" /\ step' = [f \in StepFields |-> step'[f]]
      BY <2>1 DEF NoStep, StepFields
    <2> QED  BY <2>1, <2>2 DEF DimInv, DimTyped
  <1>2. CASE ~(Len(target) > MAX_RS_ROWS \/ Refused(step.src))
    <2> DEFINE w == History(mode, step.src, target, clock)
               c == Capped(w)
    <2>1. /\ step' = [step EXCEPT !.at = "write", !.before = target, !.out = c, !.cut = Len(w) > MAX_RS_ROWS]
          /\ target' = <<>> /\ UNCHANGED <<mode, source, clock, last>>
      BY <1>2 DEF Rebuild
    <2>2. /\ step.src \in Snapshots /\ last.said # "ok" /\ clock \in Nat \ {0}
          /\ step = [f \in StepFields |-> step[f]] /\ IsTable(target) /\ Ordered(target)
      BY DEF Rebuild, DimInv, DimTyped
    <2>3. IsTable(c) /\ Ordered(c)
      BY <1>2, <2>2, WholeIsOrdered, CappedIsOrdered
    <2> HIDE DEF w, c
    <2>5. /\ step'.at = "write" /\ step'.src = step.src /\ step'.before = target /\ step'.out = c
          /\ step'.cut = (Len(w) > MAX_RS_ROWS) /\ step' = [f \in StepFields |-> step'[f]]
      BY <2>1, <2>2 DEF StepFields
    <2>6. IsList(c) /\ target' \o step'.out = c
      BY <2>1, <2>3, <2>5, EmptyEnds DEF IsTable
    <2>7. Rebuilt(step'.src, step'.before, clock, step'.cut, target' \o step'.out)
      BY <1>2, <2>2, <2>5, <2>6 DEF Rebuilt, w, c
    <2>8. \E t \in 1 .. clock : Rebuilt(step'.src, step'.before, t, step'.cut, target' \o step'.out)
      BY <2>2, <2>7
    <2>9. (\E t \in 1 .. clock : Rebuilt(step.src, step.before, t, step.cut, target \o step.out))'
      BY <2>1, <2>8 DEF Rebuilt
    <2>10. IsTable(<<>>) /\ Ordered(<<>>)
      BY EmptyList DEF IsTable, Ordered
    <2>11. DimTyped' /\ Ordered(target)'
      BY <2>1, <2>2, <2>5, <2>6, <2>10 DEF DimTyped, DimInv
    <2> QED  BY <2>5, <2>9, <2>11 DEF DimInv
  <1> QED  BY <1>1, <1>2

LEMMA AppendBatchSteps ==
    ASSUME DimInv, AppendBatch
    PROVE  DimInv'
  <1>1. /\ IsList(step.out) /\ IsTable(target) /\ clock \in Nat \ {0} /\ step.at = "write"
        /\ step.src \in Snapshots /\ last.said # "ok" /\ step = [f \in StepFields |-> step[f]]
        /\ source \in Snapshots
    BY DEF AppendBatch, DimInv, DimTyped
  <1>2. PICK t \in 1 .. clock : Rebuilt(step.src, step.before, t, step.cut, target \o step.out)
    BY <1>1 DEF DimInv
  <1>3. PICK n \in Nat : /\ n <= Len(step.out) /\ target' = target \o SubSeq(step.out, 1, n)
                         /\ step' = [step EXCEPT !.out = SubSeq(step.out, n + 1, Len(step.out))]
    <2>1. Len(step.out) \in Nat
      BY <1>1 DEF IsList
    <2> DEFINE n == IF Len(step.out) < BATCH_SIZE THEN Len(step.out) ELSE BATCH_SIZE
    <2>2. n \in Nat /\ n <= Len(step.out)
      BY <2>1, DimensionAssumption
    <2>3. /\ target' = target \o SubSeq(step.out, 1, n)
          /\ step' = [step EXCEPT !.out = SubSeq(step.out, n + 1, Len(step.out))]
      BY DEF AppendBatch
    <2> HIDE DEF n
    <2> QED  BY <2>2, <2>3
  <1>4. UNCHANGED <<mode, source, clock, last>>
    BY DEF AppendBatch
  <1> DEFINE b == SubSeq(step.out, n + 1, Len(step.out))
             w == target \o step.out
  <1>5. IsList(b) /\ w = target' \o b /\ IsList(SubSeq(step.out, 1, n))
    BY <1>1, <1>3, Pieces DEF IsTable
  <1>6. IsTable(w) /\ Ordered(w)
    BY <1>2, WholeIsOrdered, CappedIsOrdered DEF Rebuilt
  <1>7. IsList(target')
    BY <1>1, <1>3, <1>5, ListsTogether DEF Joins, IsTable
  <1> HIDE DEF b, w
  <1>8. IsTable(target') /\ Ordered(target')
    BY <1>5, <1>6, <1>7, PrefixIsOrdered
  <1>9. /\ step'.at = "write" /\ step'.src = step.src /\ step'.before = step.before /\ step'.out = b
        /\ step'.cut = step.cut
        /\ step' = [f \in StepFields |-> step'[f]]
    BY <1>1, <1>3 DEF StepFields, b
  <1>10. Rebuilt(step.src, step.before, t, step.cut, target \o step.out)'
    BY <1>2, <1>4, <1>5, <1>9 DEF Rebuilt, w
  <1>11. (\E x \in 1 .. clock : Rebuilt(step.src, step.before, x, step.cut, target \o step.out))'
    BY <1>4, <1>10
  <1>12. DimTyped' /\ Ordered(target)'
    BY <1>1, <1>4, <1>5, <1>8, <1>9 DEF DimTyped
  <1> QED  BY <1>9, <1>11, <1>12 DEF DimInv

LEMMA FinishSteps ==
    ASSUME DimInv, Finish
    PROVE  DimInv'
  <1>1. /\ IsTable(target) /\ clock \in Nat \ {0} /\ step.at = "write" /\ step.out = <<>>
        /\ source \in Snapshots /\ Ordered(target)
    BY DEF Finish, DimInv, DimTyped
  <1>2. PICK t \in 1 .. clock : Rebuilt(step.src, step.before, t, step.cut, target \o step.out)
    BY <1>1 DEF DimInv
  <1>3. target \o step.out = target
    BY <1>1, EmptyEnds DEF IsTable
  <1>4. /\ last' = [said |-> "ok", src |-> step.src, before |-> step.before, cut |-> step.cut]
        /\ step' = NoStep /\ UNCHANGED <<mode, source, clock, target>>
    BY DEF Finish
  <1>5. step'.at = "idle" /\ step' = [f \in StepFields |-> step'[f]]
    BY <1>4 DEF NoStep, StepFields
  <1>6. Rebuilt(last.src, last.before, t, last.cut, target)'
    BY <1>2, <1>3, <1>4 DEF Rebuilt
  <1>7. (\E x \in 1 .. clock : Rebuilt(last.src, last.before, x, last.cut, target))'
    BY <1>4, <1>6
  <1> QED  BY <1>1, <1>4, <1>5, <1>7 DEF DimInv, DimTyped

LEMMA DimCrashSteps ==
    ASSUME DimInv, DimCrash
    PROVE  DimInv'
  <1>1. step' = NoStep /\ last.said # "ok" /\ UNCHANGED <<source, clock, target, last>>
    BY DEF DimCrash, DimInv, DimTyped
  <1>2. step'.at = "idle" /\ step' = [f \in StepFields |-> step'[f]]
    BY <1>1 DEF NoStep, StepFields
  <1> QED  BY <1>1, <1>2 DEF DimInv, DimTyped

LEMMA SourceChangesSteps ==
    ASSUME DimInv, SourceChanges
    PROVE  DimInv'
  BY DEF SourceChanges, DimInv, DimTyped, Rebuilt

LEMMA ClockTicksSteps ==
    ASSUME DimInv, ClockTicks
    PROVE  DimInv'
  <1>1. clock \in Nat \ {0} /\ clock' = clock + 1 /\ UNCHANGED <<mode, source, target, step, last>>
    BY DEF ClockTicks, DimInv, DimTyped
  <1>2. \A t \in 1 .. clock : t \in 1 .. clock'
    BY <1>1
  <1>3. DimTyped' /\ Ordered(target)'
    BY <1>1 DEF DimInv, DimTyped
  <1>4. (step.at = "write" => \E t \in 1 .. clock : Rebuilt(step.src, step.before, t, step.cut, target \o step.out))'
    BY <1>1, <1>2 DEF DimInv, Rebuilt
  <1>5. (last.said = "ok" /\ step.at = "idle" => \E t \in 1 .. clock : Rebuilt(last.src, last.before, t, last.cut, target))'
    BY <1>1, <1>2 DEF DimInv, Rebuilt
  <1> QED  BY <1>3, <1>4, <1>5 DEF DimInv

(* The history invariant: what is in the target and what is still to be     *)
(* appended are together the first MAX_RS_ROWS rows of the rebuild, of the  *)
(* history that was read and of the rows of the source, and the step and    *)
(* the run that ended say whether rows were dropped; the target is thus a   *)
(* prefix of an ordered history at any point, the points of a crash too.    *)
THEOREM DimInvariant == DimSpec => []DimInv
  <1>1. DimInit => DimInv
    <2> SUFFICES ASSUME DimInit  PROVE DimInv
      OBVIOUS
    <2>1. step = [f \in StepFields |-> step[f]] /\ step.at = "idle" /\ last.said # "ok"
      BY DEF DimInit, NoStep, NothingSaid, StepFields
    <2>2. IsTable(target) /\ Ordered(target)
      BY EmptyList DEF DimInit, IsTable, Ordered
    <2> QED  BY <2>1, <2>2 DEF DimInit, DimInv, DimTyped
  <1>2. DimInv /\ [DimNext]_dimVars => DimInv'
    <2> SUFFICES ASSUME DimInv, [DimNext]_dimVars  PROVE DimInv'
      OBVIOUS
    <2>1. CASE ReadSource
      BY <2>1, ReadSourceSteps
    <2>2. CASE Rebuild
      BY <2>2, RebuildSteps
    <2>3. CASE AppendBatch
      BY <2>3, AppendBatchSteps
    <2>4. CASE Finish
      BY <2>4, FinishSteps
    <2>5. CASE DimCrash
      BY <2>5, DimCrashSteps
    <2>6. CASE SourceChanges
      BY <2>6, SourceChangesSteps
    <2>7. CASE ClockTicks
      BY <2>7, ClockTicksSteps
    <2>8. CASE UNCHANGED dimVars
      BY <2>8 DEF dimVars, DimInv, DimTyped, Rebuilt
    <2> QED  BY <2>1, <2>2, <2>3, <2>4, <2>5, <2>6, <2>7, <2>8 DEF DimNext
  <1> QED  BY <1>1, <1>2, PTL DEF DimSpec

(* The versions of a key are numbered in order, none but the last is open,  *)
(* and the flag says which: in every state, so also in a target that the    *)
(* ceiling or a crash cut short and that the next run reads as its history  *)
(* (run_scd2_step, rs_add).                                                 *)
THEOREM VersionsStayOrdered == DimSpec => []OneCurrentVersion
  <1>1. DimInv => OneCurrentVersion
    <2> SUFFICES ASSUME DimInv, NEW i \in DOMAIN target
                 PROVE  /\ target[i].ver = Cardinality(VersionsOf(target[i].key, target) \ After(i, target))
                        /\ IsOpen(target[i]) => After(i, target) = {}
                        /\ target[i].flag = IF IsOpen(target[i]) THEN 1 ELSE 0
      BY DEF OneCurrentVersion
    <2>1. IsTable(target) /\ Ordered(target)
      BY DEF DimInv, DimTyped
    <2>2. Len(target) \in Nat /\ DOMAIN target = 1 .. Len(target)
      BY <2>1, PlacesOf DEF IsTable
    <2>3. UpTo(i, target) = VersionsOf(target[i].key, target) \ After(i, target)
      BY <2>2 DEF UpTo, After, VersionsOf
    <2> QED  BY <2>1, <2>3 DEF Ordered
  <1> QED  BY <1>1, DimInvariant, PTL

(* A run that ended well, over a history whose current versions are those   *)
(* that the rows were compared with, and that the ceiling did not cut, as   *)
(* it does unasked (CutIsRefused), leaves the target as the source says:    *)
(* each row of it current, the keys it deletes closed, the others untouched,*)
(* and a new version only where something differs (run_scd2_step).          *)
THEOREM DimensionIsFollowed == DimSpec => []DimensionFollows
  <1>1. DimInv => DimensionFollows
    <2> SUFFICES ASSUME DimInv, last.said = "ok", step.at = "idle", ~last.cut, PicksAreOpen
                 PROVE  /\ \A i \in DOMAIN last.src : Mirrors(last.src[i])
                        /\ \A k \in (Keys(target) \union Keys(last.before)) \ Keys(last.src) : Untouched(k)
                        /\ \A i \in DOMAIN target :
                              i > Len(last.before) =>
                                  \A j \in CurrentOf(target[i].key, last.before) : last.before[j].val # target[i].val
      BY DEF DimensionFollows
    <2>1. PICK t \in 1 .. clock : Rebuilt(last.src, last.before, t, last.cut, target)
      BY DEF DimInv
    <2>2. t \in Nat \ {0}
      BY <2>1 DEF DimInv, DimTyped
    <2> QED  BY <2>1, <2>2, WholeFollows
  <1> QED  BY <1>1, DimInvariant, PTL

-----------------------------------------------------------------------------
(***************************************************************************)
(* Connections.  The invariant says of every record, in the directory or   *)
(* in the hands of a request, that its secrets were typed for its id, and  *)
(* of every session of a run that its setting is that of the record the    *)
(* run looked up.                                                          *)
(***************************************************************************)
Actors == Clients \union {Sweeper}
(* The functions of the state, and what a setting's keys are.                *)
DirectoryTyped ==
    /\ directory = [c \in Conns |-> directory[c]]
    /\ typed = [c \in Conns |-> typed[c]]
    /\ job = [a \in Actors |-> job[a]]
    /\ \A c \in Conns : \A k \in DOMAIN directory[c].cfg : k \in Key

(* What a record says of its connection's secret.                            *)
WasTyped(c, conf) == SecretsIn(conf) \subseteq typed[c] \ {Mask}

(* The fields of a job and of a session.                                     *)
JobFields == {"do", "at", "conn", "body", "rec", "todo", "left"}
JobForm(j) == j = [f \in JobFields |-> j[f]]
SessionFields == {"conn", "cfg", "by", "opening", "dead"}
SessionForm(s) == s = [f \in SessionFields |-> s[f]]

(* What a job that will save a record has in hand.                           *)
Savers == {"create", "update", "connect", "disconnect"}
CarriesTyped(a) ==
    /\ JobForm(job[a])
    /\ job[a].at \in {"load", "save", "reload"} => job[a].do \in Savers /\ job[a].conn \in Conns
    /\ job[a].at = "load" => job[a].do # "create"
    /\ job[a].at = "reload" => job[a].do = "connect"
    /\ a = Sweeper => job[a].do \in {"", "sweep"}
    /\ job[a].at = "next" => a = Sweeper
    /\ job[a].do \in {"create", "update"} => \A k \in DOMAIN job[a].body : k \in Key
    /\ (job[a].do = "update" /\ job[a].at \in {"load", "save"}) =>
            (\E k \in DOMAIN job[a].body : IsSecret(k)) \/ "" \in typed[job[a].conn]
    /\ job[a].at = "save" =>
        /\ job[a].do = "create" => job[a].rec.cfg = <<>>
        /\ job[a].do # "create" => WasTyped(job[a].conn, job[a].rec.cfg)
        /\ \A k \in DOMAIN job[a].rec.cfg : k \in Key
SecretsCarried == SecretWasTyped /\ \A a \in Actors : CarriesTyped(a)

(* One session for a job that has one, opened with the job's settings.       *)
HasDirectorys(a) ==
    (job[a].do = "run" /\ job[a].at \in {"acquire", "open", "use"}) =>
        \A k \in DOMAIN job[a].rec.cfg :
            (IsSecret(k) \/ IsDestination(k)) =>
                k \in DOMAIN job[a].body /\ job[a].body[k] = job[a].rec.cfg[k]
SessionOf(s) ==
    /\ SessionForm(s)
    /\ s.by # Nobody =>
        /\ s.by \in Actors /\ job[s.by].at \in {"open", "use"} /\ s.cfg = job[s.by].body
        /\ \A r \in pool : r.by = s.by => r = s
Sessions == (\A a \in Actors : HasDirectorys(a)) /\ \A s \in pool : SessionOf(s)

DirectoryInv == DirectoryTyped /\ SecretsCarried /\ Sessions

-----------------------------------------------------------------------------
(* What merging does to the secrets of a setting.                            *)
LEMMA GetCanonFinds ==
    ASSUME NEW c, NEW k
    PROVE  \/ \E h \in DOMAIN c : h.name = k.name /\ GetCanon(c, k) = c[h]
           \/ GetCanon(c, k) = "" /\ \A h \in DOMAIN c : h.name # k.name
  <1>1. CASE k \in DOMAIN c
    BY <1>1 DEF GetCanon
  <1>2. CASE k \notin DOMAIN c /\ \E h \in DOMAIN c : h.name = k.name
    <2> DEFINE g == CHOOSE h \in DOMAIN c : h.name = k.name
    <2>1. g \in DOMAIN c /\ g.name = k.name
      BY <1>2
    <2>2. GetCanon(c, k) = c[g]
      BY <1>2 DEF GetCanon
    <2> QED  BY <2>1, <2>2
  <1>3. CASE k \notin DOMAIN c /\ \A h \in DOMAIN c : h.name # k.name
    BY <1>3 DEF GetCanon
  <1> QED  BY <1>1, <1>2, <1>3

LEMMA SecretsWithin ==
    ASSUME NEW c, NEW T
    PROVE  SecretsIn(c) \subseteq T <=>
            /\ \A k \in DOMAIN c : IsSecret(k) => c[k] \in T
            /\ (\E k \in DOMAIN c : IsSecret(k)) \/ "" \in T
  <1> DEFINE key == [name |-> "sasl_password", spelling |-> "_"]
  <1>2. key.name = "sasl_password" /\ SecretOf(c) = GetCanon(c, key)
    BY DEF SecretOf
  <1> HIDE DEF key
  <1>1. \/ \E h \in DOMAIN c : h.name = key.name /\ GetCanon(c, key) = c[h]
        \/ GetCanon(c, key) = "" /\ \A h \in DOMAIN c : h.name # key.name
    BY GetCanonFinds
  <1>3. \/ \E h \in DOMAIN c : IsSecret(h) /\ SecretOf(c) = c[h]
        \/ SecretOf(c) = "" /\ \A h \in DOMAIN c : ~IsSecret(h)
    BY <1>1, <1>2 DEF IsSecret
  <1> QED  BY <1>3 DEF SecretsIn

LEMMA MergedSecrets ==
    ASSUME NEW body, NEW stored, NEW T,
           SecretsIn(stored) \subseteq T, SecretsIn(body) \ {"", Mask} \subseteq T,
           (\E k \in DOMAIN body : IsSecret(k)) \/ "" \in T
    PROVE  SecretsIn(ConfigMerged(body, stored)) \subseteq T
  <1> DEFINE m == ConfigMerged(body, stored)
  <1>1. DOMAIN m = DOMAIN body
    BY DEF ConfigMerged
  <1>2. ASSUME NEW k \in DOMAIN body, IsSecret(k)  PROVE m[k] \in T
    <2>1. CASE body[k] \in {"", Mask}
      <3>1. m[k] = GetCanon(stored, k)
        BY <1>2, <2>1 DEF ConfigMerged
      <3>0. \/ \E h \in DOMAIN stored : h.name = k.name /\ GetCanon(stored, k) = stored[h]
            \/ GetCanon(stored, k) = "" /\ \A h \in DOMAIN stored : h.name # k.name
        BY GetCanonFinds
      <3>2. \/ \E h \in DOMAIN stored : IsSecret(h) /\ m[k] = stored[h]
            \/ m[k] = "" /\ \A h \in DOMAIN stored : ~IsSecret(h)
        BY <1>2, <3>0, <3>1 DEF IsSecret
      <3> QED  BY <3>2, SecretsWithin
    <2>2. CASE body[k] \notin {"", Mask}
      <3>1. m[k] = body[k]
        BY <2>2 DEF ConfigMerged
      <3>2. body[k] \in SecretsIn(body)
        BY <1>2 DEF SecretsIn
      <3> QED  BY <2>2, <3>1, <3>2
    <2> QED  BY <2>1, <2>2
  <1> HIDE DEF m
  <1>3. SecretsIn(m) \subseteq T
    BY <1>1, <1>2, SecretsWithin
  <1> QED  BY <1>3 DEF m

LEMMA EditedForms ==
    ASSUME NEW c, \A k \in DOMAIN c : k \in Key, NEW f \in Edited(ConfigMasked(c))
    PROVE  /\ \A k \in DOMAIN f : k \in Key
           /\ (\E k \in DOMAIN f : IsSecret(k)) <=> (\E k \in DOMAIN c : IsSecret(k))
  <1> DEFINE m == ConfigMasked(c)
  <1>1. DOMAIN m = DOMAIN c
    BY DEF ConfigMasked
  <1> HIDE DEF m
  <1>2. CASE f = Respelled(m)
    <2>1. DOMAIN f = {[h EXCEPT !.spelling = "_"] : h \in DOMAIN c}
      BY <1>1, <1>2 DEF Respelled
    <2>0. \A h \in Key : /\ [h EXCEPT !.spelling = "_"] \in Key
                         /\ [h EXCEPT !.spelling = "_"].name = h.name
      BY DEF Key
    <2>2. \A h \in DOMAIN c : [h EXCEPT !.spelling = "_"] \in Key
                              /\ [h EXCEPT !.spelling = "_"].name = h.name
      BY <2>0
    <2> QED  BY <2>1, <2>2 DEF IsSecret
  <1>3. CASE \E p \in Typed : f = [k \in DOMAIN m |-> IF IsSecret(k) THEN p ELSE m[k]]
    <2>1. DOMAIN f = DOMAIN c
      BY <1>1, <1>3
    <2> QED  BY <2>1
  <1> QED  BY <1>2, <1>3 DEF Edited, m

LEMMA EmptySecrets == SecretsIn(<<>>) = {""}
  <1>1. DOMAIN <<>> = {}
    OBVIOUS
  <1>2. GetCanon(<<>>, [name |-> "sasl_password", spelling |-> "_"]) = ""
    BY <1>1, GetCanonFinds
  <1> QED  BY <1>1, <1>2 DEF SecretsIn, SecretOf

(* What is read over a step's settings.                                      *)
LEMMA EffectiveKeeps ==
    ASSUME NEW base, NEW over, NEW k \in DOMAIN base, IsSecret(k) \/ IsDestination(k)
    PROVE  k \in DOMAIN Effective(base, over) /\ Effective(base, over)[k] = base[k]
  BY DEF Effective

-----------------------------------------------------------------------------
(* A step of one actor.                                                      *)
Only(a) ==
    /\ job' = [b \in Actors |-> job'[b]]
    /\ \A b \in Actors \ {a} : job'[b] = job[b]

LEMMA JobSet ==
    ASSUME DirectoryTyped, NEW a \in Actors, NEW j, job' = [job EXCEPT ![a] = j]
    PROVE  Only(a) /\ job'[a] = j
  BY DEF DirectoryTyped, Only

LEMMA RestingDoes ==
    /\ JobForm(Resting) /\ Resting.at = "" /\ Resting.do = "" /\ Resting.rec = Absent
  BY DEF Resting, JobForm, JobFields

(* Nobody's records and secrets are lost by the others' steps.               *)
LEMMA OthersCarry ==
    ASSUME DirectoryInv, NEW a \in Actors, Only(a),
           \A c \in Conns : typed[c] \subseteq typed'[c],
           CarriesTyped(a)'
    PROVE  \A b \in Actors : CarriesTyped(b)'
  <1> SUFFICES ASSUME NEW b \in Actors, b # a  PROVE CarriesTyped(b)'
    OBVIOUS
  <1>1. job'[b] = job[b] /\ CarriesTyped(b)
    BY DEF Only, DirectoryInv, SecretsCarried
  <1> QED  BY <1>1 DEF CarriesTyped, WasTyped

(* An actor that has no session takes a step that touches none.              *)
LEMMA NoSessionYet ==
    ASSUME DirectoryInv, NEW a \in Actors, job[a].at \notin {"open", "use"}, NEW s \in pool
    PROVE  s.by # a
  BY ConnectionsAssumption DEF DirectoryInv, Sessions, SessionOf, Actors

LEMMA SessionsKept ==
    ASSUME DirectoryInv, NEW a \in Actors, job[a].at \notin {"open", "use"},
           Only(a), pool' = pool, HasDirectorys(a)'
    PROVE  Sessions'
  <1>1. ASSUME NEW b \in Actors  PROVE HasDirectorys(b)'
    <2>1. CASE b # a
      BY <2>1 DEF Only, DirectoryInv, Sessions, HasDirectorys
    <2> QED  BY <2>1
  <1>2. ASSUME NEW s \in pool'  PROVE SessionOf(s)'
    <2>1. SessionOf(s) /\ s.by # a
      BY NoSessionYet DEF DirectoryInv, Sessions
    <2> QED  BY <2>1 DEF Only, SessionOf
  <1> QED  BY <1>1, <1>2 DEF Sessions

-----------------------------------------------------------------------------
(* The handlers.                                                             *)

(* A step that leaves the records, the typed secrets and the sessions alone. *)
LEMMA QuietStep ==
    ASSUME DirectoryInv, NEW a \in Actors, job[a].at \notin {"open", "use"},
           Only(a), UNCHANGED <<directory, pool, typed>>,
           CarriesTyped(a)', HasDirectorys(a)'
    PROVE  DirectoryInv'
  <1>1. DirectoryTyped'
    BY DEF DirectoryInv, DirectoryTyped, Only
  <1>2. SecretWasTyped'
    BY DEF DirectoryInv, SecretsCarried, SecretWasTyped
  <1>3. \A b \in Actors : CarriesTyped(b)'
    BY OthersCarry
  <1>4. Sessions'
    BY SessionsKept
  <1> QED  BY <1>1, <1>2, <1>3, <1>4 DEF DirectoryInv, SecretsCarried

LEMMA CreateKeeps ==
    ASSUME DirectoryInv, NEW a \in Clients, NEW c \in Conns, Create(a, c)
    PROVE  DirectoryInv'
  <1>1. PICK f \in Forms :
            Begin(a, [Resting EXCEPT !.do = "create", !.at = "save", !.conn = c, !.body = f])
    BY DEF Create
  <1> DEFINE j == [Resting EXCEPT !.do = "create", !.at = "save", !.conn = c, !.body = f]
  <1>2. a \in Actors /\ Only(a) /\ job'[a] = j /\ job[a] = Resting
    BY <1>1, JobSet DEF Begin, Actors, DirectoryInv
  <1>3. /\ job[a].at \notin {"open", "use"}
        /\ \A k \in DOMAIN f : k \in Key
    <2> HIDE DEF j
    <2>1. job[a].at = ""
      BY <1>2, RestingDoes
    <2> QED  BY <2>1, ConnectionsAssumption
  <1>4. j.at = "save" /\ j.do = "create" /\ j.conn = c /\ j.body = f /\ j.rec.cfg = <<>> /\ JobForm(j)
    <2>1. j.at = "save" /\ j.do = "create" /\ j.conn = c /\ j.body = f /\ j.rec = Absent /\ JobForm(j)
      BY RestingDoes DEF JobForm, JobFields
    <2> HIDE DEF j
    <2> QED  BY <2>1 DEF Absent
  <1>5. CarriesTyped(a)' /\ HasDirectorys(a)'
    <2>1. \A k \in DOMAIN <<>> : k \in Key
      OBVIOUS
    <2> HIDE DEF j
    <2> QED  BY <1>2, <1>3, <1>4, <2>1, ConnectionsAssumption DEF CarriesTyped, HasDirectorys, Savers
  <1> QED  BY <1>2, <1>3, <1>5, QuietStep DEF Create

LEMMA OpenFormKeeps ==
    ASSUME DirectoryInv, NEW a \in Clients, NEW c \in Conns, OpenForm(a, c)
    PROVE  DirectoryInv'
  <1>1. PICK f \in Edited(ConfigMasked(directory[c].cfg)) :
            Begin(a, [Resting EXCEPT !.do = "update", !.at = "load", !.conn = c, !.body = f])
    BY DEF OpenForm
  <1> DEFINE j == [Resting EXCEPT !.do = "update", !.at = "load", !.conn = c, !.body = f]
  <1>2. a \in Actors /\ Only(a) /\ job'[a] = j /\ job[a] = Resting /\ typed' = typed
    BY <1>1, JobSet DEF Begin, Actors, DirectoryInv, OpenForm
  <1>3. job[a].at \notin {"open", "use"}
    <2> HIDE DEF j
    <2>1. job[a].at = ""
      BY <1>2, RestingDoes
    <2> QED  BY <2>1
  <1>4. j.at = "load" /\ j.do = "update" /\ j.conn = c /\ j.body = f /\ JobForm(j)
    BY RestingDoes DEF JobForm, JobFields
  <1>5. /\ \A k \in DOMAIN f : k \in Key
        /\ (\E k \in DOMAIN f : IsSecret(k)) \/ "" \in typed[c]
    <2>1. \A k \in DOMAIN directory[c].cfg : k \in Key
      BY DEF DirectoryInv, DirectoryTyped
    <2>2. SecretsIn(directory[c].cfg) \subseteq typed[c]
      BY DEF OpenForm, DirectoryInv, SecretsCarried, SecretWasTyped
    <2>3. (\E k \in DOMAIN directory[c].cfg : IsSecret(k)) \/ "" \in typed[c]
      BY <2>2, SecretsWithin
    <2> QED  BY <1>1, <2>1, <2>3, EditedForms
  <1>6. CarriesTyped(a)' /\ HasDirectorys(a)'
    <2> HIDE DEF j
    <2> QED  BY <1>2, <1>4, <1>5, ConnectionsAssumption DEF CarriesTyped, HasDirectorys, Savers
  <1> QED  BY <1>2, <1>3, <1>6, QuietStep DEF OpenForm

LEMMA AskKeeps ==
    ASSUME DirectoryInv, NEW a \in Clients, NEW c \in Conns, Ask(a, c)
    PROVE  DirectoryInv'
  <1>1. PICK d \in {"connect", "disconnect"} :
            Begin(a, [Resting EXCEPT !.do = d, !.at = "load", !.conn = c])
    BY DEF Ask
  <1> DEFINE j == [Resting EXCEPT !.do = d, !.at = "load", !.conn = c]
  <1>2. a \in Actors /\ Only(a) /\ job'[a] = j /\ job[a] = Resting
    BY <1>1, JobSet DEF Begin, Actors, DirectoryInv
  <1>3. job[a].at \notin {"open", "use"}
    <2> HIDE DEF j
    <2>1. job[a].at = ""
      BY <1>2, RestingDoes
    <2> QED  BY <2>1
  <1>4. j.at = "load" /\ j.do = d /\ j.conn = c /\ JobForm(j)
    BY RestingDoes DEF JobForm, JobFields
  <1>5. CarriesTyped(a)' /\ HasDirectorys(a)'
    <2> HIDE DEF j
    <2> QED  BY <1>2, <1>4, ConnectionsAssumption DEF CarriesTyped, HasDirectorys, Savers
  <1> QED  BY <1>2, <1>3, <1>5, QuietStep DEF Ask

LEMMA DeleteKeeps ==
    ASSUME DirectoryInv, NEW a \in Clients, NEW c \in Conns, Delete(a, c)
    PROVE  DirectoryInv'
  <1> DEFINE j == [Resting EXCEPT !.do = "delete", !.at = "invalidate", !.conn = c]
  <1>1. a \in Actors /\ Only(a) /\ job'[a] = j /\ job[a] = Resting
    BY JobSet DEF Begin, Actors, DirectoryInv, Delete
  <1>2. /\ j.at = "invalidate" /\ j.do = "delete" /\ JobForm(j)
        /\ job[a].at \notin {"open", "use"}
    BY <1>1, RestingDoes DEF JobForm, JobFields
  <1> HIDE DEF j
  <1>3. CarriesTyped(a)' /\ HasDirectorys(a)'
    BY <1>1, <1>2, ConnectionsAssumption DEF CarriesTyped, HasDirectorys
  <1>4. typed' = typed /\ pool' = pool
    BY DEF Delete
  <1>5. \A b \in Actors : CarriesTyped(b)'
    BY <1>1, <1>3, <1>4, OthersCarry
  <1>6. /\ directory' = [d \in Conns |-> directory'[d]]
        /\ \A d \in Conns : directory'[d] \in {directory[d], Absent}
    BY DEF Delete, DirectoryInv, DirectoryTyped
  <1>7. Absent.none /\ Absent.cfg = <<>>
    BY DEF Absent
  <1>8. SecretWasTyped'
    BY <1>4, <1>6, <1>7 DEF DirectoryInv, SecretsCarried, SecretWasTyped
  <1>9. DirectoryTyped'
    <2>1. \A k \in DOMAIN <<>> : k \in Key
      OBVIOUS
    <2> QED  BY <1>1, <1>4, <1>6, <1>7, <2>1 DEF DirectoryInv, DirectoryTyped, Only
  <1>10. Sessions'
    BY <1>1, <1>2, <1>3, <1>4, SessionsKept
  <1> QED  BY <1>5, <1>8, <1>9, <1>10 DEF DirectoryInv, SecretsCarried

LEMMA ResolveKeeps ==
    ASSUME DirectoryInv, NEW a \in Clients, NEW c \in Conns, Resolve(a, c)
    PROVE  DirectoryInv'
  <1>1. PICK s \in StepConfigs, r \in {directory[c]} :
            Begin(a, [Resting EXCEPT !.do = "run", !.at = "acquire", !.conn = c, !.rec = r,
                            !.body = Effective(r.cfg, s)])
    BY DEF Resolve
  <1> DEFINE j == [Resting EXCEPT !.do = "run", !.at = "acquire", !.conn = c, !.rec = r,
                            !.body = Effective(r.cfg, s)]
  <1>2. a \in Actors /\ Only(a) /\ job'[a] = j /\ job[a] = Resting
    BY <1>1, JobSet DEF Begin, Actors, DirectoryInv
  <1>3. job[a].at \notin {"open", "use"}
    <2> HIDE DEF j
    <2>1. job[a].at = ""
      BY <1>2, RestingDoes
    <2> QED  BY <2>1
  <1>4. j.at = "acquire" /\ j.do = "run" /\ j.rec = r /\ j.body = Effective(r.cfg, s) /\ JobForm(j)
    BY RestingDoes DEF JobForm, JobFields
  <1> HIDE DEF j
  <1>5. HasDirectorys(a)'
    BY <1>2, <1>4, EffectiveKeeps DEF HasDirectorys
  <1>6. CarriesTyped(a)'
    BY <1>2, <1>4, ConnectionsAssumption DEF CarriesTyped
  <1> QED  BY <1>2, <1>3, <1>5, <1>6, QuietStep DEF Resolve

LEMMA LoadKeeps ==
    ASSUME DirectoryInv, NEW a \in Actors, Load(a)
    PROVE  DirectoryInv'
  <1> DEFINE r == directory[job[a].conn]
  <1>1. job[a].at = "load" /\ CarriesTyped(a) /\ UNCHANGED <<directory, pool, typed>>
    BY DEF Load, DirectoryInv, SecretsCarried
  <1>2. CASE r.none
    <2>1. Only(a) /\ job'[a] = Resting
      BY <1>2, JobSet DEF Load, Rest, DirectoryInv
    <2>3. CarriesTyped(a)' /\ HasDirectorys(a)'
      BY <2>1, RestingDoes DEF CarriesTyped, HasDirectorys
    <2> QED  BY <1>1, <2>1, <2>3, QuietStep
  <1>3. CASE ~r.none
    <2> DEFINE j == [job[a] EXCEPT !.rec = r, !.at = "save"]
    <2>1. job' = [job EXCEPT ![a].rec = r, ![a].at = "save"]
      BY <1>3 DEF Load
    <2>2. Only(a) /\ job'[a] = j
      BY <2>1 DEF Only, DirectoryInv, DirectoryTyped
    <2>3. /\ j.at = "save" /\ j.rec = r /\ JobForm(j)
          /\ j.do = job[a].do /\ j.conn = job[a].conn /\ j.body = job[a].body
      <3>1. JobForm(job[a])
        BY <1>1 DEF CarriesTyped
      <3> QED  BY <3>1 DEF JobForm, JobFields
    <2> HIDE DEF j
    <2>4. job[a].conn \in Conns /\ job[a].do \in Savers \ {"create"}
      BY <1>1 DEF CarriesTyped
    <2>5. WasTyped(job[a].conn, r.cfg) /\ \A k \in DOMAIN r.cfg : k \in Key
      BY <1>3, <2>4 DEF DirectoryInv, SecretsCarried, SecretWasTyped, WasTyped, DirectoryTyped
    <2>6. CarriesTyped(a)'
      BY <1>1, <2>2, <2>3, <2>4, <2>5 DEF CarriesTyped, WasTyped
    <2>7. HasDirectorys(a)'
      BY <2>2, <2>3 DEF HasDirectorys
    <2> QED  BY <1>1, <2>2, <2>6, <2>7, QuietStep
  <1> QED  BY <1>2, <1>3

(* What a form says of a secret is typed, the mask and nothing is not.        *)
LEMMA FreshSecrets ==
    ASSUME NEW f
    PROVE  Mask \notin SecretsIn(ConfigMerged(f, <<>>))
  <1> DEFINE T == (SecretsIn(f) \ {"", Mask}) \union {""}
  <1>1. SecretsIn(<<>>) \subseteq T /\ SecretsIn(f) \ {"", Mask} \subseteq T /\ "" \in T
    BY EmptySecrets
  <1>2. Mask \notin T
    BY DEF Mask
  <1> HIDE DEF T
  <1>3. SecretsIn(ConfigMerged(f, <<>>)) \subseteq T
    BY <1>1, MergedSecrets
  <1> QED  BY <1>2, <1>3

LEMMA SavedSecrets ==
    ASSUME DirectoryInv, NEW a \in Actors, Save(a)
    PROVE  /\ job[a].conn \in Conns
           /\ \A d \in Conns : typed[d] \subseteq typed'[d]
           /\ SecretsIn(Saved(job[a]).cfg) \subseteq typed'[job[a].conn] \ {Mask}
           /\ \A k \in DOMAIN Saved(job[a]).cfg : k \in Key
  <1> DEFINE j == job[a]
             c == job[a].conn
  <1>1. /\ j.do \in Savers /\ c \in Conns
        /\ j.do \in {"create", "update"} => \A k \in DOMAIN j.body : k \in Key
        /\ j.do = "update" => (\E k \in DOMAIN j.body : IsSecret(k)) \/ "" \in typed[c]
        /\ j.do = "create" => j.rec.cfg = <<>>
        /\ j.do # "create" => SecretsIn(j.rec.cfg) \subseteq typed[c] \ {Mask}
        /\ \A k \in DOMAIN j.rec.cfg : k \in Key
    BY DEF Save, DirectoryInv, SecretsCarried, CarriesTyped, WasTyped
  <1>2. typed' = [typed EXCEPT ![c] =
                        CASE j.do = "create" -> @ \union SecretsIn(ConfigMerged(j.body, <<>>))
                          [] j.do = "update" -> @ \union TypedIn(j)
                          [] OTHER -> @]
    BY DEF Save
  <1>3. typed = [d \in Conns |-> typed[d]]
    BY DEF DirectoryInv, DirectoryTyped
  <1> HIDE DEF j, c
  <1>4. \A d \in Conns \ {c} : typed'[d] = typed[d]
    BY <1>2, <1>3
  <1>5. CASE j.do \in {"connect", "disconnect"}
    <2>1. typed'[c] = typed[c]
      BY <1>1, <1>2, <1>3, <1>5
    <2>2. Saved(j).cfg = j.rec.cfg
      BY <1>5 DEF Saved, Record
    <2> QED  BY <1>1, <1>4, <1>5, <2>1, <2>2 DEF j, c
  <1>6. CASE j.do = "create"
    <2>1. typed'[c] = typed[c] \union SecretsIn(ConfigMerged(j.body, <<>>))
      BY <1>1, <1>2, <1>3, <1>6
    <2>2. Saved(j).cfg = ConfigMerged(j.body, <<>>)
      BY <1>1, <1>6 DEF Saved, Record
    <2>3. DOMAIN ConfigMerged(j.body, <<>>) = DOMAIN j.body
      BY DEF ConfigMerged
    <2>4. Mask \notin SecretsIn(ConfigMerged(j.body, <<>>))
      BY FreshSecrets
    <2> QED  BY <1>1, <1>4, <1>6, <2>1, <2>2, <2>3, <2>4 DEF j, c
  <1>7. CASE j.do = "update"
    <2>1. typed'[c] = typed[c] \union TypedIn(j)
      BY <1>1, <1>2, <1>3, <1>7
    <2>2. Saved(j).cfg = ConfigMerged(j.body, j.rec.cfg)
      BY <1>7 DEF Saved, Record
    <2>3. DOMAIN ConfigMerged(j.body, j.rec.cfg) = DOMAIN j.body
      BY DEF ConfigMerged
    <2> DEFINE T == typed'[c] \ {Mask}
    <2>4. SecretsIn(j.rec.cfg) \subseteq T /\ SecretsIn(j.body) \ {"", Mask} \subseteq T
      BY <1>1, <1>7, <2>1 DEF TypedIn
    <2>5. (\E k \in DOMAIN j.body : IsSecret(k)) \/ "" \in T
      BY <1>1, <1>7, <2>1 DEF Mask
    <2> HIDE DEF T
    <2>6. SecretsIn(ConfigMerged(j.body, j.rec.cfg)) \subseteq T
      BY <2>4, <2>5, MergedSecrets
    <2> QED  BY <1>1, <1>4, <1>7, <2>1, <2>2, <2>3, <2>6 DEF j, c, T
  <1> QED  BY <1>1, <1>5, <1>6, <1>7 DEF Savers

LEMMA SaveKeeps ==
    ASSUME DirectoryInv, NEW a \in Actors, Save(a)
    PROVE  DirectoryInv'
  <1> DEFINE v == IF job[a].do = "connect" THEN "reload" ELSE "invalidate"
             n == [job[a] EXCEPT !.at = v]
  <1>1. job[a].at = "save" /\ CarriesTyped(a) /\ job[a].do \in Savers /\ pool' = pool
    BY DEF Save, DirectoryInv, SecretsCarried, CarriesTyped
  <1>2. job' = [job EXCEPT ![a] = n]
    BY DEF Save
  <1>3. Only(a) /\ job'[a] = n
    BY <1>2 DEF Only, DirectoryInv, DirectoryTyped
  <1>4. JobForm(n) /\ n.at = v /\ n.do = job[a].do /\ n.conn = job[a].conn /\ n.body = job[a].body
    BY <1>1 DEF CarriesTyped, JobForm, JobFields
  <1> HIDE DEF n
  <1>5. CarriesTyped(a)' /\ HasDirectorys(a)'
    BY <1>1, <1>3, <1>4, SavedSecrets DEF CarriesTyped, HasDirectorys, Savers
  <1>6. \A b \in Actors : CarriesTyped(b)'
    BY <1>3, <1>5, SavedSecrets, OthersCarry
  <1>7. Sessions'
    BY <1>1, <1>3, <1>5, SessionsKept
  <1>8. /\ directory' = [d \in Conns |-> directory'[d]]
        /\ directory'[job[a].conn] = Saved(job[a])
        /\ \A d \in Conns \ {job[a].conn} : directory'[d] = directory[d]
        /\ typed' = [d \in Conns |-> typed'[d]]
    <2> DEFINE r == Saved(job[a])
               c == job[a].conn
    <2>1. directory' = [directory EXCEPT ![c] = r] /\ c \in Conns
      BY SavedSecrets DEF Save
    <2>2. directory = [d \in Conns |-> directory[d]] /\ typed = [d \in Conns |-> typed[d]]
      BY DEF DirectoryInv, DirectoryTyped
    <2>3. typed' = [d \in DOMAIN typed |-> typed'[d]]
      BY DEF Save
    <2> HIDE DEF r, c
    <2>4. directory' = [d \in Conns |-> directory'[d]] /\ directory'[c] = r
      BY <2>1, <2>2
    <2>5. \A d \in Conns \ {c} : directory'[d] = directory[d]
      BY <2>1, <2>2
    <2>6. DOMAIN typed = Conns
      BY <2>2
    <2>7. typed' = [d \in Conns |-> typed'[d]]
      BY <2>3, <2>6
    <2> QED  BY <2>4, <2>5, <2>7 DEF r, c
  <1>9. DirectoryTyped'
    BY <1>3, <1>8, SavedSecrets DEF DirectoryInv, DirectoryTyped, Only
  <1>10. SecretWasTyped'
    BY <1>8, SavedSecrets DEF DirectoryInv, SecretsCarried, SecretWasTyped
  <1> QED  BY <1>6, <1>7, <1>9, <1>10 DEF DirectoryInv, SecretsCarried

(* An actor's step that gives it a session, takes it back or ends it.        *)
LEMMA SessionsStep ==
    ASSUME DirectoryInv, NEW a \in Actors, Only(a), HasDirectorys(a)',
           \A s \in pool' :
               /\ SessionForm(s)
               /\ \/ s.by = Nobody
                  \/ \E r \in pool : r.by = s.by /\ r.cfg = s.cfg /\ r.by # a
                  \/ s.by = a /\ job'[a].at \in {"open", "use"} /\ s.cfg = job'[a].body,
           \A r, s \in pool' : r.by = s.by /\ s.by # Nobody => r = s
    PROVE  Sessions'
  <1>1. ASSUME NEW b \in Actors  PROVE HasDirectorys(b)'
    <2>1. CASE b # a
      BY <2>1 DEF Only, DirectoryInv, Sessions, HasDirectorys
    <2> QED  BY <2>1
  <1>2. ASSUME NEW s \in pool', s.by # Nobody
        PROVE  s.by \in Actors /\ job'[s.by].at \in {"open", "use"} /\ s.cfg = job'[s.by].body
    <2>1. CASE \E r \in pool : r.by = s.by /\ r.cfg = s.cfg /\ r.by # a
      <3>1. PICK r \in pool : r.by = s.by /\ r.cfg = s.cfg /\ r.by # a
        BY <2>1
      <3>2. r.by \in Actors /\ job[r.by].at \in {"open", "use"} /\ r.cfg = job[r.by].body
        BY <1>2, <3>1 DEF DirectoryInv, Sessions, SessionOf
      <3>3. job'[r.by] = job[r.by]
        BY <3>1, <3>2 DEF Only
      <3> QED  BY <3>1, <3>2, <3>3
    <2> QED  BY <1>2, <2>1
  <1> QED  BY <1>1, <1>2 DEF Sessions, SessionOf

LEMMA UsingStep ==
    ASSUME DirectoryInv, NEW a \in Actors, Only(a), UNCHANGED <<directory, typed>>,
           CarriesTyped(a)', Sessions'
    PROVE  DirectoryInv'
  <1>1. DirectoryTyped' /\ SecretWasTyped'
    BY DEF DirectoryInv, DirectoryTyped, Only, SecretsCarried, SecretWasTyped
  <1>2. \A b \in Actors : CarriesTyped(b)'
    BY OthersCarry
  <1> QED  BY <1>1, <1>2 DEF DirectoryInv, SecretsCarried

LEMMA RestsOrGoesOn ==
    ASSUME DirectoryInv, NEW a \in Actors, job[a].at \in {"open", "use", "invalidate"},
           Rest(a) \/ GoesOn(a)
    PROVE  Only(a) /\ CarriesTyped(a)' /\ HasDirectorys(a)'
  <1>1. CASE Rest(a)
    <2>1. Only(a) /\ job'[a] = Resting
      BY <1>1, JobSet DEF Rest, DirectoryInv
    <2> QED  BY <2>1, RestingDoes DEF CarriesTyped, HasDirectorys
  <1>2. CASE a = Sweeper /\ job' = [job EXCEPT ![a].at = "next"]
    <2> DEFINE n == [job[a] EXCEPT !.at = "next"]
    <2>1. Only(a) /\ job'[a] = n
      BY <1>2 DEF Only, DirectoryInv, DirectoryTyped
    <2>2. CarriesTyped(a)
      BY DEF DirectoryInv, SecretsCarried
    <2>3. JobForm(n) /\ n.at = "next" /\ n.do = job[a].do /\ n.body = job[a].body
      BY <2>2 DEF CarriesTyped, JobForm, JobFields
    <2> HIDE DEF n
    <2> QED  BY <1>2, <2>1, <2>2, <2>3 DEF CarriesTyped, HasDirectorys
  <1> QED  BY <1>1, <1>2 DEF GoesOn

LEMMA SessionsGoKeeps ==
    ASSUME DirectoryInv, NEW a \in Actors, InvalidateSessions(a)
    PROVE  DirectoryInv'
  <1>1. /\ job[a].at = "invalidate" /\ pool' = PoolInvalidated(job[a].conn)
        /\ Rest(a) /\ UNCHANGED <<directory, typed>>
    BY DEF InvalidateSessions
  <1>2. Only(a) /\ CarriesTyped(a)' /\ HasDirectorys(a)'
    BY <1>1, RestsOrGoesOn
  <1> DEFINE Kills(s) == IF s.conn = job[a].conn THEN [s EXCEPT !.dead = TRUE] ELSE s
  <1>3. \A s \in pool' : \E r \in pool : s = Kills(r)
    BY <1>1 DEF PoolInvalidated
  <1>4. \A r \in pool : /\ SessionForm(Kills(r)) /\ Kills(r).by = r.by /\ Kills(r).cfg = r.cfg
                        /\ r.by # a
    <2>1. ASSUME NEW r \in pool  PROVE SessionForm(r) /\ r.by # a
      BY <1>1, NoSessionYet DEF DirectoryInv, Sessions, SessionOf
    <2>2. ASSUME NEW r, SessionForm(r)
          PROVE  SessionForm(Kills(r)) /\ Kills(r).by = r.by /\ Kills(r).cfg = r.cfg
      BY <2>2 DEF SessionForm, SessionFields
    <2> HIDE DEF Kills
    <2> QED  BY <2>1, <2>2
  <1> HIDE DEF Kills
  <1>5. \A r, s \in pool' : r.by = s.by /\ s.by # Nobody => r = s
    <2> SUFFICES ASSUME NEW r \in pool', NEW s \in pool', r.by = s.by, s.by # Nobody
                 PROVE  r = s
      OBVIOUS
    <2>1. PICK p \in pool, q \in pool : r = Kills(p) /\ s = Kills(q)
      BY <1>3
    <2>2. p.by = q.by /\ q.by # Nobody
      BY <1>4, <2>1
    <2>3. p = q
      BY <2>2 DEF DirectoryInv, Sessions, SessionOf
    <2> QED  BY <2>1, <2>3
  <1>6. \A s \in pool' : SessionForm(s) /\ \E r \in pool : r.by = s.by /\ r.cfg = s.cfg /\ r.by # a
    BY <1>3, <1>4
  <1>7. Sessions'
    BY <1>2, <1>5, <1>6, SessionsStep
  <1> QED  BY <1>1, <1>2, <1>7, UsingStep

LEMMA ReloadKeeps ==
    ASSUME DirectoryInv, NEW a \in Actors, Reload(a)
    PROVE  DirectoryInv'
  <1> DEFINE r == directory[job[a].conn]
  <1>1. job[a].at = "reload" /\ CarriesTyped(a) /\ UNCHANGED <<directory, pool, typed>>
    BY DEF Reload, DirectoryInv, SecretsCarried
  <1>2. CASE r.none
    <2>1. Only(a) /\ job'[a] = Resting
      BY <1>2, JobSet DEF Reload, Rest, DirectoryInv
    <2>2. CarriesTyped(a)' /\ HasDirectorys(a)'
      BY <2>1, RestingDoes DEF CarriesTyped, HasDirectorys
    <2> QED  BY <1>1, <2>1, <2>2, QuietStep
  <1>3. CASE ~r.none
    <2> DEFINE n == [job[a] EXCEPT !.rec = r, !.body = r.cfg, !.at = "acquire"]
    <2>1. job' = [job EXCEPT ![a].rec = r, ![a].body = r.cfg, ![a].at = "acquire"]
      BY <1>3 DEF Reload
    <2>2. Only(a) /\ job'[a] = n
      BY <2>1 DEF Only, DirectoryInv, DirectoryTyped
    <2>3. JobForm(n) /\ n.at = "acquire" /\ n.do = job[a].do /\ n.rec = r /\ n.body = r.cfg
      BY <1>1 DEF CarriesTyped, JobForm, JobFields
    <2> HIDE DEF n
    <2>4. CarriesTyped(a)'
      BY <1>1, <2>2, <2>3 DEF CarriesTyped
    <2>5. HasDirectorys(a)'
      BY <2>2, <2>3 DEF HasDirectorys
    <2> QED  BY <1>1, <2>2, <2>4, <2>5, QuietStep
  <1> QED  BY <1>2, <1>3

(* A session given to an actor, or opened for it.                            *)
LEMMA Given ==
    ASSUME DirectoryInv, NEW a \in Actors, job[a].at = "acquire", NEW v \in {"use", "open"},
           job' = [job EXCEPT ![a].at = v], UNCHANGED <<directory, typed>>,
           NEW old, old \subseteq pool, NEW n,
           SessionForm(n), n.by = a, n.cfg = job[a].body, pool' = old \union {n}
    PROVE  DirectoryInv'
  <1> DEFINE j == [job[a] EXCEPT !.at = v]
  <1>1. Only(a) /\ job'[a] = j
    BY DEF Only, DirectoryInv, DirectoryTyped
  <1>2. CarriesTyped(a) /\ HasDirectorys(a)
    BY DEF DirectoryInv, SecretsCarried, Sessions
  <1>3. JobForm(j) /\ j.at = v /\ j.do = job[a].do /\ j.rec = job[a].rec /\ j.body = job[a].body
    BY <1>2 DEF CarriesTyped, JobForm, JobFields
  <1> HIDE DEF j
  <1>4. CarriesTyped(a)' /\ HasDirectorys(a)'
    BY <1>1, <1>2, <1>3 DEF CarriesTyped, HasDirectorys
  <1>5. \A s \in old : s.by # a /\ SessionForm(s)
    BY NoSessionYet DEF DirectoryInv, Sessions, SessionOf
  <1>6. \A r, s \in pool' : r.by = s.by /\ s.by # Nobody => r = s
    BY <1>5 DEF DirectoryInv, Sessions, SessionOf
  <1>7. \A s \in pool' :
               /\ SessionForm(s)
               /\ \/ s.by = Nobody
                  \/ \E r \in pool : r.by = s.by /\ r.cfg = s.cfg /\ r.by # a
                  \/ s.by = a /\ job'[a].at \in {"open", "use"} /\ s.cfg = job'[a].body
    BY <1>1, <1>3, <1>5
  <1>8. Sessions'
    BY <1>1, <1>4, <1>6, <1>7, SessionsStep
  <1> QED  BY <1>1, <1>4, <1>8, UsingStep

LEMMA AcquireKeeps ==
    ASSUME DirectoryInv, NEW a \in Actors, AcquireNow(a)
    PROVE  DirectoryInv'
  <1> DEFINE c == job[a].conn
             conf == job[a].body
  <1>1. job[a].at = "acquire" /\ UNCHANGED <<directory, typed>> /\ Acquire(a, c, conf)
    BY DEF AcquireNow
  <1>2. ASSUME NEW s \in pool, Reusable(s, c, conf),
               pool' = (pool \ {s}) \union {[s EXCEPT !.by = a]},
               job' = [job EXCEPT ![a].at = "use"]
        PROVE  DirectoryInv'
    <2> DEFINE n == [s EXCEPT !.by = a]
    <2>1. SessionForm(s) /\ s.cfg = job[a].body
      BY <1>2 DEF DirectoryInv, Sessions, SessionOf, Reusable
    <2>2. SessionForm(n) /\ n.by = a /\ n.cfg = s.cfg
      BY <2>1 DEF SessionForm, SessionFields
    <2> DEFINE old == pool \ {s}
    <2>3. pool' = old \union {n} /\ old \subseteq pool
      BY <1>2
    <2> HIDE DEF n, old
    <2> QED  BY <1>1, <1>2, <2>1, <2>2, <2>3, Given
  <1>3. ASSUME pool' = (pool \ Outdated(c, conf)) \union
                    {[conn |-> c, cfg |-> conf, by |-> a, opening |-> TRUE, dead |-> FALSE]},
               job' = [job EXCEPT ![a].at = "open"]
        PROVE  DirectoryInv'
    <2> DEFINE n == [conn |-> c, cfg |-> conf, by |-> a, opening |-> TRUE, dead |-> FALSE]
               old == pool \ Outdated(c, conf)
    <2>1. SessionForm(n) /\ n.by = a /\ n.cfg = job[a].body
      BY DEF SessionForm, SessionFields
    <2>2. pool' = old \union {n} /\ old \subseteq pool
      BY <1>3
    <2> HIDE DEF n, old
    <2> QED  BY <1>1, <1>3, <2>1, <2>2, Given
  <1> HIDE DEF c, conf
  <1> QED  BY <1>1, <1>2, <1>3 DEF Acquire

LEMMA OpenedKeeps ==
    ASSUME DirectoryInv, NEW a \in Actors, Opened(a)
    PROVE  DirectoryInv'
  <1>1. job[a].at = "open" /\ UNCHANGED <<directory, typed>> /\ CarriesTyped(a) /\ HasDirectorys(a)
    BY DEF Opened, DirectoryInv, SecretsCarried, Sessions
  <1>2. PICK s \in pool :
        /\ s.by = a
        /\ \/ /\ pool' = pool \ {s}
              /\ GoesOn(a)
           \/ /\ \E d \in {s.dead, FALSE} : pool' = (pool \ {s}) \union {[s EXCEPT !.opening = FALSE, !.dead = d]}
              /\ job' = [job EXCEPT ![a].at = "use"]
    BY DEF Opened
  <1>3. /\ SessionForm(s) /\ s.cfg = job[a].body
        /\ \A r \in pool \ {s} : r.by # a /\ SessionForm(r)
        /\ \A p, q \in pool : p.by = q.by /\ q.by # Nobody => p = q
    <2>1. s.by # Nobody
      BY <1>2, ConnectionsAssumption DEF Actors
    <2> QED  BY <1>2, <2>1 DEF DirectoryInv, Sessions, SessionOf
  <1>4. CASE pool' = pool \ {s} /\ GoesOn(a)
    <2>1. Only(a) /\ CarriesTyped(a)' /\ HasDirectorys(a)'
      BY <1>1, <1>4, RestsOrGoesOn
    <2>2. Sessions'
      BY <1>3, <1>4, <2>1, SessionsStep
    <2> QED  BY <1>1, <2>1, <2>2, UsingStep
  <1>5. ASSUME NEW d \in {s.dead, FALSE},
               pool' = (pool \ {s}) \union {[s EXCEPT !.opening = FALSE, !.dead = d]},
               job' = [job EXCEPT ![a].at = "use"]
        PROVE  DirectoryInv'
    <2> DEFINE j == [job[a] EXCEPT !.at = "use"]
               n == [s EXCEPT !.opening = FALSE, !.dead = d]
    <2>1. Only(a) /\ job'[a] = j
      BY <1>5 DEF Only, DirectoryInv, DirectoryTyped
    <2>2. JobForm(j) /\ j.at = "use" /\ j.do = job[a].do /\ j.rec = job[a].rec /\ j.body = job[a].body
      BY <1>1 DEF CarriesTyped, JobForm, JobFields
    <2>3. SessionForm(n) /\ n.by = a /\ n.cfg = s.cfg
      BY <1>2, <1>3 DEF SessionForm, SessionFields
    <2>4. pool' = (pool \ {s}) \union {n}
      BY <1>5
    <2> HIDE DEF j, n
    <2>5. CarriesTyped(a)' /\ HasDirectorys(a)'
      BY <1>1, <2>1, <2>2 DEF CarriesTyped, HasDirectorys
    <2>6. \A p, q \in pool' : p.by = q.by /\ q.by # Nobody => p = q
      BY <1>3, <2>3, <2>4
    <2>7. \A q \in pool' :
               /\ SessionForm(q)
               /\ \/ q.by = Nobody
                  \/ \E r \in pool : r.by = q.by /\ r.cfg = q.cfg /\ r.by # a
                  \/ q.by = a /\ job'[a].at \in {"open", "use"} /\ q.cfg = job'[a].body
      BY <1>3, <2>1, <2>2, <2>3, <2>4
    <2>8. Sessions'
      BY <2>1, <2>5, <2>6, <2>7, SessionsStep
    <2> QED  BY <1>1, <2>1, <2>5, <2>8, UsingStep
  <1> QED  BY <1>2, <1>4, <1>5

LEMMA ReleaseKeeps ==
    ASSUME DirectoryInv, NEW a \in Actors, Release(a)
    PROVE  DirectoryInv'
  <1>1. job[a].at = "use" /\ UNCHANGED <<directory, typed>> /\ GoesOn(a)
    BY DEF Release
  <1>2. PICK s \in pool, healthy \in BOOLEAN :
            /\ s.by = a
            /\ pool' = (pool \ {s}) \union {r \in {[s EXCEPT !.by = Nobody]} : healthy /\ ~s.dead}
    BY DEF Release
  <1> DEFINE n == [s EXCEPT !.by = Nobody]
  <1>3. /\ SessionForm(s)
        /\ \A r \in pool \ {s} : r.by # a /\ SessionForm(r)
        /\ \A p, q \in pool : p.by = q.by /\ q.by # Nobody => p = q
    <2>1. s.by # Nobody
      BY <1>2, ConnectionsAssumption DEF Actors
    <2> QED  BY <1>2, <2>1 DEF DirectoryInv, Sessions, SessionOf
  <1>4. SessionForm(n) /\ n.by = Nobody
    BY <1>3 DEF SessionForm, SessionFields
  <1>5. pool' \subseteq (pool \ {s}) \union {n}
    BY <1>2
  <1> HIDE DEF n
  <1>6. Only(a) /\ CarriesTyped(a)' /\ HasDirectorys(a)'
    BY <1>1, RestsOrGoesOn
  <1>7. \A p, q \in pool' : p.by = q.by /\ q.by # Nobody => p = q
    BY <1>3, <1>4, <1>5
  <1>8. \A q \in pool' :
            SessionForm(q) /\ (q.by = Nobody \/ \E r \in pool : r.by = q.by /\ r.cfg = q.cfg /\ r.by # a)
    BY <1>3, <1>4, <1>5
  <1>9. Sessions'
    BY <1>6, <1>7, <1>8, SessionsStep
  <1> QED  BY <1>1, <1>6, <1>9, UsingStep

-----------------------------------------------------------------------------
(* The keep-alive thread.                                                    *)
LEMMA SweepKeeps ==
    ASSUME DirectoryInv, Sweep(Sweeper)
    PROVE  DirectoryInv'
  <1> DEFINE todo == SelectSeq([i \in DOMAIN Order |-> [conn |-> Order[i], rec |-> directory[Order[i]]]],
                               LAMBDA t : ~t.rec.none)
  <1> HIDE DEF todo
  <1> DEFINE j == [Resting EXCEPT !.do = "sweep", !.at = "next", !.left = MAX_WARMUP_PER_TICK, !.todo = todo]
  <1>1. Begin(Sweeper, j) /\ UNCHANGED <<directory, pool, typed>>
    BY DEF Sweep, todo
  <1>2. JobForm(j) /\ j.do = "sweep" /\ j.at = "next"
    BY RestingDoes DEF JobForm, JobFields
  <1> HIDE DEF j
  <1>3. /\ Sweeper \in Actors /\ Only(Sweeper) /\ job'[Sweeper] = j
        /\ job[Sweeper].at \notin {"open", "use"}
    <2>1. job[Sweeper].at = "" /\ Sweeper \in Actors /\ job' = [job EXCEPT ![Sweeper] = j]
      BY <1>1, RestingDoes DEF Begin, Actors
    <2> QED  BY <2>1, JobSet DEF DirectoryInv
  <1>4. CarriesTyped(Sweeper)' /\ HasDirectorys(Sweeper)'
    BY <1>2, <1>3 DEF CarriesTyped, HasDirectorys
  <1> QED  BY <1>1, <1>3, <1>4, QuietStep

LEMMA WarmUpKeeps ==
    ASSUME DirectoryInv, NEW a \in Actors, WarmUp(a)
    PROVE  DirectoryInv'
  <1>1. /\ job[a].at = "next" /\ CarriesTyped(a) /\ HasDirectorys(a) /\ JobForm(job[a])
        /\ UNCHANGED <<directory, pool, typed>>
    BY DEF WarmUp, DirectoryInv, SecretsCarried, Sessions, CarriesTyped
  <1>2. CASE Rest(a)
    <2>1. Only(a) /\ job'[a] = Resting
      BY <1>2, JobSet DEF Rest, DirectoryInv
    <2>2. CarriesTyped(a)' /\ HasDirectorys(a)'
      BY <2>1, RestingDoes DEF CarriesTyped, HasDirectorys
    <2> QED  BY <1>1, <2>1, <2>2, QuietStep
  <1>3. CASE job' = [job EXCEPT ![a].todo = Tail(@)]
    <2> DEFINE j == [job[a] EXCEPT !.todo = Tail(job[a].todo)]
    <2>1. Only(a) /\ job'[a] = j
      BY <1>3 DEF Only, DirectoryInv, DirectoryTyped
    <2>2. JobForm(j) /\ j.at = "next" /\ j.do = job[a].do /\ j.body = job[a].body
      BY <1>1 DEF JobForm, JobFields
    <2> HIDE DEF j
    <2>3. CarriesTyped(a)' /\ HasDirectorys(a)'
      BY <1>1, <2>1, <2>2 DEF CarriesTyped, HasDirectorys
    <2> QED  BY <1>1, <2>1, <2>3, QuietStep
  <1>4. ASSUME NEW t,
               job' = [job EXCEPT ![a].todo = Tail(@), ![a].left = @ - 1, ![a].conn = t.conn,
                                  ![a].rec = t.rec, ![a].body = t.rec.cfg, ![a].at = "acquire"]
        PROVE  DirectoryInv'
    <2> DEFINE j == [job[a] EXCEPT !.todo = Tail(job[a].todo), !.left = job[a].left - 1, !.conn = t.conn,
                                   !.rec = t.rec, !.body = t.rec.cfg, !.at = "acquire"]
    <2>1. Only(a) /\ job'[a] = j
      BY <1>4 DEF Only, DirectoryInv, DirectoryTyped
    <2>2. /\ JobForm(j) /\ j.at = "acquire" /\ j.do = job[a].do
          /\ j.rec = t.rec /\ j.body = t.rec.cfg
      BY <1>1 DEF JobForm, JobFields
    <2> HIDE DEF j
    <2>3. CarriesTyped(a)' /\ HasDirectorys(a)'
      BY <1>1, <2>1, <2>2 DEF CarriesTyped, HasDirectorys
    <2> QED  BY <1>1, <2>1, <2>3, QuietStep
  <1> QED  BY <1>2, <1>3, <1>4 DEF WarmUp

-----------------------------------------------------------------------------
LEMMA DirectoryStarts ==
    ASSUME DirectoryInit
    PROVE  DirectoryInv
  <1>1. \A a \in Actors : CarriesTyped(a) /\ HasDirectorys(a)
    <2>1. \A a \in Actors : job[a] = Resting
      BY DEF DirectoryInit, Actors
    <2> QED  BY <2>1, RestingDoes DEF CarriesTyped, HasDirectorys
  <1>2. ASSUME NEW c \in Conns
        PROVE  /\ \A k \in DOMAIN directory[c].cfg : k \in Key
               /\ ~directory[c].none => SecretsIn(directory[c].cfg) \subseteq typed[c] \ {Mask}
    <2>1. CASE directory[c] = Absent
      <3>1. \A k \in DOMAIN <<>> : k \in Key
        OBVIOUS
      <3> QED  BY <2>1, <3>1 DEF Absent
    <2>2. ASSUME NEW f \in Forms, directory[c] = Record(ConfigMerged(f, <<>>), FALSE)
          PROVE  /\ \A k \in DOMAIN directory[c].cfg : k \in Key
                 /\ ~directory[c].none => SecretsIn(directory[c].cfg) \subseteq typed[c] \ {Mask}
      <3>1. directory[c].cfg = ConfigMerged(f, <<>>) /\ ~directory[c].none
        BY <2>2 DEF Record
      <3>2. typed[c] = SecretsIn(directory[c].cfg)
        BY <3>1 DEF DirectoryInit
      <3>3. DOMAIN ConfigMerged(f, <<>>) = DOMAIN f
        BY DEF ConfigMerged
      <3> QED  BY <3>1, <3>2, <3>3, FreshSecrets, ConnectionsAssumption
    <2> QED  BY <2>1, <2>2 DEF DirectoryInit, Kept
  <1>3. DirectoryTyped
    BY <1>2 DEF DirectoryInit, DirectoryTyped, Actors
  <1>4. SecretWasTyped
    BY <1>2 DEF SecretWasTyped
  <1> QED  BY <1>1, <1>3, <1>4 DEF DirectoryInv, SecretsCarried, Sessions, DirectoryInit

(* The inductive invariant: what every job carries to the directory and to   *)
(* the pool (the h_connection handlers, api_conn_pool_maintain).             *)
THEOREM DirectoryInvariant == DirectorySpec => []DirectoryInv
  <1>1. DirectoryInit => DirectoryInv
    BY DirectoryStarts
  <1>2. DirectoryInv /\ [DirectoryNext]_connVars => DirectoryInv'
    <2> SUFFICES ASSUME DirectoryInv, [DirectoryNext]_connVars  PROVE DirectoryInv'
      OBVIOUS
    <2>1. ASSUME NEW a \in Clients, DirectoryRequest(a)  PROVE DirectoryInv'
      BY <2>1, CreateKeeps, OpenFormKeeps, AskKeeps, DeleteKeeps, ResolveKeeps DEF DirectoryRequest
    <2>2. CASE Sweep(Sweeper)
      BY <2>2, SweepKeeps
    <2>3. ASSUME NEW a \in Actors, Continue(a)  PROVE DirectoryInv'
      BY <2>3, LoadKeeps, SaveKeeps, SessionsGoKeeps, ReloadKeeps, AcquireKeeps, OpenedKeeps,
         ReleaseKeeps, WarmUpKeeps DEF Continue
    <2>4. CASE UNCHANGED connVars
      BY <2>4 DEF connVars, DirectoryInv, DirectoryTyped, SecretsCarried, SecretWasTyped, CarriesTyped,
         WasTyped, Sessions, HasDirectorys, SessionOf
    <2> QED  BY <2>1, <2>2, <2>3, <2>4 DEF DirectoryNext, Actors
  <1> QED  BY <1>1, <1>2, PTL DEF DirectorySpec

(* Whatever forms are typed and whoever saves between whose steps, what the  *)
(* directory holds as a secret, under any spelling, was typed for that       *)
(* connection and is not the mask (conn_write_config_merged).                *)
THEOREM SecretsWereTyped == DirectorySpec => []SecretWasTyped
  <1>1. DirectoryInv => SecretWasTyped
    BY DEF DirectoryInv, SecretsCarried
  <1> QED  BY <1>1, DirectoryInvariant, PTL

(* A run uses a session opened with the secret and the address its look at   *)
(* the directory gave it (step_effective_connector, conn_pool_acquire).      *)
THEOREM RunsUseWhatTheyLookedUp == DirectorySpec => []RunsUseTheDirectory
  <1>1. DirectoryInv => RunsUseTheDirectory
    <2> SUFFICES ASSUME DirectoryInv, NEW a \in Clients, NEW s \in pool,
                        job[a].do = "run", job[a].at = "use", s.by = a,
                        NEW k \in DOMAIN job[a].rec.cfg, IsSecret(k) \/ IsDestination(k)
                 PROVE  GetCanon(s.cfg, k) = job[a].rec.cfg[k]
      BY DEF RunsUseTheDirectory
    <2>1. s.cfg = job[a].body
      BY ConnectionsAssumption DEF DirectoryInv, Sessions, SessionOf
    <2>2. k \in DOMAIN job[a].body /\ job[a].body[k] = job[a].rec.cfg[k]
      BY DEF DirectoryInv, Sessions, HasDirectorys, Actors
    <2> QED  BY <2>1, <2>2 DEF GetCanon
  <1> QED  BY <1>1, DirectoryInvariant, PTL
=============================================================================
