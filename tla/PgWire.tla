-------------------------------- MODULE PgWire --------------------------------
(***************************************************************************)
(* The PostgreSQL wire server (pgwire.c): one detached thread per          *)
(* connection, the handshake, simple queries, and the extended protocol    *)
(* with its slots for statements and portals, lowered to simple queries by *)
(* putting the bound values into the text (main.c's pg_query_cb, api.c's   *)
(* api_pg_execute).  The database is one table of one column.              *)
(*                                                                         *)
(* A SQL text is [verb, arg]; arg is what stands in the place of its one   *)
(* value: the parameter $at, or a literal as xq_append_value writes it.    *)
(***************************************************************************)
EXTENDS Integers, Sequences, FiniteSets

CONSTANTS
    Clients,
    Names,          \* of statements and portals: what fits in name[64]
    Texts,          \* the texts clients send
    Values,         \* what they bind
    Doubled(_),     \* a value with every ' in it doubled
    MaxPrepared, MaxPortals,   \* PG_MAX_PREPARED, PG_MAX_PORTALS: 32 each
    Loads           \* contents of the table when another statement fills it

VARIABLES
    running,   \* srv->running
    phase,     \* per connection thread: where it is
    prepared,  \* c->prepared: a function of 1..MaxPrepared
    portals,   \* c->portals
    batch_error,
    handed,    \* the text the last message handed to the query callback
    said,      \* the type of that message, and the answers to it
    rows       \* the cells of the table

wireVars == <<running, phase, prepared, portals, batch_error, handed, said, rows>>
conn == <<prepared, portals, batch_error>>

Null == "null"
Arg(form, at, text) == [form |-> form, at |-> at, text |-> text]
NoArg == Arg("none", 0, "")
NoSql == [verb |-> "none", arg |-> NoArg]

Probes == {"empty", "begin", "commit", "rollback", "set", "discard", "show", "version",
           "database", "user", "schema"}
Catalogs == {"tables", "columns", "namespace", "class"}
Verbs == Probes \union Catalogs \union
         {"broken", "insert", "missing", "fails", "select", "find", "update", "delete"}
Forms == {"none", "param", "null", "raw", "quoted"}

ASSUME WireAssumption ==
    /\ MaxPrepared \in Nat /\ MaxPortals \in Nat
    /\ Texts \subseteq [verb : Verbs, arg : [form : Forms, at : Nat, text : STRING]]
    /\ Loads \subseteq Seq(STRING)

Bindable == UNION {{values[k] : k \in DOMAIN values} : values \in Values}
ASSUME DoubledAssumption == \A v, w \in Bindable : Doubled(v) = Doubled(w) => v = w

FreeSlot == [name |-> "", sql |-> NoSql, in_use |-> FALSE]
FreePortal == [name |-> "", prep |-> 0, values |-> <<>>, in_use |-> FALSE]
Slots == [i \in 1..MaxPrepared |-> FreeSlot]
PortalSlots == [i \in 1..MaxPortals |-> FreePortal]

WireInit ==
    /\ running = TRUE
    /\ phase = [c \in Clients |-> "none"]
    /\ prepared = [c \in Clients |-> Slots]
    /\ portals = [c \in Clients |-> PortalSlots]
    /\ batch_error = [c \in Clients |-> FALSE]
    /\ handed = [c \in Clients |-> NoSql]
    /\ said = [c \in Clients |-> <<"X", <<>>>>]
    /\ rows \in Loads

-----------------------------------------------------------------------------
(* Connecting *)

Go(c, p) == phase' = [phase EXCEPT ![c] = p]
Answer(c, type, sql, answers) ==
    /\ handed' = [handed EXCEPT ![c] = sql]
    /\ said' = [said EXCEPT ![c] = <<type, answers>>]

Accept(c) ==
    /\ running /\ phase[c] = "none"
    /\ Go(c, "startup")
    /\ UNCHANGED <<running, conn, handed, said, rows>>

(* read_startup, twice at most: one SSLRequest is answered 'N'.  "login" is  *)
(* a version 3.0 StartupMessage that names a user.                           *)
AfterStartup(p, m) ==
    CASE p = "startup" /\ m = "ssl" -> "plain"
      [] m = "login" -> "password"
      [] OTHER -> "over"      \* cancel, another version, no user, a second SSLRequest
ReadStartup(c, m) ==
    /\ phase[c] \in {"startup", "plain"}
    /\ Go(c, AfterStartup(phase[c], m))
    /\ UNCHANGED <<running, conn, handed, said, rows>>

(* handle_password with pg_authenticate_cb: the configured password for      *)
(* admin, or for any user a key of the store.                                *)
Authenticated(user, password) ==
    \/ user = "admin" /\ password = "admin's"
    \/ password = "dfo_key"
Greeting == <<<<"R", "ok">>, <<"S", "client_encoding">>, <<"S", "DateStyle">>,
              <<"S", "TimeZone">>, <<"S", "server_version">>, <<"K", "0">>, <<"Z", "I">>>>
HandlePassword(c, user, password) ==
    /\ phase[c] = "password"
    /\ IF Authenticated(user, password)
       THEN Go(c, "loop") /\ Answer(c, "X", NoSql, Greeting)
       ELSE Go(c, "over") /\ Answer(c, "X", NoSql, <<<<"E", "28P01">>>>)
    /\ UNCHANGED <<running, conn, rows>>

(* The condition of run_query_loop; then the thread blocks in read_full.     *)
LoopHead(c) ==
    /\ phase[c] = "loop"
    /\ Go(c, IF running THEN "reading" ELSE "over")
    /\ UNCHANGED <<running, conn, handed, said, rows>>

(* Terminate, or the client is gone.                                         *)
HangUp(c) ==
    /\ phase[c] \in {"startup", "plain", "password", "reading"}
    /\ Go(c, "over")
    /\ UNCHANGED <<running, conn, handed, said, rows>>

(* The end of connection_thread; another connection gets a zeroed PgConn.    *)
Done(c) ==
    /\ phase[c] = "over"
    /\ Go(c, "none")
    /\ prepared' = [prepared EXCEPT ![c] = Slots]
    /\ portals' = [portals EXCEPT ![c] = PortalSlots]
    /\ batch_error' = [batch_error EXCEPT ![c] = FALSE]
    /\ Answer(c, "X", NoSql, <<>>)
    /\ UNCHANGED <<running, rows>>

-----------------------------------------------------------------------------
(* Slots *)

Named(slots, n) == {i \in DOMAIN slots : slots[i].in_use /\ slots[i].name = n}
Unused(slots) == {i \in DOMAIN slots : ~slots[i].in_use}
First(S) == {i \in S : \A j \in S : i <= j}

FindPrepared(c, n) == First(Named(prepared[c], n))
FindOrAllocPreparedFresh(c, n) == First(Unused(prepared[c]))       \* mutant
FindOrAllocPrepared(c, n) ==
    IF FindPrepared(c, n) # {} THEN FindPrepared(c, n) ELSE First(Unused(prepared[c]))
FindPortal(c, n) == First(Named(portals[c], n))
FindOrAllocPortal(c, n) ==
    IF FindPortal(c, n) # {} THEN FindPortal(c, n) ELSE First(Unused(portals[c]))

(* The portals that point to a released slot keep their pointer.             *)
PreparedRelease(c, i) == prepared' = [prepared EXCEPT ![c][i] = FreeSlot]
PortalRelease(c, i) == portals' = [portals EXCEPT ![c][i] = FreePortal]

-----------------------------------------------------------------------------
(* Values in the text *)

Numeric(v) == v \in {"7", "42", "2.5"}
(* xq_append_value: quotes are doubled in a quoted literal.                  *)
Literal(v) ==
    IF v = Null THEN Arg("null", 0, "NULL")
    ELSE IF Numeric(v) \/ v \in {"true", "false"} THEN Arg("raw", 0, v)
    ELSE Arg("quoted", 0, Doubled(v))

IsParam(arg) == arg.form = "param"
ValueAt(values, k) == IF k \in DOMAIN values THEN values[k] ELSE Null
SubstituteParams(sql, values) ==
    IF IsParam(sql.arg) THEN [sql EXCEPT !.arg = Literal(ValueAt(values, @.at))] ELSE sql
FinalSql(sql, values) == IF values # <<>> THEN SubstituteParams(sql, values) ELSE sql

-----------------------------------------------------------------------------
(* The query callback *)

(* pg_infer_col_oid: the first cell that is neither NULL nor empty.          *)
OidOf(v) == CASE v \in {"true", "false"} -> "bool" [] v \in {"7", "42"} -> "int8"
              [] v = "2.5" -> "float8" [] OTHER -> "text"
ColOid(cells) ==
    IF \A i \in DOMAIN cells : cells[i] \in {Null, ""} THEN "text"
    ELSE OidOf(cells[CHOOSE i \in DOMAIN cells : cells[i] \notin {Null, ""} /\
                        \A j \in 1..(i - 1) : cells[j] \in {Null, ""}])

Error(code) == <<<<"E", code>>>>
Complete(tag) == <<<<"C", tag>>>>
ResultSet(oid, cells, tag) ==
    <<<<"T", oid>>>> \o [i \in DOMAIN cells |-> <<"D", cells[i]>>] \o Complete(tag)

(* pg_query_cb, pg_emulate_catalog, and the statement itself; a literal is   *)
(* read as sql.c and parse_update read it: '' stays doubled, and NULL is the *)
(* text NULL in a SET and equal to nothing in a WHERE.  A $ is no token.     *)
Probe(verb) ==
    IF verb \in {"empty", "begin", "commit", "rollback", "set", "discard"} THEN Complete(verb)
    ELSE ResultSet("text", <<verb>>, IF verb = "show" THEN "SHOW" ELSE "SELECT")
Catalog(verb) ==
    IF verb = "namespace" THEN ResultSet(verb, <<"pg_catalog", "public">>, "SELECT")
    ELSE ResultSet(verb, <<"t">>, "SELECT")
Equal(literal) ==
    LET at == {i \in DOMAIN rows : literal.form # "null" /\ rows[i] = literal.text} IN
    [k \in 1..Cardinality(at) |-> literal.text]
Changed(n, tag) == ResultSet("int8", <<n>>, tag)
PgQuery(sql) ==
    IF sql.verb \in Probes THEN Probe(sql.verb)
    ELSE IF sql.verb \in Catalogs THEN Catalog(sql.verb)
    ELSE IF sql.verb \in {"broken", "insert"} \/ IsParam(sql.arg) THEN Error("42601")
    ELSE CASE sql.verb = "missing" -> Error("42P01")
           [] sql.verb = "fails" -> Error("XX000")
           [] sql.verb = "select" -> ResultSet(ColOid(rows), rows, "SELECT")
           [] sql.verb = "find" -> ResultSet(ColOid(Equal(sql.arg)), Equal(sql.arg), "SELECT")
           [] sql.verb = "update" -> Changed(Len(rows), "UPDATE")
           [] sql.verb = "delete" -> Changed(Len(rows), "DELETE")
RowsAfter(sql) ==
    IF IsParam(sql.arg) THEN rows
    ELSE CASE sql.verb = "update" -> [i \in DOMAIN rows |-> sql.arg.text]
           [] sql.verb = "delete" -> <<>>
           [] OTHER -> rows

Failed(answers) == \E i \in DOMAIN answers : answers[i][1] = "E"

-----------------------------------------------------------------------------
(* Messages: each handler and the ReadyForQuery that follows some of them.   *)

Reads(c) == phase[c] = "reading" /\ Go(c, "loop") /\ UNCHANGED running
Batched(c, type) ==                       \* the messages a failed batch skips
    Reads(c) /\ ~batch_error[c]
Skipped(c, type) ==
    /\ type \in {"P", "B", "D", "E", "C"}
    /\ Reads(c) /\ batch_error[c]
    /\ Answer(c, type, NoSql, <<>>)
    /\ UNCHANGED <<conn, rows>>
Refuse(c, type, code) ==
    /\ batch_error' = [batch_error EXCEPT ![c] = TRUE]
    /\ Answer(c, type, NoSql, Error(code))
    /\ UNCHANGED <<prepared, portals, rows>>
Tagged(c, type, tag) ==
    /\ Answer(c, type, NoSql, <<<<tag>>>>)
    /\ UNCHANGED <<batch_error, rows>>
Runs(c, type, sql, ready) ==
    /\ Answer(c, type, sql, PgQuery(sql) \o ready)
    /\ rows' = RowsAfter(sql)
    /\ UNCHANGED conn
Ready(status) == <<<<"Z", status>>>>

HandleParse(c, n, text) ==
    /\ Batched(c, "P")
    /\ \/ \E i \in FindOrAllocPrepared(c, n) :
            /\ prepared' = [prepared EXCEPT ![c][i] =
                                [name |-> n, sql |-> text, in_use |-> TRUE]]
            /\ Tagged(c, "P", "1") /\ UNCHANGED portals
       \/ FindOrAllocPrepared(c, n) = {} /\ Refuse(c, "P", "53000")

(* A portal is the slot of its statement, not its text.                      *)
HandleBind(c, p, n, values) ==
    /\ Batched(c, "B")
    /\ \/ FindPrepared(c, n) = {} /\ Refuse(c, "B", "26000")
       \/ \E i \in FindPrepared(c, n) :
            \/ \E j \in FindOrAllocPortal(c, p) :
                /\ portals' = [portals EXCEPT ![c][j] =
                        [name |-> p, prep |-> i, values |-> values, in_use |-> TRUE]]
                /\ Tagged(c, "B", "2") /\ UNCHANGED prepared
            \/ FindOrAllocPortal(c, p) = {} /\ Refuse(c, "B", "53000")

HandleDescribe(c) ==
    /\ Batched(c, "D")
    /\ Tagged(c, "D", "n") /\ UNCHANGED <<prepared, portals>>

(* An error of the callback does not set batch_error.                        *)
HandleExecute(c, p) ==
    /\ Batched(c, "E")
    /\ \/ \E j \in FindPortal(c, p) :
            LET sql == prepared[c][portals[c][j].prep].sql IN
            IF sql = NoSql THEN Refuse(c, "E", "26000")
            ELSE Runs(c, "E", FinalSql(sql, portals[c][j].values), <<>>)
       \/ FindPortal(c, p) = {} /\ Refuse(c, "E", "26000")

HandleClose(c, kind, n) ==
    /\ Batched(c, "C")
    /\ \/ /\ kind = "S" /\ UNCHANGED portals
          /\ \/ \E i \in FindPrepared(c, n) : PreparedRelease(c, i)
             \/ FindPrepared(c, n) = {} /\ UNCHANGED prepared
       \/ /\ kind = "P" /\ UNCHANGED prepared
          /\ \/ \E j \in FindPortal(c, n) : PortalRelease(c, j)
             \/ FindPortal(c, n) = {} /\ UNCHANGED portals
    /\ Tagged(c, "C", "3")

(* A body that does not parse, and a parameter in the binary format.         *)
Malformed(c, type) ==
    /\ Batched(c, type)
    /\ Refuse(c, type, IF type = "B" THEN "0A000" ELSE "08P01")

(* A simple query is run in a failed batch too.                              *)
SimpleQuery(c, text) == Reads(c) /\ Runs(c, "Q", text, Ready("I"))

AfterSync(c) == [batch_error EXCEPT ![c] = FALSE]
Sync(c) ==
    /\ Reads(c)
    /\ Answer(c, "S", NoSql, Ready(IF batch_error[c] THEN "E" ELSE "I"))
    /\ batch_error' = AfterSync(c)
    /\ UNCHANGED <<prepared, portals, rows>>

(* Flush, and the messages the server does not know.                         *)
Other(c, known) ==
    /\ Reads(c)
    /\ Answer(c, "H", NoSql, IF known THEN <<>> ELSE Error("08P01") \o Ready("I"))
    /\ UNCHANGED <<conn, rows>>

-----------------------------------------------------------------------------
(* pgwire_stop joins the accept thread only; other statements meanwhile.     *)

Stop ==
    /\ running
    /\ running' = FALSE
    /\ UNCHANGED <<phase, conn, handed, said, rows>>
Elsewhere(cells) ==
    /\ rows' = cells /\ rows # cells
    /\ UNCHANGED <<running, phase, conn, handed, said>>

Message(c) ==
    \/ \E n \in Names, text \in Texts : HandleParse(c, n, text)
    \/ \E p, n \in Names, values \in Values : HandleBind(c, p, n, values)
    \/ \E p \in Names : HandleExecute(c, p)
    \/ \E kind \in {"S", "P"}, n \in Names : HandleClose(c, kind, n)
    \/ \E type \in {"P", "B", "D", "E"} : Malformed(c, type)
    \/ \E type \in {"P", "B", "D", "E", "C"} : Skipped(c, type)
    \/ \E text \in Texts : SimpleQuery(c, text)
    \/ HandleDescribe(c) \/ Sync(c)
    \/ \E known \in BOOLEAN : Other(c, known)

WireNext ==
    \/ \E c \in Clients :
        \/ Accept(c) \/ LoopHead(c) \/ HangUp(c) \/ Done(c) \/ Message(c)
        \/ \E m \in {"ssl", "login", "cancel"} : ReadStartup(c, m)
        \/ \E user \in {"admin", "user"}, password \in {"admin's", "dfo_key", "wrong"} :
                HandlePassword(c, user, password)
    \/ Stop
    \/ \E cells \in Loads : Elsewhere(cells)

WireSpec == WireInit /\ [][WireNext]_wireVars

-----------------------------------------------------------------------------
(* Properties *)

(* Slots seen as maps by name; a text handed to the callback as the SQL      *)
(* standard reads it, which undoes the doubling of quotes (the engine does   *)
(* not: BoundValuesArrive); an answer as done, failed, malformed or skipped. *)
TextUnder(c, n) ==
    IF FindPrepared(c, n) = {} THEN NoSql
    ELSE prepared[c][CHOOSE i \in FindPrepared(c, n) : TRUE].sql
BoundUnder(c, n) ==
    IF FindPortal(c, n) = {} THEN NoSql
    ELSE LET po == portals[c][CHOOSE j \in FindPortal(c, n) : TRUE] IN
         [text |-> prepared[c][po.prep].sql, values |-> po.values]
Undoubled(text) ==
    IF \E v \in Bindable : Doubled(v) = text
    THEN CHOOSE v \in Bindable : Doubled(v) = text ELSE text
ReadAs(sql) ==
    CASE sql.arg.form = "raw" -> [sql EXCEPT !.arg = Arg("value", 0, @.text)]
      [] sql.arg.form = "quoted" -> [sql EXCEPT !.arg = Arg("value", 0, Undoubled(@.text))]
      [] sql.arg.form = "null" -> [sql EXCEPT !.arg = Arg("value", 0, Null)]
      [] OTHER -> sql
Meant(text, values) ==
    IF IsParam(text.arg) /\ values # <<>>
    THEN [text EXCEPT !.arg = Arg("value", 0, ValueAt(values, @.at))] ELSE ReadAs(text)
Went(type, answers) ==
    IF type \in {"H", "S", "X"} THEN "done"
    ELSE IF answers = <<>> THEN "skipped"
    ELSE IF answers \in {Error("08P01"), Error("0A000")} THEN "malformed"
    ELSE IF Failed(answers) THEN "failed" ELSE "done"

Protocol == INSTANCE PgProtocol WITH
    MaxStatements <- MaxPrepared, MaxPortals <- MaxPortals, NoText <- NoSql, PutIn <- Meant,
    statements <- [c \in Clients |-> [n \in Names |-> TextUnder(c, n)]],
    bound <- [c \in Clients |-> [n \in Names |-> BoundUnder(c, n)]],
    skipping <- batch_error,
    ran <- [c \in Clients |-> ReadAs(handed[c])],
    reply <- [c \in Clients |-> <<said[c][1], Went(said[c][1], said[c][2])>>]

(* The one step the protocol does not allow: the engine refuses the text of  *)
(* an Execute, which is answered with an error, and the batch goes on, as    *)
(* handle_execute does not look at what the callback did (pgwire.c:716).     *)
BatchGoesOn(c) ==
    /\ \E p \in Names : Protocol!Executed(c, p, "failed")
    /\ UNCHANGED batch_error

(* Slots that are released, reused and overwritten, and pointers to them,    *)
(* keep what a client of the protocol relies on: an Execute hands over the   *)
(* text and the values its portal was bound to unless the statement is       *)
(* replaced, names do not mix, a message the server itself refuses has the   *)
(* rest of its batch skipped up to Sync, and a new session starts empty      *)
(* (pgwire.c:388-445, 742-796).  Every step is one of PgProtocol, or the     *)
(* error of the engine that skips nothing.                                   *)
KeepsTheProtocol ==
    Protocol!Init /\ [][Protocol!Next \/ \E c \in Clients : BatchGoesOn(c)]_(Protocol!vars)

-----------------------------------------------------------------------------
(* What comments and the protocol promise and the code does not keep.        *)

(* "When something fails inside an extended-query batch, we set this and     *)
(* skip" (pgwire.c:80-81): an Execute that fails is followed by skips.       *)
FailureSkipsTheRest ==
    [][\A c \in Clients : (said[c][1] = "E" /\ Failed(said[c][2]) /\ said'[c] # said[c])
        => (said'[c][2] = <<>> \/ said'[c][1] \notin {"P", "B", "D", "E", "C"})]_wireVars

(* "doubling embedded ' per SQL standard" (pgwire.c:486): what an UPDATE     *)
(* stores is a value some client bound, or was there before.                 *)
BoundValuesArrive == \A i \in DOMAIN rows : \E v \in Values \union Loads : rows[i] \in {v[k] : k \in DOMAIN v}
=============================================================================
