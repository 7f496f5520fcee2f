----------------------------- MODULE KafkaSource -----------------------------
(***************************************************************************)
(* A pipeline step that reads a Kafka topic (kafka_connector.c and         *)
(* run_connector_step).  The topic has one partition; Payload[o + 1] is    *)
(* message o.  Messages are appended by others and trimmed by retention;   *)
(* librdkafka is what its calls return.  A run reads pages until an empty   *)
(* one, every page committing the group's offset before its rows are       *)
(* appended.                                                               *)
(***************************************************************************)
EXTENDS Integers, Sequences, SequencesExt

CONSTANTS
    Payload,     \* messages [schema, fields]: the fields [name, type, text] of an
                 \* object, <<>> if it is none; the id of their Avro schema, or 0
    Settings,    \* set of [group, latest, start, named, avro]: the step's config
    PAGE_SIZE,   \* messages of a page
    MaxTrouble   \* bound: failures, retention, restarts and lost sessions together

VARIABLES
    cfg,         \* the setting of this behaviour
    first, end,  \* offsets: log start, and the next to be written
    committed,   \* offset the broker keeps for the group, -1 if none
    session,     \* the consumer: [open, assigned, pos, offset_fallback_tried, schema_cache]
    run,         \* run_connector_step: [phase, batch, got, created]
    stage,       \* rows of the target table: [offset, fields, columns, cells]
    trouble,
    told,        \* runs that succeeded with the message in the stage: 0, 1, 2 or more
    skipped,     \* offsets the reader was moved past
    again        \* offsets that may be read again

ASSUME KafkaAssumption == Len(Payload) \in Nat /\ PAGE_SIZE \in Nat /\ MaxTrouble \in Nat

kafkaVars == <<cfg, first, end, committed, session, run, stage, trouble, told, skipped, again>>

Offsets == 0 .. Len(Payload) - 1
Schemas == {Payload[o + 1].schema : o \in Offsets} \ {0}
NoSession == [open |-> FALSE, assigned |-> FALSE, pos |-> 0, offset_fallback_tried |-> FALSE,
              schema_cache |-> {}]
NoRun == [phase |-> "idle", batch |-> <<>>, got |-> {}, created |-> FALSE]
Trouble == trouble < MaxTrouble /\ trouble' = trouble + 1
Between(a, b) == {o \in Offsets : a <= o /\ o < b}

-----------------------------------------------------------------------------
(* From messages to rows                                                     *)

(* batch_from_json, batch_from_raw: the columns after kafka_offset.          *)
Raw == <<[name |-> "value", type |-> "text", text |-> "payload"]>>
JsonFields(m) == IF m.fields = <<>> THEN Raw ELSE m.fields
(* batch_from_avro: every value is text; without its schema a message is raw. *)
AvroFields(m, known) ==
    IF m.schema \in known \ {0}
    THEN [c \in DOMAIN m.fields |-> [m.fields[c] EXCEPT !.type = "text"]] ELSE Raw
Parsed(o, known) ==
    [offset |-> o,
     fields |-> IF cfg.avro THEN AvroFields(Payload[o + 1], known) ELSE JsonFields(Payload[o + 1])]

(* kafka_read_batch: a page has the schema of its first message; a value is  *)
(* taken by its place and read as what that schema's column holds in memory: *)
(* the address of a text, an integer or a double.                            *)
Wild == "wild"           \* memory read as what it is not
Missing == "absent"
InMemory(field) == IF field.type = "null" THEN "text" ELSE field.type
Cell(column, fields, c) ==
    IF c \notin DOMAIN fields THEN Missing
    ELSE IF InMemory(fields[c]) = InMemory(column) THEN fields[c].text ELSE Wild
Row(columns, m) ==
    [offset |-> m.offset, fields |-> m.fields, columns |-> columns,
     cells |-> [c \in DOMAIN columns |-> Cell(columns[c], m.fields, c)]]
Rows(batch) == [i \in DOMAIN batch |-> Row(batch[1].fields, batch[i])]

-----------------------------------------------------------------------------
(* The consumer                                                              *)

(* kafka_assign_all: where a session without a committed offset starts.      *)
StartOffset ==
    IF cfg.start # "" THEN (IF cfg.start = "absolute" /\ cfg.latest THEN end ELSE 0)
    ELSE IF cfg.latest THEN end ELSE first
(* A config that names no group gets one of its own, so that only the text    *)
(* of the default name leaves the group out.                                 *)
explicit_group == cfg.group # "dfo-consumer"
Resumes == explicit_group /\ committed >= 0
Assign(known) == IF known /\ Resumes THEN committed ELSE StartOffset
(* What a start at pos leaves out, and what it reads once more.              *)
MovedOver(pos) == Between(0, pos) \ {o \in Offsets : o < committed}
MovedBack(pos) == {o \in Offsets : pos <= o /\ o < committed}

(* The offset the broker holds is asked for; the answer may not come.        *)
Assigned(known) ==
    IF session.assigned THEN session ELSE [session EXCEPT !.assigned = TRUE, !.pos = Assign(known)]

(* A page is polled until it is full, the topic is drained or ten seconds    *)
(* are over: any number of the messages there are.                           *)
Polled(n, known) == [i \in 1 .. n |-> Parsed(session.pos + i - 1, known)]
Asked(n) == {Payload[o + 1].schema : o \in Between(session.pos, session.pos + n)} \ {0}

OpenSession ==
    /\ run.phase = "idle"
    /\ session' = IF session.open THEN session ELSE [NoSession EXCEPT !.open = TRUE]
    /\ run' = [NoRun EXCEPT !.phase = IF cfg.named THEN "describe" ELSE "assign"]
    /\ UNCHANGED <<cfg, first, end, committed, stage, trouble, told, skipped, again>>

(* kafka_assign_all, of the first call of the session; known is FALSE when   *)
(* four attempts did not get the committed offset.                           *)
AssignAll(known) ==
    /\ run.phase \in {"describe", "assign"}
    /\ session.assigned \/ ~explicit_group => known
    /\ IF known THEN UNCHANGED trouble ELSE Trouble
    /\ session' = Assigned(known)
    /\ skipped' = IF session.assigned THEN skipped ELSE skipped \cup MovedOver(Assign(known))
    /\ again' = IF session.assigned \/ (known /\ Resumes) THEN again ELSE again \cup MovedBack(Assign(known))
    /\ run' = [run EXCEPT !.phase = IF @ = "describe" THEN "sample" ELSE "read"]
    /\ UNCHANGED <<cfg, first, end, committed, stage, told>>

(* kafka_describe polls messages for a schema, and they are gone.            *)
InRange == session.pos >= first
Describe ==
    /\ run.phase = "sample"
    /\ run' = [run EXCEPT !.phase = "read"]
    /\ \/ /\ InRange /\ session.pos < end
          /\ session' = [session EXCEPT !.pos = @ + 1]
          /\ skipped' = skipped \cup {session.pos}
       \/ UNCHANGED <<session, skipped>>
    /\ UNCHANGED <<cfg, first, end, committed, stage, trouble, told, again>>

(* The position fell out of the log.  librdkafka resets it by itself as      *)
(* auto.offset.reset says, where the broker tells it the offsets; else the   *)
(* error arrives and the position goes to the end, once in a session.        *)
Reset(pos, tried) ==
    /\ session' = [session EXCEPT !.pos = pos, !.offset_fallback_tried = @ \/ tried]
    /\ skipped' = skipped \cup Between(session.pos, pos)
    /\ UNCHANGED <<cfg, first, end, committed, run, stage, trouble, told, again>>
OutOfRange ==
    /\ run.phase \in {"sample", "read"} /\ ~InRange
    /\ \/ Reset(IF cfg.latest THEN end ELSE first, FALSE)
       \/ run.phase = "read" /\ ~session.offset_fallback_tried /\ Reset(end, TRUE)

(* kafka_read_batch, up to its commit.  Schemas are got from the registry    *)
(* once in a session, if it answers.                                         *)
ReadBatch(n, known) ==
    /\ run.phase = "read" /\ InRange
    /\ n \in 1 .. PAGE_SIZE /\ session.pos + n <= end
    /\ known \subseteq session.schema_cache \cup Asked(n) /\ session.schema_cache \subseteq known
    /\ IF ~cfg.avro \/ Asked(n) \subseteq known
       THEN UNCHANGED trouble /\ known = session.schema_cache \cup (IF cfg.avro THEN Asked(n) ELSE {})
       ELSE Trouble
    /\ run' = [run EXCEPT !.phase = "commit", !.batch = Polled(n, known)]
    /\ session' = [session EXCEPT !.pos = @ + n, !.schema_cache = known]
    /\ UNCHANGED <<cfg, first, end, committed, stage, told, skipped, again>>
InBatch == {run.batch[i].offset : i \in DOMAIN run.batch}
(* The synchronous commit; that four attempts failed is only logged.         *)
Commit ==
    /\ run.phase = "commit"
    /\ run' = [run EXCEPT !.phase = "append"]
    /\ \/ ~explicit_group /\ UNCHANGED <<committed, trouble, again>>
       \/ explicit_group /\ committed' = session.pos /\ UNCHANGED <<trouble, again>>
       \/ /\ explicit_group /\ Trouble
          /\ again' = again \cup InBatch /\ UNCHANGED committed
    /\ UNCHANGED <<cfg, first, end, session, stage, told, skipped>>

(* The page goes to the target, which the first page of the run recreated.   *)
AppendRecreating ==
    /\ run.phase = "append"
    /\ stage' = Rows(run.batch)                                \* mutant
    /\ run' = [run EXCEPT !.phase = "read", !.batch = <<>>, !.created = TRUE,
                          !.got = @ \cup InBatch]
    /\ UNCHANGED <<cfg, first, end, committed, session, trouble, told, skipped, again>>
AppendPage ==
    /\ run.phase = "append"
    /\ stage' = (IF run.created THEN stage ELSE <<>>) \o Rows(run.batch)
    /\ run' = [run EXCEPT !.phase = "read", !.batch = <<>>, !.created = TRUE,
                          !.got = @ \cup InBatch]
    /\ UNCHANGED <<cfg, first, end, committed, session, trouble, told, skipped, again>>

InStage(o) == \E i \in DOMAIN stage : stage[i].offset = o
(* A page without messages ends the run: the topic is drained, or nothing    *)
(* came for ten seconds.  The target is emptied only if describe gave a      *)
(* schema.  The session stays in the pool, or was the step's own.            *)
EndOfRun(keep) ==
    /\ run.phase = "read" /\ InRange
    /\ session.pos < end => trouble < MaxTrouble
    /\ trouble' = IF session.pos < end THEN trouble + 1 ELSE trouble
    /\ stage' = IF ~run.created /\ cfg.named THEN <<>> ELSE stage
    /\ told' = [o \in Offsets |-> IF run.created /\ InStage(o) /\ told[o] < 2 THEN told[o] + 1 ELSE told[o]]
    /\ session' = IF keep THEN session ELSE NoSession
    /\ run' = NoRun
    /\ UNCHANGED <<cfg, first, end, committed, skipped, again>>

(* No broker, no topic, no right to read, an offset out of reach: the run    *)
(* fails and its session is not used again.  Pages it committed stay so.     *)
Dropped == run.got \cup InBatch
End ==
    /\ session' = NoSession /\ run' = NoRun
    /\ skipped' = skipped \cup {o \in Dropped : o < committed}
    /\ UNCHANGED <<cfg, first, end, committed, stage, told, again>>
ReadFails ==
    /\ run.phase \in {"describe", "assign", "sample", "read"} /\ End
    /\ IF run.phase = "read" /\ ~InRange /\ session.offset_fallback_tried THEN UNCHANGED trouble ELSE Trouble
KafkaCrash == run.phase # "idle" /\ Trouble /\ End

(* Others                                                                    *)
Produce ==
    /\ end < Len(Payload) /\ end' = end + 1
    /\ UNCHANGED <<cfg, first, committed, session, run, stage, trouble, told, skipped, again>>
Retention ==
    /\ first < end /\ Trouble /\ first' = first + 1
    /\ skipped' = skipped \cup {first}
    /\ UNCHANGED <<cfg, end, committed, session, run, stage, told, again>>
LoseSession ==
    /\ run.phase = "idle" /\ session.open /\ Trouble
    /\ session' = NoSession
    /\ UNCHANGED <<cfg, first, end, committed, run, stage, told, skipped, again>>

-----------------------------------------------------------------------------

KafkaInit ==
    /\ cfg \in Settings
    /\ first = 0 /\ end = 0 /\ committed = -1
    /\ session = NoSession /\ run = NoRun /\ stage = <<>> /\ trouble = 0
    /\ told = [o \in Offsets |-> 0] /\ skipped = {} /\ again = {}

KafkaNext ==
    \/ OpenSession \/ (\E known \in BOOLEAN : AssignAll(known)) \/ Describe \/ OutOfRange
    \/ (\E n \in 1 .. PAGE_SIZE : \E known \in SUBSET Schemas : ReadBatch(n, known)) \/ Commit \/ AppendPage
    \/ (\E keep \in BOOLEAN : EndOfRun(keep)) \/ ReadFails \/ KafkaCrash
    \/ Produce \/ Retention \/ LoseSession

KafkaSpec == KafkaInit /\ [][KafkaNext]_kafkaVars

-----------------------------------------------------------------------------

(* Of an incremental step: every message the group's offset has passed was   *)
(* in the stage of exactly one run that succeeded, or is in the run going    *)
(* on; but for the messages the reader was moved past (a start at the end,   *)
(* retention, a sampled message, a run that failed after its commit) and     *)
(* those whose commit failed or whose committed offset was not got.          *)
MessagesAccounted ==
    explicit_group =>
        \A o \in Offsets :
            /\ told[o] > 1 => o \in again
            /\ o < committed => told[o] > 0 \/ o \in skipped \cup again \cup Dropped

(* What the code does not keep.                                              *)
(* The pages a run committed reach a stage that succeeded.                   *)
CommittedWasRead ==
    explicit_group =>
        \A o \in Offsets : o < committed /\ o >= first => told[o] > 0 \/ o \in Dropped
(* A cell of the stage holds what the message carries under its column.      *)
RowsHoldTheirMessages ==
    \A i \in DOMAIN stage :
        \A c \in DOMAIN stage[i].cells :
            \E f \in Range(JsonFields(Payload[stage[i].offset + 1])) :
                f.name = stage[i].columns[c].name /\ f.text = stage[i].cells[c]
(* A step without a group of its own reads all there is in every run.        *)
EveryRunReadsAll ==
    ~explicit_group /\ ~cfg.latest /\ run.phase = "read" /\ session.pos = end
        => run.got = Between(first, end)
=============================================================================
