----------------------------- MODULE MilvusSink -----------------------------
(***************************************************************************)
(* The upload of embeddings by the ZTF enrichment workers                  *)
(* (src/src/milvus/sink.rs, insert.rs, backup.rs): each worker has a sink  *)
(* with a circuit breaker, and all share one collection in Milvus, which   *)
(* keeps the newest embedding of an object, and one backup queue in        *)
(* Valkey, which keeps the newest that could not be uploaded.              *)
(*                                                                         *)
(* An embedding is a row <<object, jd>>.  The pauses of the breaker and    *)
(* between idle drains end at some time; how long they are is left out.    *)
(***************************************************************************)
EXTENDS Integers, FiniteSets

CONSTANTS
    Object,
    Row,                \* the embeddings: pairs of an object and a jd
    Sink,               \* the enrichment workers, each with its sink
    MaxRows,            \* backup_queue.max_rows
    DrainRows,          \* backup_queue.drain_rows
    MaxTroubles         \* bound: errors of Milvus and Valkey, deaths of threads

Never == 0              \* the jd of an object that has no row

ASSUME SinkAssumption ==
    /\ IsFiniteSet(Row) /\ Row \subseteq Object \X (Nat \ {Never})
    /\ MaxRows \in Nat \ {0} /\ DrainRows \in Nat \ {0} /\ MaxTroubles \in Nat

VARIABLES
    vectors,        \* Milvus: the jd of the row of an object
    backup,         \* Valkey: the jd of the row of an object
    useBackup,      \* backup_queue.enabled
    at,             \* where a sink is; "off" when its thread has died
    client,         \* is there a connection
    open,           \* the breaker: retry_at is in the future
    errand,         \* "live" rows of a batch, "replay" of the backup, "idle" drain
    hand, fresh,    \* the rows in hand, and those that drop_stale let through
    emitted,        \* history: the rows that enrichment has produced
    owed,           \* history: those that are the newest of their object, and were
                    \* not given up, evicted, in the hand of a thread that died, or
                    \* in an upload that crossed another one of their object
    troubles

sink == <<at, client, open, errand, hand, fresh>>
sinkVars == <<vectors, backup, useBackup, sink, emitted, owed, troubles>>

SinkInit ==
    /\ vectors = [o \in Object |-> Never]
    /\ backup = [o \in Object |-> Never]
    /\ useBackup \in BOOLEAN
    /\ at = [s \in Sink |-> "off"]
    /\ client = [s \in Sink |-> FALSE]
    /\ open = [s \in Sink |-> FALSE]
    /\ errand = [s \in Sink |-> "idle"]
    /\ hand = [s \in Sink |-> {}]
    /\ fresh = [s \in Sink |-> {}]
    /\ emitted = {} /\ owed = {}
    /\ troubles = 0

Step(s, place) == at' = [at EXCEPT ![s] = place]
Trouble == troubles < MaxTroubles /\ troubles' = troubles + 1

\* The rows that a jd for every object stands for.
RowsOf(jds) == {<<o, jds[o]>> : o \in {o \in Object : jds[o] # Never}}

ObjectsOf(rows) == {r[1] : r \in rows}

\* latest_per_object.
LatestPerObject(rows) == {r \in rows : \A q \in rows : q[1] = r[1] => q[2] <= r[2]}

\* A bug: whatever is stored is replaced.
DropStaleNever(rows) == rows

\* drop_stale, by the jds that stored_jds has found.
DropStale(rows) == {r \in rows : r[2] > vectors[r[1]]}

Written(jds, rows) ==
    [o \in Object |-> IF \E r \in rows : r[1] = o
                      THEN (CHOOSE r \in rows : r[1] = o)[2] ELSE jds[o]]

----------------------------------------------------------------------------
\* connect_or_degrade, when the scheduler spawns the worker.
Start(s) ==
    /\ at[s] = "off"
    /\ Step(s, "ready")
    /\ \/ client' = [client EXCEPT ![s] = TRUE] /\ UNCHANGED <<open, troubles>>
       \/ Trouble /\ open' = [open EXCEPT ![s] = TRUE] /\ UNCHANGED client
    /\ UNCHANGED <<vectors, backup, useBackup, errand, hand, fresh, emitted, owed>>

\* upsert: the rows of a batch that was written to MongoDB.
Deliver(s, rows) ==
    /\ at[s] = "ready" /\ rows # {} /\ rows \subseteq Row \ emitted
    /\ emitted' = emitted \cup rows
    /\ owed' = LatestPerObject(emitted') \cap (owed \cup rows)
    /\ hand' = [hand EXCEPT ![s] = rows]
    /\ errand' = [errand EXCEPT ![s] = "live"]
    /\ Step(s, IF open[s] THEN "buffer" ELSE IF client[s] THEN "query" ELSE "connect")
    /\ UNCHANGED <<vectors, backup, useBackup, client, open, fresh, troubles>>

\* A bug: it is left to the next batch to connect again.
DrainIfConnected(s) ==
    /\ at[s] = "ready" /\ useBackup /\ ~open[s] /\ client[s]
    /\ errand' = [errand EXCEPT ![s] = "idle"]
    /\ Step(s, "take")
    /\ UNCHANGED <<vectors, backup, useBackup, client, open, hand, fresh, emitted,
                   owed, troubles>>

\* drain_when_idle, at some time that idle_drain_at allows.
DrainWhenIdle(s) ==
    /\ at[s] = "ready" /\ useBackup /\ ~open[s]
    /\ errand' = [errand EXCEPT ![s] = "idle"]
    /\ Step(s, IF client[s] THEN "take" ELSE "connect")
    /\ UNCHANGED <<vectors, backup, useBackup, client, open, hand, fresh, emitted,
                   owed, troubles>>

\* connected.
Connect(s) ==
    /\ at[s] = "connect"
    /\ client' = [client EXCEPT ![s] = TRUE]
    /\ Step(s, IF errand[s] = "live" THEN "query" ELSE "take")
    /\ UNCHANGED <<vectors, backup, useBackup, open, errand, hand, fresh, emitted,
                   owed, troubles>>

\* record_failure, and buffer what is in hand.
RecordFailure(s) ==
    /\ Trouble
    /\ client' = [client EXCEPT ![s] = FALSE]
    /\ open' = [open EXCEPT ![s] = TRUE]
    /\ Step(s, IF hand[s] = {} THEN "ready" ELSE "buffer")
    /\ fresh' = [fresh EXCEPT ![s] = {}]
    /\ UNCHANGED hand

ConnectFails(s) ==
    /\ at[s] = "connect"
    /\ RecordFailure(s)
    /\ UNCHANGED <<vectors, backup, useBackup, errand, emitted, owed>>

\* record_success; a live batch then has part of the backup replayed.
RecordSuccess(s) ==
    /\ open' = [open EXCEPT ![s] = FALSE]
    /\ hand' = [hand EXCEPT ![s] = {}]
    /\ fresh' = [fresh EXCEPT ![s] = {}]
    /\ Step(s, IF errand[s] = "live" /\ useBackup THEN "take" ELSE "ready")

\* upsert_embeddings, first half: the stored jds are read.
Query(s) ==
    /\ at[s] = "query"
    /\ LET rows == DropStale(LatestPerObject(hand[s])) IN
         IF rows = {}
         THEN RecordSuccess(s)
         ELSE /\ fresh' = [fresh EXCEPT ![s] = rows]
              /\ Step(s, "upsert")
              /\ UNCHANGED <<open, hand>>
    /\ UNCHANGED <<vectors, backup, useBackup, client, errand, emitted, owed,
                   troubles>>

QueryFails(s) ==
    /\ at[s] = "query"
    /\ RecordFailure(s)
    /\ UNCHANGED <<vectors, backup, useBackup, errand, emitted, owed>>

\* Second half: the Upsert call.
Land(s) ==
    /\ vectors' = Written(vectors, fresh[s])
    /\ owed' = {r \in owed : r[1] \in ObjectsOf(fresh[s]) =>
                  \A p \in Sink \ {s} : r[1] \notin ObjectsOf(fresh[p])}

Upsert(s) ==
    /\ at[s] = "upsert"
    /\ Land(s)
    /\ RecordSuccess(s)
    /\ UNCHANGED <<backup, useBackup, client, errand, emitted, troubles>>

\* An error or a timeout: the call may have been carried out.
UpsertFails(s) ==
    /\ at[s] = "upsert"
    /\ RecordFailure(s)
    /\ Land(s) \/ UNCHANGED <<vectors, owed>>
    /\ UNCHANGED <<backup, useBackup, errand, emitted>>

----------------------------------------------------------------------------
\* The scripts on the backup queue, each of which is atomic.

\* ZADD GT: of each object the newest row.
Merge(rows) == Written(backup, {r \in LatestPerObject(rows) : r[2] > backup[r[1]]})

Excess(jds) == LET n == Cardinality(RowsOf(jds)) - MaxRows IN IF n < 0 THEN 0 ELSE n

\* n rows with the lowest jds.
Oldest(jds, n) ==
    {old \in SUBSET RowsOf(jds) :
        /\ Cardinality(old) = n
        /\ \A r \in old, q \in RowsOf(jds) \ old : r[2] <= q[2]}

Without(jds, rows) == [o \in Object |-> IF <<o, jds[o]>> \in rows THEN Never ELSE jds[o]]

\* buffer: PUSH, which evicts the oldest; with no queue the rows are dropped.
Buffer(s) ==
    /\ at[s] = "buffer"
    /\ IF useBackup
       THEN \E old \in Oldest(Merge(hand[s]), Excess(Merge(hand[s]))) :
              /\ backup' = Without(Merge(hand[s]), old)
              /\ owed' = owed \ old
       ELSE owed' = owed \ hand[s] /\ UNCHANGED backup
    /\ hand' = [hand EXCEPT ![s] = {}]
    /\ Step(s, "ready")
    /\ UNCHANGED <<vectors, useBackup, client, open, errand, fresh, emitted, troubles>>

\* "A queue failure is swallowed", and the rows with it.
BufferFails(s) ==
    /\ at[s] = "buffer" /\ useBackup
    /\ Trouble
    /\ owed' = owed \ hand[s]
    /\ hand' = [hand EXCEPT ![s] = {}]
    /\ Step(s, "ready")
    /\ UNCHANGED <<vectors, backup, useBackup, client, open, errand, fresh, emitted>>

\* What TAKE may remove.
Drainable ==
    LET held == Cardinality(RowsOf(backup))
    IN  Oldest(backup, IF held < DrainRows THEN held ELSE DrainRows)

\* drain_some: the rows that TAKE removes are replayed.
Take(s) ==
    /\ at[s] = "take" /\ RowsOf(backup) # {}
    /\ \E old \in Drainable :
         /\ backup' = Without(backup, old)
         /\ hand' = [hand EXCEPT ![s] = old]
    /\ errand' = [errand EXCEPT ![s] = "replay"]
    /\ Step(s, "query")
    /\ UNCHANGED <<vectors, useBackup, client, open, fresh, emitted, owed, troubles>>

TakeNothing(s) ==
    /\ at[s] = "take" /\ RowsOf(backup) = {}
    /\ Step(s, "ready")
    /\ UNCHANGED <<vectors, backup, useBackup, client, open, errand, hand, fresh, emitted,
                   owed, troubles>>

\* The reply of the script is lost, with the rows it removed.
TakeFails(s) ==
    /\ at[s] = "take"
    /\ Trouble
    /\ Step(s, "ready")
    /\ \/ UNCHANGED <<backup, owed>>
       \/ \E old \in Drainable : backup' = Without(backup, old) /\ owed' = owed \ old
    /\ UNCHANGED <<vectors, useBackup, client, open, errand, hand, fresh, emitted>>

----------------------------------------------------------------------------
\* The pause of the breaker is over.
PauseEnds(s) ==
    /\ open[s]
    /\ open' = [open EXCEPT ![s] = FALSE]
    /\ UNCHANGED <<vectors, backup, useBackup, at, client, errand, hand, fresh, emitted, owed,
                   troubles>>

\* The worker thread ends, on an error of its own or with its process.
ThreadDies(s) ==
    /\ at[s] # "off"
    /\ Trouble
    /\ owed' = owed \ hand[s]
    /\ Step(s, "off")
    /\ client' = [client EXCEPT ![s] = FALSE]
    /\ open' = [open EXCEPT ![s] = FALSE]
    /\ errand' = [errand EXCEPT ![s] = "idle"]
    /\ hand' = [hand EXCEPT ![s] = {}]
    /\ fresh' = [fresh EXCEPT ![s] = {}]
    /\ UNCHANGED <<vectors, backup, useBackup, emitted>>

Progress(s) ==
    \/ Start(s) \/ DrainWhenIdle(s) \/ Connect(s) \/ Query(s) \/ Upsert(s)
    \/ Buffer(s) \/ Take(s) \/ TakeNothing(s)

SinkNext ==
    \E s \in Sink :
        \/ Progress(s) \/ PauseEnds(s)
        \/ \E rows \in SUBSET Row : Deliver(s, rows)
        \/ ConnectFails(s) \/ QueryFails(s) \/ UpsertFails(s)
        \/ BufferFails(s) \/ TakeFails(s) \/ ThreadDies(s)

SinkSpec == SinkInit /\ [][SinkNext]_sinkVars

----------------------------------------------------------------------------
\* "One vector per object, latest wins": the newest embedding of an object that was not
\* given up is in Milvus, or on its way there, through outages, uploads that were
\* carried out although they failed, replays of the backup and repeated objects in a
\* batch.  Excepted are objects that two workers upload at once: both pass
\* drop_stale, and the older row may land last.
NewestIsKept ==
    \A r \in owed :
        \/ vectors[r[1]] >= r[2] \/ backup[r[1]] >= r[2]
        \/ \E s \in Sink : \E q \in hand[s] : q[1] = r[1] /\ q[2] >= r[2]

\* "Recovery needs no worker restart": what waits in the backup queue is uploaded
\* once Milvus is back, also when no further alert comes.
BacklogDrains == []<>(RowsOf(backup) = {})
============================================================================
