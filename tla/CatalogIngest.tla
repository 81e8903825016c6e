--------------------------- MODULE CatalogIngest ---------------------------
(***************************************************************************)
(* The ingestion of a catalog, chunk by chunk, by the catalog_ingest task  *)
(* (src/src/tasks/catalog_ingest.rs, src/src/catalogs/mod.rs, ingest.rs,   *)
(* download.rs).  A run of the task is attempted again when its lease      *)
(* lapses, and the attempt that lost it may still be running; what keeps   *)
(* the two apart is the claim in the catalog's state document.             *)
(*                                                                         *)
(* Attempts are numbered in the order in which the queue hands them out.   *)
(***************************************************************************)
EXTENDS Integers, FiniteSets

CONSTANTS
    NAttempts,
    RunOf,              \* the run of an attempt: [1..NAttempts -> runs]
    NChunks,
    Batch,              \* the batches of rows of a chunk
    None,
    MaxActive,          \* bound: attempts at a time, the lost ones included
    MaxFaults           \* bound: errors and kills

Attempt == 1..NAttempts
Chunk == 1..NChunks
Rows(c) == {c} \X Batch

ASSUME IngestAssumption ==
    /\ NAttempts \in Nat /\ NChunks \in Nat \ {0} /\ MaxActive \in Nat /\ MaxFaults \in Nat
    /\ IsFiniteSet(Batch)
    /\ None \notin Attempt /\ \A a \in Attempt : RunOf[a] # None

VARIABLES
    collection, indexed,        \* the rows, and is there a 2dsphere index
    status, chunksDone, nRecords, claim, droppedBy,     \* the state document
    pc, dropping, done, at,     \* of an attempt: its place, does it drop, the
                                \* chunks it found done, its chunk
    toInsert, written,          \* the rows to insert, and how many were new
    chunksIngested, chunksResumed,
    dropExisting,               \* the parameter of a run
    started, faults,
    recorders,  \* history: the runs that recorded a chunk in the document
    torn,       \* history: did a drop end between the collection and the state
    crossed     \* history: has an attempt that lost its run written unfenced

document == <<status, chunksDone, nRecords, claim, droppedBy>>
plan == <<dropping, done>>
progress == <<at, toInsert, written, chunksIngested, chunksResumed>>
history == <<recorders, torn, crossed>>
vars == <<collection, indexed, document, pc, plan, progress, dropExisting, started, faults,
          history>>

Init ==
    /\ collection = {} /\ indexed = FALSE
    /\ status = "missing" /\ chunksDone = {} /\ nRecords = 0 /\ claim = None /\ droppedBy = None
    /\ pc = [a \in Attempt |-> "queued"]
    /\ dropping = [a \in Attempt |-> FALSE]
    /\ done = [a \in Attempt |-> {}]
    /\ at = [a \in Attempt |-> 1]
    /\ toInsert = [a \in Attempt |-> {}]
    /\ written = [a \in Attempt |-> 0]
    /\ chunksIngested = [a \in Attempt |-> 0]
    /\ chunksResumed = [a \in Attempt |-> 0]
    /\ dropExisting \in [{RunOf[a] : a \in Attempt} -> BOOLEAN]
    /\ started = 0 /\ faults = 0
    /\ recorders = {} /\ torn = FALSE /\ crossed = FALSE

Goto(a, place) == pc' = [pc EXCEPT ![a] = place]

Active(a) == pc[a] \notin {"queued", "ended"}

\* Has another attempt been started since.
Evicted(a) == a < started

----------------------------------------------------------------------------
\* list_chunks: whatever it lists, an error or an empty list ends the attempt
\* before anything is dropped.
Begin(a) ==
    /\ pc[a] = "queued" /\ a = started + 1
    /\ Cardinality({b \in Attempt : Active(b)}) < MaxActive
    /\ started' = a
    /\ Goto(a, "decide")
    /\ UNCHANGED <<collection, indexed, document, plan, progress, dropExisting, faults,
                   history>>

\* A bug: a run drops whenever it was asked to.
ShouldDropAlways(requested, run, dropper) == requested

\* should_drop: a retry of the run that has dropped does not drop again.
ShouldDrop(requested, run, dropper) == requested /\ dropper # run

Decide(a) ==
    /\ pc[a] = "decide"
    /\ LET drop == ShouldDrop(dropExisting[RunOf[a]], RunOf[a], droppedBy) IN
         /\ dropping' = [dropping EXCEPT ![a] = drop]
         /\ Goto(a, IF drop THEN "dropCollection" ELSE "readDone")
    /\ UNCHANGED <<collection, indexed, document, done, progress, dropExisting, started,
                   faults, history>>

DropCollection(a) ==
    /\ pc[a] = "dropCollection"
    /\ collection' = {} /\ indexed' = FALSE
    /\ Goto(a, "dropState")
    /\ crossed' = (crossed \/ Evicted(a))
    /\ UNCHANGED <<document, plan, progress, dropExisting, started, faults, recorders, torn>>

DropState(a) ==
    /\ pc[a] = "dropState"
    /\ status' = "missing" /\ chunksDone' = {} /\ nRecords' = 0
    /\ claim' = None /\ droppedBy' = None
    /\ Goto(a, "readDone")
    /\ recorders' = {} /\ torn' = FALSE
    /\ crossed' = (crossed \/ Evicted(a))
    /\ UNCHANGED <<collection, indexed, plan, progress, dropExisting, started, faults>>

\* chunks_done.
ReadDone(a) ==
    /\ pc[a] = "readDone"
    /\ done' = [done EXCEPT ![a] = chunksDone]
    /\ Goto(a, "start")
    /\ UNCHANGED <<collection, indexed, document, dropping, progress, dropExisting, started,
                   faults, history>>

\* start_state, an upsert: the claim is the attempt's own token.
StartState(a) ==
    /\ pc[a] = "start"
    /\ status' = "ingesting"
    /\ claim' = a
    /\ droppedBy' = IF dropping[a] THEN RunOf[a] ELSE droppedBy
    /\ Goto(a, "chunks")
    /\ crossed' = (crossed \/ Evicted(a))
    /\ UNCHANGED <<collection, indexed, chunksDone, nRecords, plan, progress, dropExisting,
                   started, faults, recorders, torn>>

----------------------------------------------------------------------------
\* The loop over the chunks.

Done(a) == at[a] \in done[a]

SkipChunk(a) ==
    /\ pc[a] = "chunks" /\ at[a] <= NChunks /\ Done(a)
    /\ chunksResumed' = [chunksResumed EXCEPT ![a] = @ + 1]
    /\ at' = [at EXCEPT ![a] = @ + 1]
    /\ UNCHANGED <<collection, indexed, document, pc, plan, toInsert, written, chunksIngested,
                   dropExisting, started, faults, history>>

\* The loop ends when the attempt has done max_chunks, or finds itself canceled: by
\* request, by the shutdown of its worker, or since its run was lost.
StopShort(a) ==
    /\ pc[a] = "chunks" /\ at[a] <= NChunks /\ ~Done(a)
    /\ Goto(a, "report")
    /\ UNCHANGED <<collection, indexed, document, plan, progress, dropExisting, started,
                   faults, history>>

\* fetch_chunk.
FetchChunk(a) ==
    /\ pc[a] = "chunks" /\ at[a] <= NChunks /\ ~Done(a)
    /\ toInsert' = [toInsert EXCEPT ![a] = Rows(at[a])]
    /\ written' = [written EXCEPT ![a] = 0]
    /\ Goto(a, "insert")
    /\ UNCHANGED <<collection, indexed, document, plan, at, chunksIngested, chunksResumed,
                   dropExisting, started, faults, history>>

\* duplicate_key_count: what is there already is no error, and is not counted.
NewRows(r) == IF r \in collection THEN 0 ELSE 1

\* The workers of the pool write their batches in any order.
WriteBatch(a) ==
    /\ pc[a] = "insert"
    /\ \E r \in toInsert[a] :
         /\ collection' = collection \cup {r}
         /\ written' = [written EXCEPT ![a] = @ + NewRows(r)]
         /\ toInsert' = [toInsert EXCEPT ![a] = @ \ {r}]
    /\ UNCHANGED <<indexed, document, pc, plan, at, chunksIngested, chunksResumed, dropExisting,
                   started, faults, history>>

\* A bug: a worker that failed is passed over.
ChunkIngestedAnyway(a) == TRUE

\* Inserter::finish: every worker has returned without an error.
ChunkIngested(a) == toInsert[a] = {}

\* A bug: the update is not conditional on the claim.
OwnsUnfenced(a) == TRUE

\* The filter of every later write to the state document.
Owns(a) == claim = a

\* record_chunk, in the document of the attempt's own claim only.
RecordChunk(a) ==
    /\ pc[a] = "insert" /\ ChunkIngested(a) /\ Owns(a)
    /\ chunksDone' = chunksDone \cup {at[a]}
    /\ nRecords' = nRecords + written[a]
    /\ recorders' = recorders \cup {RunOf[a]}
    /\ chunksIngested' = [chunksIngested EXCEPT ![a] = @ + 1]
    /\ at' = [at EXCEPT ![a] = @ + 1]
    /\ toInsert' = [toInsert EXCEPT ![a] = {}]
    /\ Goto(a, "chunks")
    /\ UNCHANGED <<collection, indexed, status, claim, droppedBy, plan, written, chunksResumed,
                   dropExisting, started, faults, torn, crossed>>

\* What an attempt had in memory is gone when it ends.
End(a) ==
    /\ Goto(a, "ended")
    /\ dropping' = [dropping EXCEPT ![a] = FALSE]
    /\ done' = [done EXCEPT ![a] = {}]
    /\ at' = [at EXCEPT ![a] = 1]
    /\ toInsert' = [toInsert EXCEPT ![a] = {}]
    /\ written' = [written EXCEPT ![a] = 0]
    /\ chunksIngested' = [chunksIngested EXCEPT ![a] = 0]
    /\ chunksResumed' = [chunksResumed EXCEPT ![a] = 0]

\* CatalogError::Preempted, for a chunk or for the final write.
Preempted(a) ==
    /\ \/ pc[a] = "insert" /\ ChunkIngested(a)
       \/ pc[a] = "finish"
    /\ ~Owns(a)
    /\ End(a)
    /\ UNCHANGED <<collection, indexed, document, dropExisting, started, faults, history>>

AllChunks(a) ==
    /\ pc[a] = "chunks" /\ at[a] > NChunks
    /\ Goto(a, "report")
    /\ UNCHANGED <<collection, indexed, document, plan, progress, dropExisting, started,
                   faults, history>>

Complete(a) == chunksIngested[a] + chunksResumed[a] = NChunks

CreateIndexes(a) ==
    /\ pc[a] = "report" /\ Complete(a)
    /\ indexed' = TRUE
    /\ Goto(a, "finish")
    /\ UNCHANGED <<collection, document, plan, progress, dropExisting, started, faults,
                   history>>

FinishState(a) ==
    /\ pc[a] = "finish" /\ Owns(a)
    /\ status' = "complete"
    /\ End(a)
    /\ UNCHANGED <<collection, indexed, chunksDone, nRecords, claim, droppedBy, dropExisting, started,
                   faults, history>>

Incomplete(a) ==
    /\ pc[a] = "report" /\ ~Complete(a)
    /\ End(a)
    /\ UNCHANGED <<collection, indexed, document, dropExisting, started, faults, history>>

----------------------------------------------------------------------------
\* An error of the archive, the files or the database, or the end of the process.
Fail(a) ==
    /\ Active(a) /\ faults < MaxFaults
    /\ faults' = faults + 1
    /\ torn' = (torn \/ pc[a] = "dropState")
    /\ End(a)
    /\ UNCHANGED <<collection, indexed, document, dropExisting, started, recorders, crossed>>

AddCatalog(a) ==
    \/ Begin(a) \/ Decide(a) \/ DropCollection(a) \/ DropState(a) \/ ReadDone(a) \/ StartState(a)
    \/ SkipChunk(a) \/ StopShort(a) \/ FetchChunk(a) \/ WriteBatch(a) \/ RecordChunk(a)
    \/ Preempted(a) \/ AllChunks(a) \/ CreateIndexes(a) \/ FinishState(a) \/ Incomplete(a)

Next == \E a \in Attempt : AddCatalog(a) \/ Fail(a)

Spec == Init /\ [][Next]_vars

----------------------------------------------------------------------------
\* Is nothing in the middle of a drop, was none cut short, and has no attempt that
\* lost its run dropped or claimed the catalog since.
Orderly == ~torn /\ ~crossed /\ \A a \in Attempt : pc[a] # "dropState"

\* A chunk that the state document lists, and a later attempt will skip, has all its
\* rows in the collection, over retries, evicted attempts that are still writing and
\* drops by other runs. Excepted is a drop that is cut off between the collection and
\* the document, and an evicted attempt in the unfenced steps before its claim.
RecordedIsStored == Orderly => \A c \in chunksDone : Rows(c) \subseteq collection

\* A catalog that reports itself complete has every row and its index, with the same
\* exceptions: what status calls present can be matched against.
CompleteIsWhole ==
    Orderly /\ status = "complete" => indexed /\ \A c \in Chunk : Rows(c) \subseteq collection

\* A retried drop_existing run never drops chunks that an earlier attempt at the same
\* run has recorded.
RetryKeepsItsChunks ==
    [][\A a \in Attempt :
         (pc[a] = "dropCollection" /\ pc'[a] = "dropState" /\ ~crossed')
           => RunOf[a] \notin recorders]_vars
============================================================================
