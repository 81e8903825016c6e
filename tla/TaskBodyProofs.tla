-------------------------- MODULE TaskBodyProofs ---------------------------
(***************************************************************************)
(* Proofs about two bodies of tasks, which share no state: CatalogIngest,  *)
(* that chunks recorded as ingested are stored and that a complete catalog *)
(* is whole, and EnrichReprocess, that a success has enriched its alerts   *)
(* and that its list is discarded. For all chunks, alerts, threads,        *)
(* attempts and mishaps.                                                   *)
(***************************************************************************)
EXTENDS CatalogIngest, EnrichReprocess, FiniteSetTheorems, SequenceTheorems, TLAPS

\* The ingestion of a catalog.

\* The runs of the task queue that the attempts belong to.
Run == {RunOf[a] : a \in Attempt}
\* Where the body of an attempt may be.
Places == {"queued", "decide", "dropCollection", "dropState", "readDone", "start", "chunks",
           "insert", "report", "finish", "ended"}

\* The types of the documents of the catalog and of the attempts at ingesting it.
IngestTypeOK ==
    /\ collection \subseteq Chunk \X Batch /\ indexed \in BOOLEAN
    /\ status \in {"missing", "ingesting", "complete"}
    /\ chunksDone \subseteq Chunk /\ nRecords \in Nat
    /\ claim \in Attempt \cup {None} /\ droppedBy \in Run \cup {None}
    /\ pc \in [Attempt -> Places]
    /\ dropping \in [Attempt -> BOOLEAN]
    /\ done \in [Attempt -> SUBSET Chunk]
    /\ at \in [Attempt -> 1..(NChunks + 1)]
    /\ toInsert \in [Attempt -> SUBSET (Chunk \X Batch)]
    /\ written \in [Attempt -> Nat]
    /\ chunksIngested \in [Attempt -> Nat] /\ chunksResumed \in [Attempt -> Nat]
    /\ dropExisting \in [Run -> BOOLEAN]
    /\ started \in 0..NAttempts
    /\ recorders \subseteq Run
    /\ torn \in BOOLEAN /\ crossed \in BOOLEAN

\* Where an attempt is says what it has.
PlacesAgree ==
    \A a \in Attempt :
        /\ pc[a] = "queued" <=> a > started
        /\ pc[a] \in {"dropCollection", "dropState"} => dropping[a]
        /\ chunksIngested[a] + chunksResumed[a] = at[a] - 1
        /\ pc[a] = "insert" => at[a] <= NChunks
        /\ pc[a] = "finish" => at[a] = NChunks + 1
        /\ pc[a] \in {"queued", "decide", "dropCollection", "dropState", "readDone", "start"} => at[a] = 1

\* The attempt that the queue has claimed last: an earlier one has lost its run.
Newest(a) == a = started

\* The places at which an attempt has its claim, unless it lost it.
Claimed == {"chunks", "insert", "report", "finish"}

\* What an attempt took as done, and what it has passed since, is recorded.
PassedIsRecorded ==
    ~crossed => \A a \in Attempt :
        /\ pc[a] = "start" /\ Newest(a) => done[a] \subseteq chunksDone
        /\ pc[a] \in Claimed /\ claim = a =>
             done[a] \subseteq chunksDone /\ 1..(at[a] - 1) \subseteq chunksDone

\* The rows of the chunk in hand are in the collection or still to be inserted.
InHand ==
    Orderly => \A a \in Attempt : claim = a =>
        /\ pc[a] = "insert" => Rows(at[a]) \subseteq collection \cup toInsert[a]
        /\ pc[a] = "finish" => indexed

\* finish_state is reached only with the index and with all chunks in chunks_done.
CompleteIsRecorded ==
    Orderly /\ status = "complete" => indexed /\ Chunk \subseteq chunksDone

\* Who may drop has not dropped; who has not to drop again, has.
DroppedOnce ==
    ~crossed => \A a \in Attempt :
        /\ Newest(a) /\ pc[a] = "dropCollection"
             => dropExisting[RunOf[a]] /\ droppedBy # RunOf[a]
        /\ Newest(a) /\ pc[a] \in {"readDone", "start"} /\ ~dropping[a] /\ dropExisting[RunOf[a]]
             => droppedBy = RunOf[a]
        /\ Newest(a) /\ pc[a] \in {"readDone", "start"} /\ dropping[a]
             => recorders = {} /\ claim = None
        /\ claim = a /\ dropExisting[RunOf[a]] => droppedBy = RunOf[a]

\* Who has recorded a chunk in the document as it is had its drop before, if it drops.
RecordersDropped ==
    ~crossed => \A r \in recorders : dropExisting[r] => droppedBy = r

\* The inductive invariant of the ingestion.
IngestInv ==
    /\ IngestTypeOK /\ PlacesAgree /\ PassedIsRecorded /\ InHand /\ CompleteIsRecorded
    /\ RecordedIsStored /\ DroppedOnce /\ RecordersDropped

\* What the assumption on the constants says, without intervals.
LEMMA IngestFacts ==
  /\ \A a \in Attempt : a \in Nat /\ RunOf[a] \in Run /\ RunOf[a] # None
  /\ NAttempts \in Nat /\ NChunks \in Nat /\ NChunks > 0 /\ None \notin Attempt
  BY IngestAssumption DEF Attempt, Run

\* An active attempt that was not evicted is the newest.
LEMMA NotEvicted ==
  ASSUME IngestTypeOK, PlacesAgree, NEW a \in Attempt, pc[a] # "queued", ~Evicted(a)
  PROVE  Newest(a)
<1>1. a \in Nat /\ started \in Nat
  BY IngestFacts DEF IngestTypeOK
<1>2. ~(a > started)
  BY DEF PlacesAgree
<1> QED
  BY <1>1, <1>2 DEF Evicted, Newest

\* The end of an attempt.
LEMMA EndTypes ==
  ASSUME IngestTypeOK, NEW a \in Attempt, End(a)
  PROVE  /\ pc' \in [Attempt -> Places] /\ dropping' \in [Attempt -> BOOLEAN]
         /\ done' \in [Attempt -> SUBSET Chunk] /\ at' \in [Attempt -> 1..(NChunks + 1)]
         /\ toInsert' \in [Attempt -> SUBSET (Chunk \X Batch)] /\ written' \in [Attempt -> Nat]
         /\ chunksIngested' \in [Attempt -> Nat] /\ chunksResumed' \in [Attempt -> Nat]
<1>1. pc' \in [Attempt -> Places]
  BY DEF End, Goto, IngestTypeOK, Places
<1>2. dropping' \in [Attempt -> BOOLEAN] /\ done' \in [Attempt -> SUBSET Chunk]
  BY DEF End, IngestTypeOK
<1>3. at' \in [Attempt -> 1..(NChunks + 1)]
  BY IngestFacts DEF End, IngestTypeOK
<1>4. toInsert' \in [Attempt -> SUBSET (Chunk \X Batch)]
  BY DEF End, IngestTypeOK
<1>5. /\ written' \in [Attempt -> Nat]
      /\ chunksIngested' \in [Attempt -> Nat] /\ chunksResumed' \in [Attempt -> Nat]
  BY DEF End, IngestTypeOK
<1> QED
  BY <1>1, <1>2, <1>3, <1>4, <1>5

\* A failed or finished attempt starts over from its first chunk.
LEMMA EndAgrees ==
  ASSUME IngestTypeOK, PlacesAgree, NEW a \in Attempt, pc[a] # "queued", End(a), UNCHANGED started
  PROVE  PlacesAgree'
<1> SUFFICES ASSUME NEW b \in Attempt
             PROVE  (/\ pc[b] = "queued" <=> b > started
                     /\ pc[b] \in {"dropCollection", "dropState"} => dropping[b]
                     /\ chunksIngested[b] + chunksResumed[b] = at[b] - 1
                     /\ pc[b] = "insert" => at[b] <= NChunks
                     /\ pc[b] = "finish" => at[b] = NChunks + 1
                     /\ pc[b] \in {"queued", "decide", "dropCollection", "dropState", "readDone", "start"}
                          => at[b] = 1)'
  BY DEF PlacesAgree
<1>1. CASE b = a
  BY <1>1 DEF End, Goto, IngestTypeOK, PlacesAgree
<1>2. CASE b # a
  BY <1>2 DEF End, Goto, IngestTypeOK, PlacesAgree
<1> QED
  BY <1>1, <1>2

\* An attempt's step.
LEMMA AttemptStep ==
  ASSUME IngestInv, NEW a \in Attempt, AddCatalog(a) \/ Fail(a)
  PROVE  IngestInv'
<1> USE IngestFacts DEF IngestInv, document, plan, progress, history
<1>1. CASE Begin(a)
  <2>1. IngestTypeOK'
    <3>1. started' \in 0 .. NAttempts
      BY <1>1 DEF Begin, Attempt
    <3> QED
      BY <1>1, <3>1 DEF Begin, Goto, IngestTypeOK, Places
  <2>2. PlacesAgree'
    <3>1. /\ started' = a /\ a = started + 1 /\ pc' = [pc EXCEPT ![a] = "decide"]
          /\ UNCHANGED <<dropping, chunksIngested, chunksResumed, at>>
      BY <1>1 DEF Begin, Goto
    <3>2. at[a] = 1
      BY <1>1 DEF Begin, PlacesAgree
    <3> QED
      BY <3>1, <3>2 DEF IngestTypeOK, PlacesAgree
  <2>3. PassedIsRecorded'
    BY <1>1 DEF Begin, Goto, Active, IngestTypeOK, PassedIsRecorded, Newest, Claimed
  <2>4. InHand'
    BY <1>1 DEF Begin, Goto, Active, IngestTypeOK, InHand, Orderly, Rows
  <2>5. DroppedOnce'
    BY <1>1 DEF Begin, Goto, Active, IngestTypeOK, DroppedOnce, Newest
  <2>6. CompleteIsRecorded' /\ RecordedIsStored' /\ RecordersDropped'
    BY <1>1 DEF Begin, Goto, Active, IngestTypeOK, CompleteIsRecorded, Orderly,
        RecordedIsStored, Rows, RecordersDropped
  <2> QED
    BY <2>1, <2>2, <2>3, <2>4, <2>5, <2>6 DEF IngestInv
<1>2. CASE Decide(a)
  <2>1. IngestTypeOK'
    BY <1>2 DEF Decide, Goto, ShouldDrop, IngestTypeOK, Places
  <2>2. PlacesAgree'
    BY <1>2 DEF Decide, Goto, ShouldDrop, IngestTypeOK, PlacesAgree
  <2>3. PassedIsRecorded'
    BY <1>2 DEF Decide, Goto, ShouldDrop, IngestTypeOK, PassedIsRecorded, Newest, Claimed
  <2>4. InHand'
    BY <1>2 DEF Decide, Goto, ShouldDrop, IngestTypeOK, InHand, Orderly, Rows
  <2>5. DroppedOnce'
    BY <1>2 DEF Decide, Goto, ShouldDrop, IngestTypeOK, DroppedOnce, Newest
  <2>6. CompleteIsRecorded' /\ RecordedIsStored' /\ RecordersDropped'
    BY <1>2 DEF Decide, Goto, ShouldDrop, IngestTypeOK, CompleteIsRecorded, Orderly,
        RecordedIsStored, Rows, RecordersDropped
  <2> QED
    BY <2>1, <2>2, <2>3, <2>4, <2>5, <2>6 DEF IngestInv
<1>3. CASE DropCollection(a)
  <2>1. IngestTypeOK'
    BY <1>3 DEF DropCollection, Goto, Evicted, IngestTypeOK, Places
  <2>2. PlacesAgree'
    BY <1>3 DEF DropCollection, Goto, Evicted, IngestTypeOK, PlacesAgree
  <2>3. PassedIsRecorded'
    BY <1>3 DEF DropCollection, Goto, Evicted, IngestTypeOK, PassedIsRecorded, Newest,
        Claimed
  <2>4. InHand'
    BY <1>3 DEF DropCollection, Goto, Evicted, IngestTypeOK, InHand, Orderly, Rows
  <2>5. RecordedIsStored'
    BY <1>3 DEF DropCollection, Goto, Evicted, IngestTypeOK, RecordedIsStored, Orderly, Rows
  <2>6. DroppedOnce'
    BY <1>3 DEF DropCollection, Goto, Evicted, IngestTypeOK, DroppedOnce, Newest
  <2>7. CompleteIsRecorded' /\ RecordersDropped'
    BY <1>3 DEF DropCollection, Goto, Evicted, IngestTypeOK, CompleteIsRecorded, Orderly,
        RecordersDropped
  <2> QED
    BY <2>1, <2>2, <2>3, <2>4, <2>5, <2>6, <2>7 DEF IngestInv
<1>4. CASE DropState(a)
  <2>1. IngestTypeOK'
    BY <1>4 DEF DropState, Goto, Evicted, IngestTypeOK, Places
  <2>2. PlacesAgree'
    BY <1>4 DEF DropState, Goto, Evicted, IngestTypeOK, PlacesAgree
  <2>3. PassedIsRecorded'
    <3>1. ~crossed' => Newest(a)
      BY <1>4, NotEvicted DEF DropState
    <3> QED
      BY <1>4, <3>1 DEF DropState, Goto, IngestTypeOK, PassedIsRecorded, Newest
  <2>4. InHand'
    BY <1>4 DEF DropState, Goto, Evicted, IngestTypeOK, InHand, Orderly, Rows
  <2>5. RecordedIsStored'
    BY <1>4 DEF DropState, Goto, Evicted, IngestTypeOK, RecordedIsStored, Orderly, Rows
  <2>6. DroppedOnce'
    <3>1. ~crossed' => Newest(a) /\ dropping[a]
      BY <1>4, NotEvicted DEF DropState, PlacesAgree
    <3> QED
      BY <1>4, <3>1 DEF DropState, Goto, IngestTypeOK, DroppedOnce, Newest
  <2>7. RecordersDropped'
    BY <1>4 DEF DropState, Goto, Evicted, IngestTypeOK, RecordersDropped
  <2>8. CompleteIsRecorded'
    BY <1>4 DEF DropState, Goto, Evicted, IngestTypeOK, CompleteIsRecorded, Orderly
  <2> QED
    BY <2>1, <2>2, <2>3, <2>4, <2>5, <2>6, <2>7, <2>8 DEF IngestInv
<1>5. CASE ReadDone(a)
  <2>1. IngestTypeOK'
    BY <1>5 DEF ReadDone, Goto, IngestTypeOK, Places
  <2>2. PlacesAgree'
    BY <1>5 DEF ReadDone, Goto, IngestTypeOK, PlacesAgree
  <2>3. PassedIsRecorded'
    BY <1>5 DEF ReadDone, Goto, IngestTypeOK, PassedIsRecorded, Newest, Claimed
  <2>4. InHand'
    BY <1>5 DEF ReadDone, Goto, IngestTypeOK, InHand, Orderly, Rows
  <2>5. DroppedOnce'
    BY <1>5 DEF ReadDone, Goto, IngestTypeOK, DroppedOnce, Newest
  <2>6. CompleteIsRecorded' /\ RecordedIsStored' /\ RecordersDropped'
    BY <1>5 DEF ReadDone, Goto, IngestTypeOK, CompleteIsRecorded, Orderly, RecordedIsStored,
        Rows, RecordersDropped
  <2> QED
    BY <2>1, <2>2, <2>3, <2>4, <2>5, <2>6 DEF IngestInv
<1>6. CASE StartState(a)
  <2>1. IngestTypeOK'
    BY <1>6 DEF StartState, Goto, Evicted, IngestTypeOK, Places
  <2>2. PlacesAgree'
    BY <1>6 DEF StartState, Goto, Evicted, IngestTypeOK, PlacesAgree
  <2>3. PassedIsRecorded'
    <3> SUFFICES ASSUME ~crossed' PROVE PassedIsRecorded'
      BY DEF PassedIsRecorded
    <3>1. Newest(a) /\ ~crossed /\ at[a] = 1
      BY <1>6, NotEvicted DEF StartState, PlacesAgree
    <3>2. done[a] \subseteq chunksDone /\ 1 .. (at[a] - 1) \subseteq chunksDone
      BY <1>6, <3>1 DEF StartState, PassedIsRecorded
    <3> QED
      BY <1>6, <3>1, <3>2 DEF StartState, Goto, IngestTypeOK, PassedIsRecorded, Newest
  <2>4. InHand'
    BY <1>6 DEF StartState, Goto, Evicted, IngestTypeOK, InHand, Orderly, Rows
  <2>5. CompleteIsRecorded'
    BY <1>6 DEF StartState, Goto, Evicted, IngestTypeOK, CompleteIsRecorded, Orderly
  <2>6. DroppedOnce'
    <3> SUFFICES ASSUME ~crossed' PROVE DroppedOnce'
      BY DEF DroppedOnce
    <3>1. Newest(a) /\ ~crossed
      BY <1>6, NotEvicted DEF StartState
    <3>2. dropExisting[RunOf[a]] => droppedBy' = RunOf[a]
      BY <1>6, <3>1 DEF StartState, DroppedOnce
    <3> QED
      BY <1>6, <3>1, <3>2 DEF StartState, Goto, IngestTypeOK, DroppedOnce, Newest
  <2>7. RecordersDropped'
    <3> SUFFICES ASSUME ~crossed' PROVE RecordersDropped'
      BY DEF RecordersDropped
    <3>1. Newest(a) /\ ~crossed
      BY <1>6, NotEvicted DEF StartState
    <3>2. dropping[a] => recorders = {}
      BY <1>6, <3>1 DEF StartState, DroppedOnce
    <3> QED
      BY <1>6, <3>1, <3>2 DEF StartState, RecordersDropped
  <2>8. RecordedIsStored'
    BY <1>6 DEF StartState, Goto, Evicted, IngestTypeOK, RecordedIsStored, Orderly, Rows
  <2> QED
    BY <2>1, <2>2, <2>3, <2>4, <2>5, <2>6, <2>7, <2>8 DEF IngestInv
<1>7. CASE SkipChunk(a)
  <2>1. IngestTypeOK'
    BY <1>7 DEF SkipChunk, Done, IngestTypeOK, Places
  <2>2. PlacesAgree'
    <3>1. /\ at' \in [Attempt -> Int] /\ at'[a] = at[a] + 1
          /\ chunksResumed'[a] = chunksResumed[a] + 1
          /\ \A b \in Attempt : b # a => at'[b] = at[b] /\ chunksResumed'[b] = chunksResumed[b]
      BY <1>7 DEF SkipChunk, IngestTypeOK
    <3>2. chunksIngested[a] + chunksResumed'[a] = at'[a] - 1
      BY <1>7, <3>1 DEF IngestTypeOK, PlacesAgree
    <3> QED
      BY <1>7, <3>1, <3>2 DEF SkipChunk, PlacesAgree
  <2>3. PassedIsRecorded'
    BY <1>7 DEF SkipChunk, Done, IngestTypeOK, PassedIsRecorded, Newest, Claimed
  <2>4. InHand'
    BY <1>7 DEF SkipChunk, Done, IngestTypeOK, InHand, Orderly, Rows
  <2>5. CompleteIsRecorded' /\ RecordedIsStored' /\ DroppedOnce' /\ RecordersDropped'
    BY <1>7 DEF SkipChunk, Done, IngestTypeOK, CompleteIsRecorded, Orderly,
        RecordedIsStored, Rows, DroppedOnce, Newest, RecordersDropped
  <2> QED
    BY <2>1, <2>2, <2>3, <2>4, <2>5 DEF IngestInv
<1>8. CASE StopShort(a)
  <2>1. IngestTypeOK'
    BY <1>8 DEF StopShort, Goto, Done, IngestTypeOK, Places
  <2>2. PlacesAgree'
    BY <1>8 DEF StopShort, Goto, Done, IngestTypeOK, PlacesAgree
  <2>3. PassedIsRecorded'
    BY <1>8 DEF StopShort, Goto, Done, IngestTypeOK, PassedIsRecorded, Newest, Claimed
  <2>4. InHand'
    BY <1>8 DEF StopShort, Goto, Done, IngestTypeOK, InHand, Orderly, Rows
  <2>5. CompleteIsRecorded' /\ RecordedIsStored' /\ DroppedOnce' /\ RecordersDropped'
    BY <1>8 DEF StopShort, Goto, Done, IngestTypeOK, CompleteIsRecorded, Orderly,
        RecordedIsStored, Rows, DroppedOnce, Newest, RecordersDropped
  <2> QED
    BY <2>1, <2>2, <2>3, <2>4, <2>5 DEF IngestInv
<1>9. CASE FetchChunk(a)
  <2>1. IngestTypeOK'
    <3>1. Rows(at[a]) \in SUBSET (Chunk \X Batch)
      BY <1>9 DEF FetchChunk, IngestTypeOK, Rows, Chunk
    <3>2. toInsert' \in [Attempt -> SUBSET (Chunk \X Batch)]
      BY <1>9, <3>1 DEF FetchChunk, IngestTypeOK
    <3>3. written' \in [Attempt -> Nat] /\ pc' \in [Attempt -> Places]
      BY <1>9 DEF FetchChunk, Goto, IngestTypeOK, Places
    <3> QED
      BY <1>9, <3>2, <3>3 DEF FetchChunk, IngestTypeOK
  <2>2. PlacesAgree'
    BY <1>9 DEF FetchChunk, Goto, Done, IngestTypeOK, PlacesAgree
  <2>3. PassedIsRecorded'
    BY <1>9 DEF FetchChunk, Goto, Done, IngestTypeOK, PassedIsRecorded, Newest, Claimed
  <2>4. InHand'
    BY <1>9 DEF FetchChunk, Goto, Done, IngestTypeOK, InHand, Orderly, Rows
  <2>5. CompleteIsRecorded' /\ RecordedIsStored' /\ DroppedOnce' /\ RecordersDropped'
    BY <1>9 DEF FetchChunk, Goto, Done, IngestTypeOK, CompleteIsRecorded, Orderly,
        RecordedIsStored, Rows, DroppedOnce, Newest, RecordersDropped
  <2> QED
    BY <2>1, <2>2, <2>3, <2>4, <2>5 DEF IngestInv
<1>10. CASE WriteBatch(a)
  <2>1. IngestTypeOK'
    <3> PICK r \in toInsert[a] :
           /\ collection' = collection \cup {r}
           /\ written' = [written EXCEPT ![a] = written[a] + NewRows(r)]
           /\ toInsert' = [toInsert EXCEPT ![a] = toInsert[a] \ {r}]
      BY <1>10 DEF WriteBatch
    <3>1. collection' \subseteq Chunk \X Batch
      BY DEF IngestTypeOK
    <3>2. NewRows(r) \in Nat
      BY DEF NewRows
    <3>3. written' \in [Attempt -> Nat]
      BY <3>2 DEF IngestTypeOK
    <3>4. toInsert' \in [Attempt -> SUBSET (Chunk \X Batch)]
      BY DEF IngestTypeOK
    <3> QED
      BY <1>10, <3>1, <3>3, <3>4 DEF WriteBatch, IngestTypeOK
  <2>2. InHand'
    BY <1>10 DEF WriteBatch, IngestTypeOK, InHand, Orderly, Rows
  <2>3. RecordedIsStored'
    BY <1>10 DEF WriteBatch, IngestTypeOK, RecordedIsStored, Orderly, Rows
  <2>4. /\ PlacesAgree' /\ PassedIsRecorded' /\ CompleteIsRecorded' /\ DroppedOnce'
        /\ RecordersDropped'
    BY <1>10 DEF WriteBatch, IngestTypeOK, PlacesAgree, PassedIsRecorded, Newest, Claimed,
        CompleteIsRecorded, Orderly, DroppedOnce, RecordersDropped
  <2> QED
    BY <2>1, <2>2, <2>3, <2>4 DEF IngestInv
<1>11. CASE RecordChunk(a)
  <2>1. IngestTypeOK'
    <3>0. at[a] \in 1 .. NChunks
      BY <1>11 DEF RecordChunk, IngestTypeOK, PlacesAgree
    <3>1. chunksDone' \subseteq Chunk
      BY <1>11, <3>0 DEF RecordChunk, IngestTypeOK, Chunk
    <3>4. nRecords' \in Nat /\ recorders' \subseteq Run
      BY <1>11 DEF RecordChunk, IngestTypeOK
    <3>2. at' \in [Attempt -> 1..(NChunks + 1)]
      BY <1>11, <3>0 DEF RecordChunk, IngestTypeOK
    <3>3. /\ chunksIngested' \in [Attempt -> Nat] /\ pc' \in [Attempt -> Places]
          /\ toInsert' \in [Attempt -> SUBSET (Chunk \X Batch)]
      BY <1>11 DEF RecordChunk, Goto, IngestTypeOK, Places
    <3> QED
      BY <1>11, <3>1, <3>2, <3>3, <3>4 DEF RecordChunk, IngestTypeOK
  <2>2. PlacesAgree'
    BY <1>11 DEF RecordChunk, Goto, Owns, ChunkIngested, IngestTypeOK, PlacesAgree
  <2>3. PassedIsRecorded'
    BY <1>11 DEF RecordChunk, Goto, Owns, ChunkIngested, IngestTypeOK, PassedIsRecorded,
        Newest, Claimed
  <2>4. InHand'
    BY <1>11 DEF RecordChunk, Goto, Owns, ChunkIngested, IngestTypeOK, InHand, Orderly, Rows
  <2>5. RecordedIsStored'
    <3> SUFFICES ASSUME Orderly PROVE RecordedIsStored'
      BY <1>11 DEF RecordChunk, Goto, RecordedIsStored, Orderly, IngestTypeOK
    <3>1. Rows(at[a]) \subseteq collection
      BY <1>11 DEF RecordChunk, Owns, ChunkIngested, InHand
    <3> QED
      BY <1>11, <3>1 DEF RecordChunk, RecordedIsStored, Rows
  <2>6. RecordersDropped'
    <3>1. ~crossed /\ dropExisting[RunOf[a]] => droppedBy = RunOf[a]
      BY <1>11 DEF RecordChunk, Owns, DroppedOnce
    <3> QED
      BY <1>11, <3>1 DEF RecordChunk, RecordersDropped
  <2>7. CompleteIsRecorded' /\ DroppedOnce'
    BY <1>11 DEF RecordChunk, Goto, Owns, ChunkIngested, IngestTypeOK, CompleteIsRecorded,
        Orderly, DroppedOnce, Newest
  <2> QED
    BY <2>1, <2>2, <2>3, <2>4, <2>5, <2>6, <2>7 DEF IngestInv
<1>12. CASE Preempted(a)
  <2>1. IngestTypeOK'
    BY <1>12, EndTypes DEF Preempted, IngestTypeOK
  <2>2. PlacesAgree'
    BY <1>12, EndAgrees DEF Preempted
  <2>3. PassedIsRecorded'
    BY <1>12 DEF Preempted, Goto, End, Owns, IngestTypeOK, PassedIsRecorded, Newest, Claimed
  <2>4. InHand'
    BY <1>12 DEF Preempted, Goto, End, Owns, IngestTypeOK, InHand, Orderly, Rows
  <2>5. CompleteIsRecorded'
    BY <1>12 DEF Preempted, Goto, End, Owns, IngestTypeOK, CompleteIsRecorded, Orderly
  <2>6. RecordedIsStored'
    BY <1>12 DEF Preempted, Goto, End, Owns, IngestTypeOK, RecordedIsStored, Orderly, Rows
  <2>7. DroppedOnce' /\ RecordersDropped'
    BY <1>12 DEF Preempted, Goto, End, Owns, IngestTypeOK, DroppedOnce, Newest,
        RecordersDropped
  <2> QED
    BY <2>1, <2>2, <2>3, <2>4, <2>5, <2>6, <2>7 DEF IngestInv
<1>13. CASE AllChunks(a)
  <2>1. IngestTypeOK'
    BY <1>13 DEF AllChunks, Goto, IngestTypeOK, Places
  <2>2. PlacesAgree'
    BY <1>13 DEF AllChunks, Goto, IngestTypeOK, PlacesAgree
  <2>3. PassedIsRecorded'
    BY <1>13 DEF AllChunks, Goto, IngestTypeOK, PassedIsRecorded, Newest, Claimed
  <2>4. InHand'
    BY <1>13 DEF AllChunks, Goto, IngestTypeOK, InHand, Orderly, Rows
  <2>5. CompleteIsRecorded' /\ RecordedIsStored' /\ DroppedOnce' /\ RecordersDropped'
    BY <1>13 DEF AllChunks, Goto, IngestTypeOK, CompleteIsRecorded, Orderly,
        RecordedIsStored, Rows, DroppedOnce, Newest, RecordersDropped
  <2> QED
    BY <2>1, <2>2, <2>3, <2>4, <2>5 DEF IngestInv
<1>14. CASE CreateIndexes(a)
  <2>1. IngestTypeOK'
    BY <1>14 DEF CreateIndexes, Goto, Complete, IngestTypeOK, Places
  <2>2. PlacesAgree'
    BY <1>14 DEF CreateIndexes, Goto, Complete, IngestTypeOK, PlacesAgree
  <2>3. PassedIsRecorded'
    BY <1>14 DEF CreateIndexes, Goto, Complete, IngestTypeOK, PassedIsRecorded, Newest,
        Claimed
  <2>4. InHand'
    BY <1>14 DEF CreateIndexes, Goto, Complete, IngestTypeOK, InHand, Orderly, Rows
  <2>5. CompleteIsRecorded'
    BY <1>14 DEF CreateIndexes, Goto, Complete, IngestTypeOK, CompleteIsRecorded, Orderly
  <2>6. RecordedIsStored' /\ DroppedOnce' /\ RecordersDropped'
    BY <1>14 DEF CreateIndexes, Goto, Complete, IngestTypeOK, RecordedIsStored, Orderly,
        Rows, DroppedOnce, Newest, RecordersDropped
  <2> QED
    BY <2>1, <2>2, <2>3, <2>4, <2>5, <2>6 DEF IngestInv
<1>15. CASE FinishState(a)
  <2>1. IngestTypeOK'
    BY <1>15, EndTypes DEF FinishState, IngestTypeOK
  <2>2. PlacesAgree'
    BY <1>15, EndAgrees DEF FinishState
  <2>3. PassedIsRecorded'
    BY <1>15 DEF FinishState, Goto, End, Owns, IngestTypeOK, PassedIsRecorded, Newest,
        Claimed
  <2>4. InHand'
    BY <1>15 DEF FinishState, Goto, End, Owns, IngestTypeOK, InHand, Orderly, Rows
  <2>5. CompleteIsRecorded'
    <3> SUFFICES ASSUME Orderly PROVE indexed /\ Chunk \subseteq chunksDone
      BY <1>15 DEF FinishState, End, Goto, CompleteIsRecorded, Orderly, IngestTypeOK
    <3>1. indexed
      BY <1>15 DEF FinishState, Owns, InHand
    <3>2. at[a] - 1 = NChunks /\ 1 .. (at[a] - 1) \subseteq chunksDone
      BY <1>15 DEF FinishState, Owns, PlacesAgree, PassedIsRecorded, Claimed, Orderly
    <3> QED
      BY <3>1, <3>2 DEF Chunk
  <2>6. RecordedIsStored'
    BY <1>15 DEF FinishState, Goto, End, Owns, IngestTypeOK, RecordedIsStored, Orderly, Rows
  <2>7. DroppedOnce' /\ RecordersDropped'
    BY <1>15 DEF FinishState, Goto, End, Owns, IngestTypeOK, DroppedOnce, Newest,
        RecordersDropped
  <2> QED
    BY <2>1, <2>2, <2>3, <2>4, <2>5, <2>6, <2>7 DEF IngestInv
<1>16. CASE Incomplete(a)
  <2>1. IngestTypeOK'
    BY <1>16, EndTypes DEF Incomplete, IngestTypeOK
  <2>2. PlacesAgree'
    BY <1>16, EndAgrees DEF Incomplete
  <2>3. PassedIsRecorded'
    BY <1>16 DEF Incomplete, Goto, End, Complete, IngestTypeOK, PassedIsRecorded, Newest,
        Claimed
  <2>4. InHand'
    BY <1>16 DEF Incomplete, Goto, End, Complete, IngestTypeOK, InHand, Orderly, Rows
  <2>5. CompleteIsRecorded'
    BY <1>16 DEF Incomplete, Goto, End, Complete, IngestTypeOK, CompleteIsRecorded, Orderly
  <2>6. RecordedIsStored'
    BY <1>16 DEF Incomplete, Goto, End, Complete, IngestTypeOK, RecordedIsStored, Orderly,
        Rows
  <2>7. DroppedOnce' /\ RecordersDropped'
    BY <1>16 DEF Incomplete, Goto, End, Complete, IngestTypeOK, DroppedOnce, Newest,
        RecordersDropped
  <2> QED
    BY <2>1, <2>2, <2>3, <2>4, <2>5, <2>6, <2>7 DEF IngestInv
<1>17. CASE Fail(a)
  <2>1. IngestTypeOK'
    BY <1>17, EndTypes DEF Fail, IngestTypeOK
  <2>2. PlacesAgree'
    BY <1>17, EndAgrees DEF Fail, Active
  <2>3. PassedIsRecorded'
    BY <1>17 DEF Fail, Goto, End, Active, IngestTypeOK, PassedIsRecorded, Newest, Claimed
  <2>4. InHand'
    BY <1>17 DEF Fail, Goto, End, Active, IngestTypeOK, InHand, Orderly, Rows
  <2>5. CompleteIsRecorded'
    BY <1>17 DEF Fail, Goto, End, Active, IngestTypeOK, CompleteIsRecorded, Orderly
  <2>6. RecordedIsStored'
    BY <1>17 DEF Fail, Goto, End, Active, IngestTypeOK, RecordedIsStored, Orderly, Rows
  <2>7. DroppedOnce' /\ RecordersDropped'
    BY <1>17 DEF Fail, Goto, End, Active, IngestTypeOK, DroppedOnce, Newest,
        RecordersDropped
  <2> QED
    BY <2>1, <2>2, <2>3, <2>4, <2>5, <2>6, <2>7 DEF IngestInv
<1> QED
  BY <1>1, <1>2, <1>3, <1>4, <1>5, <1>6, <1>7, <1>8, <1>9, <1>10, <1>11, <1>12, <1>13,
      <1>14, <1>15, <1>16, <1>17 DEF AddCatalog

\* Every step keeps the invariant.
LEMMA IngestStep == IngestInv /\ [Next]_vars => IngestInv'
<1> SUFFICES ASSUME IngestInv, [Next]_vars PROVE IngestInv'
  OBVIOUS
<1>1. CASE Next
  BY <1>1, AttemptStep DEF Next
<1>2. CASE UNCHANGED vars
  <2> USE DEF vars, document, plan, progress, history
  <2>1. IngestTypeOK' /\ PlacesAgree' /\ PassedIsRecorded'
    BY <1>2 DEF IngestInv, IngestTypeOK, PlacesAgree, PassedIsRecorded, Newest
  <2>2. InHand' /\ CompleteIsRecorded' /\ RecordedIsStored'
    BY <1>2 DEF IngestInv, InHand, CompleteIsRecorded, RecordedIsStored, Orderly, Rows
  <2>3. DroppedOnce' /\ RecordersDropped'
    BY <1>2 DEF IngestInv, DroppedOnce, RecordersDropped, Newest
  <2> QED
    BY <2>1, <2>2, <2>3 DEF IngestInv
<1> QED
  BY <1>1, <1>2

\* It holds of a catalog that no attempt has touched.
LEMMA IngestStart == Init => IngestInv
<1> SUFFICES ASSUME Init PROVE IngestInv
  OBVIOUS
<1> USE IngestFacts
<1>1. IngestTypeOK
  <2>1. /\ pc \in [Attempt -> Places] /\ dropping \in [Attempt -> BOOLEAN]
        /\ done \in [Attempt -> SUBSET Chunk] /\ at \in [Attempt -> 1..(NChunks + 1)]
        /\ toInsert \in [Attempt -> SUBSET (Chunk \X Batch)] /\ written \in [Attempt -> Nat]
        /\ chunksIngested \in [Attempt -> Nat] /\ chunksResumed \in [Attempt -> Nat]
    BY DEF Init, Places
  <2>2. dropExisting \in [Run -> BOOLEAN]
    BY DEF Init, Run
  <2>3. indexed \in BOOLEAN /\ torn \in BOOLEAN /\ crossed \in BOOLEAN
    BY DEF Init
  <2> QED
    BY <2>1, <2>2, <2>3 DEF Init, IngestTypeOK
<1>2. PlacesAgree
  BY DEF Init, PlacesAgree, Attempt
<1>3. PassedIsRecorded /\ InHand /\ CompleteIsRecorded /\ RecordedIsStored
  BY DEF Init, PassedIsRecorded, InHand, CompleteIsRecorded, RecordedIsStored, Claimed
<1>4. DroppedOnce /\ RecordersDropped
  BY DEF Init, DroppedOnce, RecordersDropped
<1> QED
  BY <1>1, <1>2, <1>3, <1>4 DEF IngestInv

\* IngestInv is an inductive invariant of the ingestion: for every number of chunks, batches
\* and attempts, and every assignment of the attempts to runs.
THEOREM IngestInvariant == Spec => []IngestInv
BY IngestStart, IngestStep, PTL DEF Spec

\* A chunk that chunks_done lists, which ingest_chunks will skip from then on, has all its
\* rows in the collection, in every interleaving of the attempts.
THEOREM RecordedStaysStored == Spec => []RecordedIsStored
<1>1. IngestInv => RecordedIsStored
  BY DEF IngestInv
<1> QED
  BY <1>1, IngestInvariant, PTL

\* A catalog whose state document says complete has every row and its index.
THEOREM CompleteStaysWhole == Spec => []CompleteIsWhole
<1>1. IngestInv => CompleteIsWhole
  BY DEF IngestInv, CompleteIsWhole, CompleteIsRecorded, RecordedIsStored
<1> QED
  BY <1>1, IngestInvariant, PTL

\* Only its own drop takes an attempt to dropState.
LEMMA DropIsDropCollection ==
  ASSUME IngestInv, [Next]_vars, NEW a \in Attempt, pc[a] = "dropCollection", pc'[a] = "dropState"
  PROVE  DropCollection(a)
<1> USE DEF IngestInv, IngestTypeOK
<1>1. CASE UNCHANGED vars
  BY <1>1 DEF vars
<1>2. ASSUME NEW b \in Attempt, b # a, AddCatalog(b) \/ Fail(b) PROVE pc'[a] = pc[a]
  BY <1>2 DEF AddCatalog, Begin, Decide, DropCollection, DropState, ReadDone, StartState, SkipChunk,
     StopShort, FetchChunk, WriteBatch, RecordChunk, Preempted, AllChunks, CreateIndexes,
     FinishState, Incomplete, Fail, End, Goto
<1>3. CASE AddCatalog(a) \/ Fail(a)
  BY <1>3 DEF AddCatalog, Begin, Decide, DropState, ReadDone, StartState, SkipChunk,
     StopShort, FetchChunk, WriteBatch, RecordChunk, Preempted, AllChunks, CreateIndexes,
     FinishState, Incomplete, Fail, End, Goto
<1> QED
  BY <1>1, <1>2, <1>3 DEF Next

\* should_drop never lets a retry drop chunks that its own run has recorded.
THEOREM RetriesKeepTheirChunks == Spec => RetryKeepsItsChunks
<1>1. ASSUME IngestInv, [Next]_vars, NEW a \in Attempt, pc[a] = "dropCollection",
             pc'[a] = "dropState", ~crossed'
      PROVE  RunOf[a] \notin recorders
  <2>1. DropCollection(a)
    BY <1>1, DropIsDropCollection
  <2>2. ~crossed /\ Newest(a)
    BY <1>1, <2>1, NotEvicted DEF DropCollection, IngestInv
  <2> QED
    BY <1>1, <2>2 DEF IngestInv, DroppedOnce, RecordersDropped
<1>2. IngestInv /\ [Next]_vars =>
        [\A a \in Attempt : (pc[a] = "dropCollection" /\ pc'[a] = "dropState" /\ ~crossed')
                              => RunOf[a] \notin recorders]_vars
  BY <1>1
<1> QED
  BY <1>2, IngestInvariant, PTL DEF Spec, RetryKeepsItsChunks

-----------------------------------------------------------------------------
\* The reprocessing of enrichment.

\* The places of a try, and of those the ones at which its threads may be running.
TryPlaces == {"queued", "populate", "spawn", "drain", "llen", "stop", "discard", "report", "ended"}
Threaded == {"drain", "llen", "stop", "discard", "report"}

\* The types of the list, of the tries and of their threads.
ReprocessTypeOK ==
    /\ list \in Seq(Candid) /\ enriched \subseteq Candid
    /\ missingOnly \in BOOLEAN /\ owned \in BOOLEAN
    /\ place \in [Try -> TryPlaces]
    /\ selected \in [Try -> SUBSET Candid] /\ toPush \in [Try -> SUBSET Candid]
    /\ emptyStreak \in [Try -> Nat]
    /\ flag \in [Try -> {"none", "cancel", "shutdown"}]
    /\ verdict \in [Try -> {"none", "ok", "canceled", "failed"}]
    /\ outcome \in [Try -> {"none", "ok", "canceled", "failed", "lost", "released"}]
    /\ enricher \in [Try -> [Enricher -> {"off", "loop", "busy", "exited"}]]
    /\ popped \in [Try -> [Enricher -> SUBSET Candid]]
    /\ begun \in Nat /\ mishaps \in Nat
    /\ overlapped \in BOOLEAN /\ diedLate \subseteq Try /\ leaked \in BOOLEAN

\* The tries are begun in their order, and one that is not over has no outcome.
TriesInOrder ==
    \A t \in Try : /\ place[t] = "queued" <=> t > begun
                   /\ place[t] # "ended" => outcome[t] = "none"

\* What is pushed is pushed before the threads start, and only a busy thread has a batch.
ThreadsAgree ==
    \A t \in Try :
        /\ place[t] \in {"spawn", "drain", "llen", "stop"} => toPush[t] = {}
        /\ \A w \in Enricher : /\ enricher[t][w] # "off" => place[t] \in Threaded
                               /\ popped[t][w] # {} => enricher[t][w] = "busy"

\* The last look at the threads: one that has exited since has died late.
LookedAt == \A t \in Try : place[t] = "llen" /\ Exited(t) => t \in diedLate

\* Without an overlap only the newest try runs.
Alone == ~overlapped => \A t \in Try : Runs(t) => t = begun

\* The batches in the hands of the threads of a try.
InHands(t) == UNION {popped[t][w] : w \in Enricher}

\* Every alert a try selected is enriched, or still to be seen by one of its threads.
Pending(t) == selected[t] \subseteq enriched \cup toPush[t] \cup ToSet(list) \cup InHands(t)

\* Until it looks at the list for the last time nothing selected is out of sight, unless a
\* thread has exited; what is done then is in the hands of the threads, and when they are
\* joined, enriched.
InSight(t) ==
    /\ place[t] \in {"populate", "spawn"} => Pending(t)
    /\ place[t] \in {"drain", "llen"} => Pending(t) \/ Exited(t)
    /\ place[t] = "stop" /\ verdict[t] = "ok" /\ t \notin diedLate
         => selected[t] \subseteq enriched \cup InHands(t)
    /\ place[t] \in {"discard", "report"} /\ verdict[t] = "ok" /\ t \notin diedLate
         => selected[t] \subseteq enriched

\* As long as no two tries of a run overlapped, no try has lost sight of an alert.
NothingOutOfSight == ~overlapped => \A t \in Try : InSight(t)

\* A list that is not empty has a try that will still discard it, or the queue will give
\* the run to one.
ListIsKept ==
    owned /\ ~leaked /\ begun # 0 /\ list # <<>>
      => \/ \E s \in Try : Runs(s) /\ place[s] # "report"
         \/ place[begun] = "ended" /\ outcome[begun] = "none"

\* The inductive invariant of the reprocessing of enrichment.
ReprocessInv ==
    /\ ReprocessTypeOK /\ TriesInOrder /\ ThreadsAgree /\ LookedAt /\ Alone
    /\ NothingOutOfSight /\ SuccessIsWhole /\ ListIsKept

\* SetToSeq lists every element of a finite set, and nothing else.
LEMMA SetToSeqProps ==
  ASSUME NEW S, IsFiniteSet(S)
  PROVE  SetToSeq(S) \in Seq(S) /\ ToSet(SetToSeq(S)) = S
<1> DEFINE n == Cardinality(S)
           f == SetToSeq(S)
<1>1. n \in Nat /\ ExistsBijection(1..n, S)
  BY FS_CardinalityType
<1>2. PICK g \in Bijection(1..n, S) : TRUE
  BY <1>1 DEF ExistsBijection
<1>3. \E h \in [1..n -> S] : IsInjective(h)
  BY <1>2 DEF Bijection, Injection, IsInjective
<1>4. f \in [1..n -> S] /\ IsInjective(f)
  BY <1>3 DEF SetToSeq
<1>5. f \in Injection(1..n, S)
  BY <1>4 DEF Injection
<1>6. Cardinality(1..n) = n
  BY <1>1, FS_Interval
<1>7. f \in Surjection(1..n, S)
  BY <1>5, <1>6, FS_Injection
<1>8. \A x \in S : \E i \in 1..n : f[i] = x
  BY <1>7 DEF Surjection
<1>9. f \in Seq(S) /\ DOMAIN f = 1..n
  BY <1>1, <1>4
<1> QED
  BY <1>4, <1>8, <1>9 DEF ToSet

\* A list and what is put in front of it.
LEMMA ToSetConcat ==
  ASSUME NEW S, NEW s \in Seq(S), NEW t \in Seq(S)
  PROVE  s \o t \in Seq(S) /\ ToSet(s \o t) = ToSet(s) \cup ToSet(t)
<1>1. s \o t \in Seq(S) /\ Len(s \o t) = Len(s) + Len(t)
  OBVIOUS
<1>2. \A i \in 1..Len(s) : (s \o t)[i] = s[i]
  OBVIOUS
<1>3. \A i \in 1..Len(t) : (s \o t)[Len(s) + i] = t[i]
  OBVIOUS
<1>4. \A i \in 1..Len(s \o t) : i \in 1..Len(s) \/ i - Len(s) \in 1..Len(t)
  BY <1>1
<1>5. ToSet(s) \cup ToSet(t) \subseteq ToSet(s \o t)
  <2>1. \A i \in 1..Len(s) : i \in 1..Len(s \o t)
    BY <1>1
  <2>2. \A i \in 1..Len(t) : Len(s) + i \in 1..Len(s \o t)
    BY <1>1
  <2>3. ToSet(s) \subseteq ToSet(s \o t)
    BY <1>1, <1>2, <2>1 DEF ToSet
  <2>4. ToSet(t) \subseteq ToSet(s \o t)
    <3> SUFFICES ASSUME NEW i \in 1..Len(t) PROVE t[i] \in ToSet(s \o t)
      BY SMTT(30) DEF ToSet
    <3> DEFINE j == Len(s) + i
    <3>1. j \in 1..Len(s \o t) /\ (s \o t)[j] = t[i]
      BY <1>3, <2>2
    <3> HIDE DEF j
    <3> QED
      BY <1>1, <3>1 DEF ToSet
  <2> QED
    BY <2>3, <2>4
<1>6. ToSet(s \o t) \subseteq ToSet(s) \cup ToSet(t)
  <2> SUFFICES ASSUME NEW i \in 1..Len(s \o t) PROVE (s \o t)[i] \in ToSet(s) \cup ToSet(t)
    BY <1>1 DEF ToSet
  <2>1. CASE i \in 1..Len(s)
    BY <1>2, <2>1 DEF ToSet
  <2>2. CASE i - Len(s) \in 1..Len(t)
    <3>1. (s \o t)[Len(s) + (i - Len(s))] = t[i - Len(s)]
      BY <1>3, <2>2
    <3>2. Len(s) + (i - Len(s)) = i
      BY <1>1
    <3> QED
      BY <2>2, <3>1, <3>2 DEF ToSet
  <2> QED
    BY <1>4, <2>1, <2>2
<1> QED
  BY <1>1, <1>5, <1>6

\* RPOP splits the list.
LEMMA PopProps ==
  ASSUME list \in Seq(Candid)
  PROVE  /\ Remaining \in Seq(Candid) /\ ToSet(Taken) \subseteq Candid
         /\ ToSet(list) = ToSet(Remaining) \cup ToSet(Taken)
         /\ list = <<>> => Remaining = <<>>
<1> DEFINE n == Smaller(PopSize, Len(list))
           k == Len(list) - n
<1>1. Len(list) \in Nat /\ n \in 0..Len(list) /\ k \in 0..Len(list) /\ k + n = Len(list)
  BY ReprocessAssumption DEF Smaller
<1>2. Remaining = SubSeq(list, 1, k) /\ Taken = SubSeq(list, k + 1, Len(list))
  BY DEF Remaining, Taken
<1>3. /\ Remaining \in Seq(Candid) /\ Len(Remaining) = k
      /\ Taken \in Seq(Candid)
  <2>1. \A i \in 1..Len(list) : list[i] \in Candid
    OBVIOUS
  <2>2. \A i \in 1..k : list[i] \in Candid
    BY <1>1, <2>1
  <2>3. \A i \in (k + 1)..Len(list) : list[i] \in Candid
    BY <1>1, <2>1
  <2>4. 1 \in Int /\ k \in Int /\ k + 1 \in Int /\ Len(list) \in Int
    BY <1>1
  <2>5. Remaining \in Seq(Candid) /\ Len(Remaining) = k
    <3>1. SubSeq(list, 1, k) \in Seq(Candid)
      BY <2>2, <2>4, SubSeqProperties
    <3>2. Len(SubSeq(list, 1, k)) = IF 1 <= k THEN k - 1 + 1 ELSE 0
      BY <2>2, <2>4, SubSeqProperties
    <3> QED
      BY <1>1, <1>2, <3>1, <3>2
  <2>6. Taken \in Seq(Candid)
    <3>1. SubSeq(list, k + 1, Len(list)) \in Seq(Candid)
      BY <2>3, <2>4, SubSeqProperties
    <3> QED
      BY <1>2, <3>1
  <2> QED
    BY <2>5, <2>6
<1>4. list = Remaining \o Taken
  <2>1. 1 \in 1..(Len(list) + 1) /\ k \in (1 - 1)..Len(list) /\ Len(list) \in k..Len(list)
    BY <1>1
  <2>2. Remaining \o Taken = SubSeq(list, 1, Len(list))
    BY <1>2, <2>1, ConcatAdjacentSubSeq
  <2> QED
    BY <2>2, SubSeqFull
<1>5. ToSet(list) = ToSet(Remaining) \cup ToSet(Taken)
  <2>1. ToSet(Remaining \o Taken) = ToSet(Remaining) \cup ToSet(Taken)
    BY <1>3, ToSetConcat
  <2> QED
    BY <1>4, <2>1
<1>6. ToSet(Taken) \subseteq Candid
  BY <1>3 DEF ToSet
<1>7. list = <<>> => Remaining = <<>>
  BY <1>1, <1>3
<1> QED
  BY <1>3, <1>5, <1>6, <1>7

\* What the proofs need to know of the constants.
LEMMA ReprocessFacts ==
  /\ IsFiniteSet(Candid) /\ Enricher # {} /\ \A t \in Try : t \in Nat /\ t > 0
  BY ReprocessAssumption DEF Try

\* Without an overlap a step of the try that runs is no concern of the others.
LEMMA OthersRest ==
  ASSUME ReprocessInv, NEW t \in Try, Runs(t), overlapped' = overlapped,
         \A s \in Try : s # t => place'[s] = place[s],
         ~overlapped => InSight(t)'
  PROVE  NothingOutOfSight'
<1> SUFFICES ASSUME ~overlapped, NEW s \in Try, s # t PROVE InSight(s)'
  BY DEF NothingOutOfSight
<1>1. ~Runs(s)
  BY DEF ReprocessInv, Alone
<1>2. place'[s] \in {"queued", "ended"}
  BY <1>1 DEF Runs
<1> QED
  BY <1>2 DEF InSight

\* LPUSH puts a batch of the alerts that are still to be pushed on the list.
LEMMA PushProps ==
  ASSUME ReprocessTypeOK, NEW t \in Try, Push(t)
  PROVE  /\ list' \in Seq(Candid) /\ list' # <<>>
         /\ toPush' \in [Try -> SUBSET Candid]
         /\ \E b : /\ ToSet(list') = b \cup ToSet(list) /\ toPush'[t] = toPush[t] \ b
<1>1. PICK b \in SUBSET toPush[t] : /\ Cardinality(b) = Smaller(PushSize, Cardinality(toPush[t]))
                                    /\ list' = SetToSeq(b) \o list
                                    /\ toPush' = [toPush EXCEPT ![t] = toPush[t] \ b]
  BY DEF Push
<1>2. b \subseteq Candid /\ IsFiniteSet(b) /\ IsFiniteSet(toPush[t])
  BY FS_Subset, ReprocessFacts DEF ReprocessTypeOK
<1>3. SetToSeq(b) \in Seq(b) /\ ToSet(SetToSeq(b)) = b
  BY <1>2, SetToSeqProps
<1>4. SetToSeq(b) \in Seq(Candid)
  BY <1>2, <1>3
<1>5. list' \in Seq(Candid) /\ ToSet(list') = b \cup ToSet(list)
  BY <1>1, <1>3, <1>4, ToSetConcat DEF ReprocessTypeOK
<1>6. b # {}
  <2>1. Cardinality(toPush[t]) \in Nat /\ Cardinality(toPush[t]) # 0
    BY <1>2, FS_CardinalityType, FS_EmptySet DEF Push
  <2>2. Cardinality(b) # 0
    BY <1>1, <2>1, ReprocessAssumption DEF Smaller
  <2> QED
    BY <2>2, FS_EmptySet
<1>7. list' # <<>>
  BY <1>5, <1>6 DEF ToSet
<1>8. toPush' \in [Try -> SUBSET Candid] /\ toPush'[t] = toPush[t] \ b
  BY <1>1 DEF ReprocessTypeOK
<1> QED
  BY <1>5, <1>7, <1>8

\* What the threads of a try have in hand, told apart by one of them.
LEMMA HandsProps ==
  ASSUME ReprocessTypeOK, NEW t \in Try, NEW w \in Enricher,
         \A v \in Enricher : v # w => popped'[t][v] = popped[t][v]
  PROVE  \E X : InHands(t) = popped[t][w] \cup X /\ InHands(t)' = popped'[t][w] \cup X
<1> DEFINE X == UNION {popped[t][v] : v \in Enricher \ {w}}
<1>1. InHands(t) = popped[t][w] \cup X
  BY DEF InHands
<1>2. InHands(t)' = popped'[t][w] \cup X
  BY DEF InHands
<1> HIDE DEF X
<1> QED
  BY <1>1, <1>2

\* A thread that is running belongs to a try that runs.
LEMMA ThreadRuns ==
  ASSUME ReprocessInv, NEW t \in Try, NEW w \in Enricher, enricher[t][w] # "off"
  PROVE  Runs(t) /\ place[t] \in Threaded
  BY DEF ReprocessInv, ReprocessTypeOK, ThreadsAgree, Threaded, Runs

\* A step of the body of a try, of the queue or of the task worker keeps the invariant.
LEMMA TryStep ==
  ASSUME ReprocessInv, NEW t \in Try, Claim(t) \/ Body(t) \/ Kill(t) \/ \E f \in {"cancel", "shutdown"} : Flag(t, f)
  PROVE  ReprocessInv'
<1> USE ReprocessFacts DEF ReprocessInv, params, try, threads, past
<1>1. CASE Claim(t)
  <2>1. ReprocessTypeOK'
    BY <1>1 DEF Claim, Move, Runs, Select, ReprocessTypeOK, TryPlaces
  <2>2. TriesInOrder'
    BY <1>1 DEF Claim, Move, Runs, Select, ReprocessTypeOK, TriesInOrder
  <2>3. ThreadsAgree'
    <3>1. \A s \in Try : place'[s] \in {"spawn", "drain", "llen", "stop"} => toPush'[s] = {}
      BY <1>1 DEF Claim, Move, ReprocessTypeOK, ThreadsAgree
    <3>2. \A s \in Try, v \in Enricher : enricher'[s][v] # "off" => place'[s] \in Threaded
      BY <1>1 DEF Claim, Move, ReprocessTypeOK, TriesInOrder, ThreadsAgree, Threaded
    <3>3. \A s \in Try, v \in Enricher : popped'[s][v] # {} => enricher'[s][v] = "busy"
      BY <1>1 DEF Claim, Move, ReprocessTypeOK, ThreadsAgree, Threaded
    <3> QED
      BY <3>1, <3>2, <3>3 DEF ThreadsAgree
  <2>4. LookedAt'
    BY <1>1 DEF Claim, Move, Runs, Select, ReprocessTypeOK, LookedAt, Exited
  <2>5. Alone'
    BY <1>1 DEF Claim, Move, Runs, Select, ReprocessTypeOK, Alone
  <2>6. NothingOutOfSight'
    BY <1>1, ZenonT(60) DEF Claim, Move, Runs, Select, ReprocessTypeOK, NothingOutOfSight, InSight,
        Pending, Exited, InHands
  <2>7. SuccessIsWhole'
    <3>1. outcome[t] = "none" /\ outcome' = outcome
      BY <1>1 DEF Claim, ReprocessTypeOK, TriesInOrder
    <3> QED
      BY <1>1, <3>1 DEF Claim, ReprocessTypeOK, SuccessIsWhole
  <2>8. ListIsKept'
    BY <1>1 DEF Claim, Move, Runs, Select, ReprocessTypeOK, ListIsKept
  <2> QED
    BY <2>1, <2>2, <2>3, <2>4, <2>5, <2>6, <2>7, <2>8 DEF ReprocessInv
<1>2. CASE Push(t)
  <2>1. ReprocessTypeOK'
    <3>1. list' \in Seq(Candid) /\ toPush' \in [Try -> SUBSET Candid]
      BY <1>2, PushProps
    <3> QED
      BY <1>2, <3>1 DEF Push, ReprocessTypeOK
  <2>2. ThreadsAgree'
    BY <1>2 DEF Push, ReprocessTypeOK, ThreadsAgree, Threaded
  <2>3. NothingOutOfSight'
    <3>1. Runs(t) /\ overlapped' = overlapped /\ \A s \in Try : s # t => place'[s] = place[s]
      BY <1>2 DEF Push, Runs
    <3>2. ASSUME ~overlapped PROVE InSight(t)'
      <4>1. Pending(t)
        BY <1>2, <3>2 DEF Push, NothingOutOfSight, InSight
      <4>2. InHands(t)' = InHands(t)
        BY <1>2 DEF Push, InHands
      <4>3. PICK b : ToSet(list') = b \cup ToSet(list) /\ toPush'[t] = toPush[t] \ b
        BY <1>2, PushProps
      <4>4. Pending(t)'
        BY <1>2, <4>1, <4>2, <4>3 DEF Push, Pending
      <4> QED
        BY <1>2, <4>4 DEF Push, InSight
    <3> QED
      BY <3>1, <3>2, OthersRest
  <2>4. ListIsKept'
    BY <1>2 DEF Push, ListIsKept, Runs
  <2>5. TriesInOrder' /\ LookedAt' /\ Alone' /\ SuccessIsWhole'
    BY <1>2 DEF Push, ReprocessTypeOK, TriesInOrder, LookedAt, Exited, Alone, Runs,
        SuccessIsWhole
  <2> QED
    BY <2>1, <2>2, <2>3, <2>4, <2>5 DEF ReprocessInv
<1>3. CASE PopulateCanceled(t)
  <2>1. ReprocessTypeOK'
    BY <1>3 DEF PopulateCanceled, Return, Move, ReprocessTypeOK, TryPlaces
  <2>2. TriesInOrder'
    BY <1>3 DEF PopulateCanceled, Return, Move, ReprocessTypeOK, TriesInOrder
  <2>3. ThreadsAgree'
    BY <1>3 DEF PopulateCanceled, Return, Move, ReprocessTypeOK, ThreadsAgree, Threaded
  <2>4. LookedAt'
    BY <1>3 DEF PopulateCanceled, Return, Move, ReprocessTypeOK, LookedAt, Exited
  <2>5. Alone'
    BY <1>3 DEF PopulateCanceled, Return, Move, ReprocessTypeOK, Alone, Runs
  <2>6. NothingOutOfSight'
    <3>1. Runs(t) /\ overlapped' = overlapped /\ \A s \in Try : s # t => place'[s] = place[s]
      BY <1>3 DEF PopulateCanceled, Return, Move, Runs, ReprocessTypeOK
    <3>2. ASSUME ~overlapped PROVE InSight(t)'
      <4>1. InSight(t)
        BY <3>2 DEF NothingOutOfSight
      <4>2. InHands(t)' = InHands(t) /\ Exited(t)' = Exited(t)
        BY <1>3 DEF PopulateCanceled, Return, Move, InHands, Exited
      <4> QED
        BY <1>3, <4>1, <4>2 DEF PopulateCanceled, Return, Move, ReprocessTypeOK, ThreadsAgree,
            InSight, Pending
    <3> QED
      BY <3>1, <3>2, OthersRest
  <2>7. ListIsKept'
    BY <1>3 DEF PopulateCanceled, Return, Move, ReprocessTypeOK, ListIsKept, Runs
  <2>8. SuccessIsWhole'
    BY <1>3 DEF PopulateCanceled, Return, Move, ReprocessTypeOK, SuccessIsWhole
  <2> QED
    BY <2>1, <2>2, <2>3, <2>4, <2>5, <2>6, <2>7, <2>8 DEF ReprocessInv
<1>4. CASE PopulateFails(t)
  <2>1. ReprocessTypeOK'
    BY <1>4 DEF PopulateFails, Mishap, Return, Move, ReprocessTypeOK, TryPlaces
  <2>2. TriesInOrder'
    BY <1>4 DEF PopulateFails, Mishap, Return, Move, ReprocessTypeOK, TriesInOrder
  <2>3. ThreadsAgree'
    BY <1>4 DEF PopulateFails, Mishap, Return, Move, ReprocessTypeOK, ThreadsAgree, Threaded
  <2>4. LookedAt'
    BY <1>4 DEF PopulateFails, Mishap, Return, Move, ReprocessTypeOK, LookedAt, Exited
  <2>5. Alone'
    BY <1>4 DEF PopulateFails, Mishap, Return, Move, ReprocessTypeOK, Alone, Runs
  <2>6. NothingOutOfSight'
    <3>1. Runs(t) /\ overlapped' = overlapped /\ \A s \in Try : s # t => place'[s] = place[s]
      BY <1>4 DEF PopulateFails, Mishap, Return, Move, Runs, ReprocessTypeOK
    <3>2. ASSUME ~overlapped PROVE InSight(t)'
      <4>1. InSight(t)
        BY <3>2 DEF NothingOutOfSight
      <4>2. InHands(t)' = InHands(t) /\ Exited(t)' = Exited(t)
        BY <1>4 DEF PopulateFails, Mishap, Return, Move, InHands, Exited
      <4> QED
        BY <1>4, <4>1, <4>2 DEF PopulateFails, Mishap, Return, Move, ReprocessTypeOK,
            ThreadsAgree, InSight, Pending
    <3> QED
      BY <3>1, <3>2, OthersRest
  <2>7. ListIsKept'
    BY <1>4 DEF PopulateFails, Mishap, Return, Move, ReprocessTypeOK, ListIsKept, Runs
  <2>8. SuccessIsWhole'
    BY <1>4 DEF PopulateFails, Mishap, Return, Move, ReprocessTypeOK, SuccessIsWhole
  <2> QED
    BY <2>1, <2>2, <2>3, <2>4, <2>5, <2>6, <2>7, <2>8 DEF ReprocessInv
<1>5. CASE Populated(t)
  <2>1. ReprocessTypeOK'
    BY <1>5 DEF Populated, Return, Move, ReprocessTypeOK, TryPlaces
  <2>2. TriesInOrder'
    BY <1>5 DEF Populated, Return, Move, ReprocessTypeOK, TriesInOrder
  <2>3. ThreadsAgree'
    <3>1. /\ enricher' = enricher /\ popped' = popped /\ toPush' = toPush /\ toPush[t] = {}
          /\ \A s \in Try : s # t => place'[s] = place[s]
      BY <1>5 DEF Populated, Return, Move, ReprocessTypeOK
    <3>2. \A v \in Enricher : enricher[t][v] = "off"
      BY <1>5 DEF Populated, ReprocessTypeOK, ThreadsAgree, Threaded
    <3> QED
      BY <3>1, <3>2 DEF ThreadsAgree
  <2>4. LookedAt'
    BY <1>5 DEF Populated, Return, Move, ReprocessTypeOK, LookedAt, Exited
  <2>5. Alone'
    BY <1>5 DEF Populated, Return, Move, ReprocessTypeOK, Alone, Runs
  <2>6. NothingOutOfSight'
    <3>1. Runs(t) /\ overlapped' = overlapped /\ \A s \in Try : s # t => place'[s] = place[s]
      BY <1>5 DEF Populated, Return, Move, Runs, ReprocessTypeOK
    <3>2. ASSUME ~overlapped PROVE InSight(t)'
      <4>1. InSight(t)
        BY <3>2 DEF NothingOutOfSight
      <4>2. InHands(t)' = InHands(t) /\ Exited(t)' = Exited(t)
        BY <1>5 DEF Populated, Return, Move, InHands, Exited
      <4> QED
        BY <1>5, <4>1, <4>2 DEF Populated, Return, Move, ReprocessTypeOK, ThreadsAgree,
            InSight, Pending
    <3> QED
      BY <3>1, <3>2, OthersRest
  <2>7. ListIsKept'
    BY <1>5, ZenonT(60) DEF Populated, Return, Move, ReprocessTypeOK, ListIsKept, Runs
  <2>8. SuccessIsWhole'
    BY <1>5 DEF Populated, Return, Move, ReprocessTypeOK, SuccessIsWhole
  <2> QED
    BY <2>1, <2>2, <2>3, <2>4, <2>5, <2>6, <2>7, <2>8 DEF ReprocessInv
<1>6. CASE LoadFails(t)
  <2>1. ReprocessTypeOK'
    BY <1>6 DEF LoadFails, Mishap, Return, Move, ReprocessTypeOK, TryPlaces
  <2>2. TriesInOrder'
    BY <1>6 DEF LoadFails, Mishap, Return, Move, ReprocessTypeOK, TriesInOrder
  <2>3. ThreadsAgree'
    BY <1>6 DEF LoadFails, Mishap, Return, Move, ReprocessTypeOK, ThreadsAgree, Threaded
  <2>4. LookedAt'
    BY <1>6 DEF LoadFails, Mishap, Return, Move, ReprocessTypeOK, LookedAt, Exited
  <2>5. Alone'
    BY <1>6 DEF LoadFails, Mishap, Return, Move, ReprocessTypeOK, Alone, Runs
  <2>6. NothingOutOfSight'
    <3>1. Runs(t) /\ overlapped' = overlapped /\ \A s \in Try : s # t => place'[s] = place[s]
      BY <1>6 DEF LoadFails, Mishap, Return, Move, Runs, ReprocessTypeOK
    <3>2. ASSUME ~overlapped PROVE InSight(t)'
      <4>1. InSight(t)
        BY <3>2 DEF NothingOutOfSight
      <4>2. InHands(t)' = InHands(t) /\ Exited(t)' = Exited(t)
        BY <1>6 DEF LoadFails, Mishap, Return, Move, InHands, Exited
      <4> QED
        BY <1>6, <4>1, <4>2 DEF LoadFails, Mishap, Return, Move, ReprocessTypeOK, ThreadsAgree,
            InSight, Pending
    <3> QED
      BY <3>1, <3>2, OthersRest
  <2>7. ListIsKept'
    BY <1>6 DEF LoadFails, Mishap, Return, Move, ReprocessTypeOK, ListIsKept, Runs
  <2>8. SuccessIsWhole'
    BY <1>6 DEF LoadFails, Mishap, Return, Move, ReprocessTypeOK, SuccessIsWhole
  <2> QED
    BY <2>1, <2>2, <2>3, <2>4, <2>5, <2>6, <2>7, <2>8 DEF ReprocessInv
<1>7. CASE Spawn(t)
  <2>1. ReprocessTypeOK'
    <3>1. place' \in [Try -> TryPlaces] /\ verdict' \in [Try -> {"none", "ok", "canceled", "failed"}]
      BY <1>7 DEF Spawn, Move, ReprocessTypeOK, TryPlaces
    <3>2. enricher' \in [Try -> [Enricher -> {"off", "loop", "busy", "exited"}]]
      BY <1>7 DEF Spawn, ReprocessTypeOK
    <3>3. mishaps' \in Nat
      BY <1>7 DEF Spawn, Mishap, ReprocessTypeOK
    <3> QED
      BY <1>7, <3>1, <3>2, <3>3 DEF Spawn, ReprocessTypeOK
  <2>2. TriesInOrder'
    BY <1>7 DEF Spawn, Move, Mishap, ReprocessTypeOK, TriesInOrder
  <2>3. ThreadsAgree'
    <3>1. /\ popped' = popped /\ toPush' = toPush /\ place[t] = "spawn"
          /\ \A s \in Try : s # t => place'[s] = place[s] /\ enricher'[s] = enricher[s]
          /\ place'[t] \in {"drain", "stop"}
      BY <1>7 DEF Spawn, Move, ReprocessTypeOK
    <3>2. \A v \in Enricher : popped[t][v] = {}
      BY <1>7 DEF Spawn, ThreadsAgree, Threaded
    <3> QED
      BY <3>1, <3>2 DEF ThreadsAgree, Threaded
  <2>4. LookedAt'
    BY <1>7 DEF Spawn, Move, Mishap, ReprocessTypeOK, LookedAt, Exited
  <2>5. Alone'
    BY <1>7 DEF Spawn, Move, Mishap, ReprocessTypeOK, Alone, Runs
  <2>6. NothingOutOfSight'
    <3>1. Runs(t) /\ overlapped' = overlapped /\ \A s \in Try : s # t => place'[s] = place[s]
      BY <1>7 DEF Spawn, Move, Runs, ReprocessTypeOK
    <3>2. ASSUME ~overlapped PROVE InSight(t)'
      <4>1. Pending(t)
        BY <1>7, <3>2 DEF Spawn, NothingOutOfSight, InSight
      <4>2. InHands(t)' = InHands(t)
        BY <1>7 DEF Spawn, InHands
      <4>3. Pending(t)'
        BY <1>7, <4>1, <4>2 DEF Spawn, Pending
      <4>4. \/ place'[t] = "drain"
            \/ place'[t] = "stop" /\ verdict'[t] = "failed"
        BY <1>7 DEF Spawn, Move, ReprocessTypeOK
      <4> QED
        BY <4>3, <4>4 DEF InSight
    <3> QED
      BY <3>1, <3>2, OthersRest
  <2>7. ListIsKept'
    BY <1>7 DEF Spawn, Move, Mishap, ReprocessTypeOK, ListIsKept, Runs
  <2>8. SuccessIsWhole'
    BY <1>7 DEF Spawn, Move, Mishap, ReprocessTypeOK, SuccessIsWhole
  <2> QED
    BY <2>1, <2>2, <2>3, <2>4, <2>5, <2>6, <2>7, <2>8 DEF ReprocessInv
<1>8. CASE Look(t)
  <2>1. ReprocessTypeOK'
    BY <1>8 DEF Look, Return, Move, ReprocessTypeOK, TryPlaces
  <2>2. TriesInOrder'
    BY <1>8 DEF Look, Return, Move, ReprocessTypeOK, TriesInOrder
  <2>3. ThreadsAgree'
    <3>1. /\ enricher' = enricher /\ popped' = popped /\ toPush' = toPush
          /\ \A s \in Try : s # t => place'[s] = place[s]
          /\ place[t] = "drain" /\ place'[t] \in {"stop", "llen"}
      BY <1>8 DEF Look, Return, Move, ReprocessTypeOK
    <3> QED
      BY <3>1 DEF ThreadsAgree, Threaded
  <2>4. LookedAt'
    BY <1>8, ZenonT(60) DEF Look, Return, Move, ReprocessTypeOK, LookedAt, Exited
  <2>5. Alone'
    BY <1>8 DEF Look, Return, Move, ReprocessTypeOK, Alone, Runs
  <2>6. NothingOutOfSight'
    <3>1. Runs(t) /\ overlapped' = overlapped /\ \A s \in Try : s # t => place'[s] = place[s]
      BY <1>8 DEF Look, Return, Move, Runs, ReprocessTypeOK
    <3>2. ASSUME ~overlapped PROVE InSight(t)'
      <4>1. InSight(t)
        BY <3>2 DEF NothingOutOfSight
      <4>2. InHands(t)' = InHands(t) /\ Exited(t)' = Exited(t)
        BY <1>8 DEF Look, Return, Move, InHands, Exited
      <4> QED
        BY <1>8, <4>1, <4>2 DEF Look, Return, Move, ReprocessTypeOK, ThreadsAgree, InSight,
            Pending
    <3> QED
      BY <3>1, <3>2, OthersRest
  <2>7. ListIsKept'
    BY <1>8, ZenonT(60) DEF Look, Return, Move, ReprocessTypeOK, ListIsKept, Runs
  <2>8. SuccessIsWhole'
    BY <1>8 DEF Look, Return, Move, ReprocessTypeOK, SuccessIsWhole
  <2> QED
    BY <2>1, <2>2, <2>3, <2>4, <2>5, <2>6, <2>7, <2>8 DEF ReprocessInv
<1>9. CASE Length(t)
  <2>1. ReprocessTypeOK'
    BY <1>9 DEF Length, Move, ReprocessTypeOK, TryPlaces
  <2>2. TriesInOrder'
    BY <1>9 DEF Length, Move, ReprocessTypeOK, TriesInOrder
  <2>3. ThreadsAgree'
    BY <1>9 DEF Length, Move, ReprocessTypeOK, ThreadsAgree, Threaded
  <2>4. LookedAt'
    BY <1>9 DEF Length, Move, ReprocessTypeOK, LookedAt, Exited
  <2>5. Alone'
    BY <1>9 DEF Length, Move, ReprocessTypeOK, Alone, Runs
  <2>6. NothingOutOfSight'
    <3>1. Runs(t) /\ overlapped' = overlapped /\ \A s \in Try : s # t => place'[s] = place[s]
      BY <1>9 DEF Length, Move, Runs, ReprocessTypeOK
    <3>2. ASSUME ~overlapped PROVE InSight(t)'
      <4>1. Pending(t) \/ Exited(t)
        BY <1>9, <3>2 DEF Length, NothingOutOfSight, InSight
      <4>2. InHands(t)' = InHands(t) /\ Exited(t)' = Exited(t) /\ (Pending(t)' <=> Pending(t))
        BY <1>9 DEF Length, InHands, Exited, Pending
      <4>3. \/ place'[t] = "drain"
            \/ place'[t] = "stop" /\ list = <<>>
        BY <1>9 DEF Length, Move, ReprocessTypeOK
      <4>4. toPush[t] = {}
        BY <1>9 DEF Length, ThreadsAgree
      <4>5. ASSUME list = <<>>, t \notin diedLate PROVE selected[t] \subseteq enriched \cup InHands(t)
        <5>1. ToSet(list) = {}
          BY <4>5 DEF ToSet
        <5>2. Pending(t)
          BY <1>9, <4>1, <4>5 DEF Length, LookedAt
        <5> QED
          BY <4>4, <5>1, <5>2 DEF Pending
      <4>6. selected' = selected /\ enriched' = enriched /\ diedLate' = diedLate
        BY <1>9 DEF Length
      <4> QED
        BY <4>1, <4>2, <4>3, <4>5, <4>6 DEF InSight
    <3> QED
      BY <3>1, <3>2, OthersRest
  <2>7. ListIsKept'
    BY <1>9 DEF Length, Move, ReprocessTypeOK, ListIsKept, Runs
  <2>8. SuccessIsWhole'
    BY <1>9 DEF Length, Move, ReprocessTypeOK, SuccessIsWhole
  <2> QED
    BY <2>1, <2>2, <2>3, <2>4, <2>5, <2>6, <2>7, <2>8 DEF ReprocessInv
<1>10. CASE LengthFails(t)
  <2>1. ReprocessTypeOK'
    BY <1>10 DEF LengthFails, Mishap, Return, Move, ReprocessTypeOK, TryPlaces
  <2>2. TriesInOrder'
    BY <1>10 DEF LengthFails, Mishap, Return, Move, ReprocessTypeOK, TriesInOrder
  <2>3. ThreadsAgree'
    BY <1>10 DEF LengthFails, Mishap, Return, Move, ReprocessTypeOK, ThreadsAgree, Threaded
  <2>4. LookedAt'
    BY <1>10 DEF LengthFails, Mishap, Return, Move, ReprocessTypeOK, LookedAt, Exited
  <2>5. Alone'
    BY <1>10 DEF LengthFails, Mishap, Return, Move, ReprocessTypeOK, Alone, Runs
  <2>6. NothingOutOfSight'
    <3>1. Runs(t) /\ overlapped' = overlapped /\ \A s \in Try : s # t => place'[s] = place[s]
      BY <1>10 DEF LengthFails, Mishap, Return, Move, Runs, ReprocessTypeOK
    <3>2. ASSUME ~overlapped PROVE InSight(t)'
      <4>1. InSight(t)
        BY <3>2 DEF NothingOutOfSight
      <4>2. InHands(t)' = InHands(t) /\ Exited(t)' = Exited(t)
        BY <1>10 DEF LengthFails, Mishap, Return, Move, InHands, Exited
      <4> QED
        BY <1>10, <4>1, <4>2 DEF LengthFails, Mishap, Return, Move, ReprocessTypeOK,
            ThreadsAgree, InSight, Pending
    <3> QED
      BY <3>1, <3>2, OthersRest
  <2>7. ListIsKept'
    BY <1>10 DEF LengthFails, Mishap, Return, Move, ReprocessTypeOK, ListIsKept, Runs
  <2>8. SuccessIsWhole'
    BY <1>10 DEF LengthFails, Mishap, Return, Move, ReprocessTypeOK, SuccessIsWhole
  <2> QED
    BY <2>1, <2>2, <2>3, <2>4, <2>5, <2>6, <2>7, <2>8 DEF ReprocessInv
<1>11. CASE Join(t)
  <2>1. ReprocessTypeOK'
    BY <1>11 DEF Join, Return, Move, ReprocessTypeOK, TryPlaces
  <2>2. TriesInOrder'
    BY <1>11 DEF Join, Return, Move, ReprocessTypeOK, TriesInOrder
  <2>3. ThreadsAgree'
    BY <1>11 DEF Join, Return, Move, ReprocessTypeOK, ThreadsAgree, Threaded
  <2>4. LookedAt'
    BY <1>11 DEF Join, Return, Move, ReprocessTypeOK, LookedAt, Exited
  <2>5. Alone'
    BY <1>11 DEF Join, Return, Move, ReprocessTypeOK, Alone, Runs
  <2>6. NothingOutOfSight'
    <3>1. Runs(t) /\ overlapped' = overlapped /\ \A s \in Try : s # t => place'[s] = place[s]
      BY <1>11 DEF Join, Return, Move, Runs, ReprocessTypeOK
    <3>2. ASSUME ~overlapped PROVE InSight(t)'
      <4>1. InSight(t)
        BY <3>2 DEF NothingOutOfSight
      <4>2. InHands(t) = {}
        BY <1>11 DEF Join, ThreadsAgree, InHands
      <4>3. place'[t] \in {"discard", "report"} /\ verdict'[t] = verdict[t] /\ place[t] = "stop"
        BY <1>11 DEF Join, Return, Move, ReprocessTypeOK
      <4>4. selected' = selected /\ enriched' = enriched /\ diedLate' = diedLate
        BY <1>11 DEF Join, Return, past
      <4> QED
        BY <4>1, <4>2, <4>3, <4>4 DEF InSight
    <3> QED
      BY <3>1, <3>2, OthersRest
  <2>7. ListIsKept'
    BY <1>11 DEF Join, Return, Move, ReprocessTypeOK, ListIsKept, Runs
  <2>8. SuccessIsWhole'
    BY <1>11 DEF Join, Return, Move, ReprocessTypeOK, SuccessIsWhole
  <2> QED
    BY <2>1, <2>2, <2>3, <2>4, <2>5, <2>6, <2>7, <2>8 DEF ReprocessInv
<1>12. CASE Discard(t)
  <2>1. ReprocessTypeOK'
    BY <1>12 DEF Discard, Move, ReprocessTypeOK, TryPlaces
  <2>2. TriesInOrder'
    BY <1>12 DEF Discard, Move, ReprocessTypeOK, TriesInOrder
  <2>3. ThreadsAgree'
    BY <1>12 DEF Discard, Move, ReprocessTypeOK, ThreadsAgree, Threaded
  <2>4. LookedAt'
    BY <1>12 DEF Discard, Move, ReprocessTypeOK, LookedAt, Exited
  <2>5. Alone'
    BY <1>12 DEF Discard, Move, ReprocessTypeOK, Alone, Runs
  <2>6. NothingOutOfSight'
    <3>1. Runs(t) /\ overlapped' = overlapped /\ \A s \in Try : s # t => place'[s] = place[s]
      BY <1>12 DEF Discard, Move, Runs, ReprocessTypeOK
    <3>2. ASSUME ~overlapped PROVE InSight(t)'
      <4>1. InSight(t)
        BY <3>2 DEF NothingOutOfSight
      <4>2. InHands(t)' = InHands(t) /\ Exited(t)' = Exited(t)
        BY <1>12 DEF Discard, Move, InHands, Exited
      <4> QED
        BY <1>12, <4>1, <4>2 DEF Discard, Move, ReprocessTypeOK, ThreadsAgree, InSight, Pending
    <3> QED
      BY <3>1, <3>2, OthersRest
  <2>7. ListIsKept'
    BY <1>12 DEF Discard, Move, ReprocessTypeOK, ListIsKept, Runs
  <2>8. SuccessIsWhole'
    BY <1>12 DEF Discard, Move, ReprocessTypeOK, SuccessIsWhole
  <2> QED
    BY <2>1, <2>2, <2>3, <2>4, <2>5, <2>6, <2>7, <2>8 DEF ReprocessInv
<1>13. CASE DiscardFails(t)
  <2>1. ReprocessTypeOK'
    BY <1>13 DEF DiscardFails, Move, Mishap, ReprocessTypeOK, TryPlaces
  <2>2. TriesInOrder'
    BY <1>13 DEF DiscardFails, Move, Mishap, ReprocessTypeOK, TriesInOrder
  <2>3. ThreadsAgree'
    BY <1>13 DEF DiscardFails, Move, Mishap, ReprocessTypeOK, ThreadsAgree, Threaded
  <2>4. LookedAt'
    BY <1>13 DEF DiscardFails, Move, Mishap, ReprocessTypeOK, LookedAt, Exited
  <2>5. Alone'
    BY <1>13 DEF DiscardFails, Move, Mishap, ReprocessTypeOK, Alone, Runs
  <2>6. NothingOutOfSight'
    <3>1. Runs(t) /\ overlapped' = overlapped /\ \A s \in Try : s # t => place'[s] = place[s]
      BY <1>13 DEF DiscardFails, Move, Mishap, Runs, ReprocessTypeOK
    <3>2. ASSUME ~overlapped PROVE InSight(t)'
      <4>1. InSight(t)
        BY <3>2 DEF NothingOutOfSight
      <4>2. InHands(t)' = InHands(t) /\ Exited(t)' = Exited(t)
        BY <1>13 DEF DiscardFails, Move, Mishap, InHands, Exited
      <4> QED
        BY <1>13, <4>1, <4>2 DEF DiscardFails, Move, Mishap, ReprocessTypeOK, ThreadsAgree,
            InSight, Pending
    <3> QED
      BY <3>1, <3>2, OthersRest
  <2>7. ListIsKept'
    BY <1>13 DEF DiscardFails, Move, Mishap, ReprocessTypeOK, ListIsKept, Runs
  <2>8. SuccessIsWhole'
    BY <1>13 DEF DiscardFails, Move, Mishap, ReprocessTypeOK, SuccessIsWhole
  <2> QED
    BY <2>1, <2>2, <2>3, <2>4, <2>5, <2>6, <2>7, <2>8 DEF ReprocessInv
<1>14. CASE Report(t)
  <2>1. ReprocessTypeOK'
    BY <1>14 DEF Report, Record, Forget, Move, ReprocessTypeOK, TryPlaces
  <2>2. TriesInOrder'
    BY <1>14 DEF Report, Record, Forget, Move, ReprocessTypeOK, TriesInOrder
  <2>3. ThreadsAgree'
    BY <1>14 DEF Report, Record, Forget, Move, ReprocessTypeOK, ThreadsAgree, Threaded
  <2>4. LookedAt'
    BY <1>14 DEF Report, Record, Forget, Move, ReprocessTypeOK, LookedAt, Exited
  <2>5. Alone'
    BY <1>14 DEF Report, Record, Forget, Move, ReprocessTypeOK, Alone, Runs
  <2>6. NothingOutOfSight'
    <3>1. /\ Runs(t) /\ overlapped' = overlapped /\ \A s \in Try : s # t => place'[s] = place[s]
          /\ place'[t] = "ended"
      BY <1>14 DEF Report, Record, Forget, Move, Runs, ReprocessTypeOK
    <3>2. InSight(t)'
      BY <3>1 DEF InSight
    <3> QED
      BY <3>1, <3>2, OthersRest
  <2>7. SuccessIsWhole'
    <3> SUFFICES ASSUME NEW s \in Try, outcome'[s] = "ok", s \notin diedLate, ~overlapped
                 PROVE  selected[s] \subseteq enriched
      BY <1>14 DEF Report, SuccessIsWhole
    <3>1. CASE s = t
      <4>1. verdict[t] = "ok" /\ place[t] = "report"
        BY <1>14, <3>1 DEF Report, Record, ReprocessTypeOK
      <4> QED
        BY <3>1, <4>1 DEF NothingOutOfSight, InSight
    <3>2. CASE s # t
      BY <1>14, <3>2 DEF Report, Record, ReprocessTypeOK, SuccessIsWhole
    <3> QED
      BY <3>1, <3>2
  <2>8. ListIsKept'
    BY <1>14 DEF Report, Record, Forget, Move, ReprocessTypeOK, ListIsKept, Runs
  <2> QED
    BY <2>1, <2>2, <2>3, <2>4, <2>5, <2>6, <2>7, <2>8 DEF ReprocessInv
<1>15. CASE Kill(t)
  <2>1. ReprocessTypeOK'
    BY <1>15 DEF Kill, Forget, Move, Mishap, Runs, ReprocessTypeOK, TryPlaces
  <2>2. TriesInOrder'
    BY <1>15 DEF Kill, Forget, Move, Mishap, Runs, ReprocessTypeOK, TriesInOrder
  <2>3. ThreadsAgree'
    BY <1>15 DEF Kill, Forget, Move, Mishap, Runs, ReprocessTypeOK, ThreadsAgree, Threaded
  <2>4. LookedAt'
    BY <1>15 DEF Kill, Forget, Move, Mishap, Runs, ReprocessTypeOK, LookedAt, Exited
  <2>5. Alone'
    BY <1>15 DEF Kill, Forget, Move, Mishap, Runs, ReprocessTypeOK, Alone
  <2>6. NothingOutOfSight'
    <3>1. /\ Runs(t) /\ overlapped' = overlapped /\ \A s \in Try : s # t => place'[s] = place[s]
          /\ place'[t] = "ended"
      BY <1>15 DEF Kill, Forget, Move, Runs, ReprocessTypeOK
    <3>2. InSight(t)'
      BY <3>1 DEF InSight
    <3> QED
      BY <3>1, <3>2, OthersRest
  <2>7. ListIsKept'
    <3>1. /\ list' = list /\ owned' = owned /\ begun' = begun /\ outcome' = outcome
          /\ \A s \in Try : place'[s] = IF s = t THEN "ended" ELSE place[s]
          /\ ~leaked' => ~leaked /\ t = begun
          /\ outcome[t] = "none"
      BY <1>15 DEF Kill, Forget, Move, Runs, ReprocessTypeOK, TriesInOrder
    <3> QED
      BY <3>1 DEF ListIsKept
  <2>8. SuccessIsWhole'
    BY <1>15 DEF Kill, Forget, Move, Mishap, Runs, ReprocessTypeOK, SuccessIsWhole
  <2> QED
    BY <2>1, <2>2, <2>3, <2>4, <2>5, <2>6, <2>7, <2>8 DEF ReprocessInv
<1>16. ASSUME NEW f \in {"cancel", "shutdown"}, Flag(t, f) PROVE ReprocessInv'
  <2>1. ReprocessTypeOK'
    BY <1>16 DEF Flag, Runs, ReprocessTypeOK, TryPlaces
  <2>2. TriesInOrder'
    BY <1>16 DEF Flag, TriesInOrder
  <2>3. ThreadsAgree'
    BY <1>16 DEF Flag, ThreadsAgree
  <2>4. LookedAt'
    BY <1>16 DEF Flag, LookedAt, Exited
  <2>5. Alone'
    BY <1>16 DEF Flag, Alone, Runs
  <2>6. NothingOutOfSight'
    BY <1>16 DEF Flag, NothingOutOfSight, InSight, Pending, InHands, Exited
  <2>7. SuccessIsWhole'
    BY <1>16 DEF Flag, SuccessIsWhole
  <2>8. ListIsKept'
    BY <1>16 DEF Flag, ListIsKept, Runs
  <2> QED
    BY <2>1, <2>2, <2>3, <2>4, <2>5, <2>6, <2>7, <2>8 DEF ReprocessInv
<1> QED
  BY <1>1, <1>2, <1>3, <1>4, <1>5, <1>6, <1>7, <1>8, <1>9, <1>10, <1>11, <1>12, <1>13,
      <1>14, <1>15, <1>16 DEF Body

\* A step of a thread of a try keeps it.
LEMMA ThreadStep ==
  ASSUME ReprocessInv, NEW t \in Try, NEW w \in Enricher, Thread(t, w)
  PROVE  ReprocessInv'
<1> USE ReprocessFacts DEF ReprocessInv, params, try, threads, past
<1>1. CASE Pop(t, w)
  <2>1. ReprocessTypeOK'
    <3>1. list' \in Seq(Candid) /\ ToSet(Taken) \in SUBSET Candid
      BY <1>1, PopProps DEF Pop, ReprocessTypeOK
    <3>2. enricher' \in [Try -> [Enricher -> {"off", "loop", "busy", "exited"}]]
      BY <1>1 DEF Pop, Set, ReprocessTypeOK
    <3>3. popped' \in [Try -> [Enricher -> SUBSET Candid]]
      BY <1>1, <3>1 DEF Pop, Set, ReprocessTypeOK
    <3> QED
      BY <1>1, <3>1, <3>2, <3>3 DEF Pop, ReprocessTypeOK
  <2>2. ThreadsAgree'
    BY <1>1 DEF Pop, Set, ReprocessTypeOK, ThreadsAgree, Threaded
  <2>3. LookedAt'
    BY <1>1 DEF Pop, Set, ReprocessTypeOK, LookedAt, Exited
  <2>4. NothingOutOfSight'
    <3>1. Runs(t) /\ place[t] \in Threaded
      BY <1>1, ThreadRuns DEF Pop
    <3>2. ASSUME ~overlapped PROVE InSight(t)'
      <4>1. InSight(t)
        BY <3>2 DEF NothingOutOfSight
      <4>2. popped[t][w] = {} /\ ToSet(Taken) \in SUBSET Candid /\ ToSet(list) = ToSet(list') \cup ToSet(Taken)
        BY <1>1, PopProps DEF Pop, ReprocessTypeOK, ThreadsAgree
      <4>3. InHands(t)' = ToSet(Taken) \cup InHands(t)
        <5>1. popped'[t][w] = ToSet(Taken) /\ \A v \in Enricher : v # w => popped'[t][v] = popped[t][v]
          BY <1>1 DEF Pop, Set, ReprocessTypeOK
        <5> QED
          BY <4>2, <5>1, HandsProps
      <4>4. Exited(t) => Exited(t)'
        BY <1>1 DEF Pop, Set, Exited, ReprocessTypeOK
      <4>5. Pending(t) => Pending(t)'
        BY <1>1, <4>2, <4>3 DEF Pop, Pending
      <4> QED
        BY <1>1, <4>1, <4>3, <4>4, <4>5 DEF Pop, InSight
    <3>3. overlapped' = overlapped /\ place' = place
      BY <1>1 DEF Pop
    <3> QED
      BY <3>1, <3>2, <3>3, OthersRest
  <2>5. ListIsKept'
    BY <1>1 DEF Pop, Set, ReprocessTypeOK, ListIsKept, Runs
  <2>6. TriesInOrder' /\ Alone' /\ SuccessIsWhole'
    BY <1>1 DEF Pop, Set, ReprocessTypeOK, TriesInOrder, Alone, Runs, SuccessIsWhole
  <2> QED
    BY <2>1, <2>2, <2>3, <2>4, <2>5, <2>6 DEF ReprocessInv
<1>2. CASE Process(t, w)
  <2>1. ReprocessTypeOK'
    BY <1>2 DEF Process, Set, ReprocessTypeOK, TryPlaces
  <2>2. ThreadsAgree'
    BY <1>2 DEF Process, Set, ReprocessTypeOK, ThreadsAgree, Threaded
  <2>3. LookedAt'
    BY <1>2 DEF Process, Set, ReprocessTypeOK, LookedAt, Exited
  <2>4. NothingOutOfSight'
    <3>1. Runs(t) /\ place[t] \in Threaded
      BY <1>2, ThreadRuns DEF Process
    <3>2. ASSUME ~overlapped PROVE InSight(t)'
      <4>1. InSight(t)
        BY <3>2 DEF NothingOutOfSight
      <4>2. InHands(t) \subseteq popped[t][w] \cup InHands(t)'
        <5>1. \A v \in Enricher : v # w => popped'[t][v] = popped[t][v]
          BY <1>2 DEF Process, Set, ReprocessTypeOK
        <5> QED
          BY <5>1, HandsProps
      <4>3. enriched' = enriched \cup popped[t][w]
        BY <1>2 DEF Process
      <4>4. Exited(t) => Exited(t)'
        BY <1>2 DEF Process, Set, Exited, ReprocessTypeOK
      <4>5. Pending(t) => Pending(t)'
        BY <1>2, <4>2, <4>3 DEF Process, Pending
      <4> QED
        BY <1>2, <4>1, <4>2, <4>3, <4>4, <4>5 DEF Process, InSight
    <3>3. overlapped' = overlapped /\ place' = place
      BY <1>2 DEF Process
    <3> QED
      BY <3>1, <3>2, <3>3, OthersRest
  <2>5. SuccessIsWhole'
    BY <1>2 DEF Process, Set, ReprocessTypeOK, SuccessIsWhole
  <2>6. ListIsKept'
    BY <1>2 DEF Process, Set, ReprocessTypeOK, ListIsKept, Runs
  <2>7. TriesInOrder' /\ Alone'
    BY <1>2 DEF Process, Set, ReprocessTypeOK, TriesInOrder, Alone, Runs
  <2> QED
    BY <2>1, <2>2, <2>3, <2>4, <2>5, <2>6, <2>7 DEF ReprocessInv
<1>3. CASE Terminate(t, w)
  <2>1. ReprocessTypeOK'
    BY <1>3 DEF Terminate, Set, ReprocessTypeOK, TryPlaces
  <2>2. ThreadsAgree'
    BY <1>3 DEF Terminate, Set, ReprocessTypeOK, ThreadsAgree, Threaded
  <2>3. LookedAt'
    BY <1>3 DEF Terminate, Set, ReprocessTypeOK, LookedAt, Exited
  <2>4. NothingOutOfSight'
    <3>1. Runs(t) /\ place[t] \in Threaded
      BY <1>3, ThreadRuns DEF Terminate
    <3>2. ASSUME ~overlapped PROVE InSight(t)'
      <4>1. InSight(t)
        BY <3>2 DEF NothingOutOfSight
      <4>2. InHands(t)' = InHands(t)
        <5>1. /\ popped[t][w] = {} /\ popped'[t][w] = {}
              /\ \A v \in Enricher : v # w => popped'[t][v] = popped[t][v]
          BY <1>3, ZenonT(60) DEF Terminate, Set, ReprocessTypeOK, ThreadsAgree
        <5> QED
          BY <5>1, HandsProps
      <4> QED
        BY <1>3, <4>1, <4>2 DEF Terminate, InSight
    <3>3. overlapped' = overlapped /\ place' = place
      BY <1>3 DEF Terminate
    <3> QED
      BY <3>1, <3>2, <3>3, OthersRest
  <2>5. TriesInOrder' /\ Alone' /\ SuccessIsWhole' /\ ListIsKept'
    BY <1>3 DEF Terminate, Set, ReprocessTypeOK, TriesInOrder, Alone, Runs, SuccessIsWhole,
        ListIsKept
  <2> QED
    BY <2>1, <2>2, <2>3, <2>4, <2>5 DEF ReprocessInv
<1>4. CASE ThreadFails(t, w)
  <2>1. ReprocessTypeOK'
    <3>1. list' \in Seq(Candid)
      BY <1>4, PopProps DEF ThreadFails, ReprocessTypeOK
    <3>2. enricher' \in [Try -> [Enricher -> {"off", "loop", "busy", "exited"}]]
      BY <1>4 DEF ThreadFails, Set, ReprocessTypeOK
    <3>3. popped' \in [Try -> [Enricher -> SUBSET Candid]]
      BY <1>4 DEF ThreadFails, Set, ReprocessTypeOK
    <3>4. enriched' \subseteq Candid
      <4>1. popped[t][w] \subseteq Candid
        BY DEF ReprocessTypeOK
      <4> QED
        BY <1>4, <4>1 DEF ThreadFails, ReprocessTypeOK
    <3>5. mishaps' \in Nat /\ diedLate' \subseteq Try
      BY <1>4 DEF ThreadFails, Mishap, ReprocessTypeOK
    <3> QED
      BY <1>4, <3>1, <3>2, <3>3, <3>4, <3>5 DEF ThreadFails, ReprocessTypeOK
  <2>2. ThreadsAgree'
    BY <1>4 DEF ThreadFails, Set, Mishap, ReprocessTypeOK, ThreadsAgree, Threaded
  <2>3. LookedAt'
    BY <1>4 DEF ThreadFails, Set, Mishap, ReprocessTypeOK, LookedAt, Exited
  <2>4. NothingOutOfSight'
    <3>1. Runs(t) /\ place[t] \in Threaded
      BY <1>4, ThreadRuns DEF ThreadFails
    <3>2. ASSUME ~overlapped PROVE InSight(t)'
      <4>1. InSight(t)
        BY <3>2 DEF NothingOutOfSight
      <4>2. enricher'[t][w] = "exited"
        BY <1>4 DEF ThreadFails, Set, ReprocessTypeOK
      <4>3. Exited(t)'
        BY <4>2 DEF Exited
      <4>4. enriched \subseteq enriched' /\ diedLate \subseteq diedLate'
        BY <1>4 DEF ThreadFails
      <4>5. place[t] = "stop" => t \in diedLate'
        BY <1>4 DEF ThreadFails
      <4> QED
        BY <1>4, <3>1, <4>1, <4>3, <4>4, <4>5 DEF ThreadFails, InSight, Threaded
    <3>3. overlapped' = overlapped /\ place' = place
      BY <1>4 DEF ThreadFails
    <3> QED
      BY <3>1, <3>2, <3>3, OthersRest
  <2>5. SuccessIsWhole'
    BY <1>4 DEF ThreadFails, Set, Mishap, ReprocessTypeOK, SuccessIsWhole
  <2>6. ListIsKept'
    <3>1. list = <<>> => list' = <<>>
      BY <1>4, PopProps DEF ThreadFails, ReprocessTypeOK
    <3> QED
      BY <1>4, <3>1 DEF ThreadFails, ListIsKept, Runs
  <2>7. TriesInOrder' /\ Alone'
    BY <1>4 DEF ThreadFails, Set, Mishap, ReprocessTypeOK, TriesInOrder, Alone, Runs
  <2> QED
    BY <2>1, <2>2, <2>3, <2>4, <2>5, <2>6, <2>7 DEF ReprocessInv
<1> QED
  BY <1>1, <1>2, <1>3, <1>4 DEF Thread

\* Every step keeps it.
LEMMA ReprocessStep == ReprocessInv /\ [ReprocessNext]_reprocessVars => ReprocessInv'
<1> SUFFICES ASSUME ReprocessInv, [ReprocessNext]_reprocessVars PROVE ReprocessInv'
  OBVIOUS
<1>1. CASE ReprocessNext
  BY <1>1, TryStep, ThreadStep DEF ReprocessNext
<1>2. CASE UNCHANGED reprocessVars
  <2> USE DEF reprocessVars, params, try, threads, past
  <2>1. ReprocessTypeOK' /\ TriesInOrder' /\ ThreadsAgree' /\ LookedAt' /\ Alone'
    BY <1>2 DEF ReprocessInv, ReprocessTypeOK, TriesInOrder, ThreadsAgree, LookedAt, Alone, Exited, Runs
  <2>2. NothingOutOfSight' /\ SuccessIsWhole' /\ ListIsKept'
    BY <1>2 DEF ReprocessInv, NothingOutOfSight, InSight, SuccessIsWhole, ListIsKept, Pending, InHands, Exited, Runs
  <2> QED
    BY <2>1, <2>2 DEF ReprocessInv
<1> QED
  BY <1>1, <1>2

\* It holds when the run is submitted.
LEMMA ReprocessStart == ReprocessInit => ReprocessInv
<1> SUFFICES ASSUME ReprocessInit PROVE ReprocessInv
  OBVIOUS
<1> USE ReprocessFacts DEF ReprocessInit
<1>1. ReprocessTypeOK
  <2>1. list \in Seq(Candid)
    BY SetToSeqProps
  <2>2. /\ place \in [Try -> TryPlaces] /\ flag \in [Try -> {"none", "cancel", "shutdown"}]
        /\ verdict \in [Try -> {"none", "ok", "canceled", "failed"}]
        /\ outcome \in [Try -> {"none", "ok", "canceled", "failed", "lost", "released"}]
    BY DEF TryPlaces
  <2>3. /\ selected \in [Try -> SUBSET Candid] /\ toPush \in [Try -> SUBSET Candid]
        /\ popped \in [Try -> [Enricher -> SUBSET Candid]]
    OBVIOUS
  <2>4. enricher \in [Try -> [Enricher -> {"off", "loop", "busy", "exited"}]]
    OBVIOUS
  <2> QED
    BY <2>1, <2>2, <2>3, <2>4 DEF ReprocessTypeOK
<1>2. TriesInOrder /\ ThreadsAgree /\ LookedAt /\ Alone
  BY DEF TriesInOrder, ThreadsAgree, LookedAt, Alone, Exited, Runs
<1>3. NothingOutOfSight /\ SuccessIsWhole /\ ListIsKept
  BY DEF NothingOutOfSight, InSight, SuccessIsWhole, ListIsKept
<1> QED
  BY <1>1, <1>2, <1>3 DEF ReprocessInv

\* ReprocessInv is an inductive invariant: for every set of alerts, number of threads and of
\* tries, and all mishaps.
THEOREM ReprocessInvariant == ReprocessSpec => []ReprocessInv
BY ReprocessStart, ReprocessStep, PTL DEF ReprocessSpec

\* A run that run() reports as a success has enriched every alert that it had put on its
\* list, also when an earlier try was killed with batches in hand.
THEOREM SuccessStaysWhole == ReprocessSpec => []SuccessIsWhole
<1>1. ReprocessInv => SuccessIsWhole
  BY DEF ReprocessInv
<1> QED
  BY <1>1, ReprocessInvariant, PTL

\* The list of a run does not outlive it: discard_queue leaves nothing on it, however the
\* run ended.
THEOREM ListIsDiscarded == ReprocessSpec => []QueueIsDiscarded
<1>1. ReprocessInv => QueueIsDiscarded
  BY DEF ReprocessInv, ListIsKept, QueueIsDiscarded
<1> QED
  BY <1>1, ReprocessInvariant, PTL
=============================================================================
