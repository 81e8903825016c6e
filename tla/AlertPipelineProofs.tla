------------------------ MODULE AlertPipelineProofs ------------------------
(***************************************************************************)
(* Proofs about AlertPipeline, for every topic, every number of workers    *)
(* and every number of faults of every kind.                               *)
(***************************************************************************)
EXTENDS AlertPipeline, FiniteSetTheorems, TLAPS

\* An operation may be applied once.
LEMMA OneAttempt == 1 \in 1 .. MaxAttempts
  BY AttemptsAssumption

----------------------------------------------------------------------------
(* Lists as bags.                                                          *)

\* Putting copies of an alert on a list.
LEMMA PutProps ==
  ASSUME NEW b \in Bag, NEW a \in Alert, NEW n \in 1 .. MaxAttempts
  PROVE  /\ Put(b, a, n) \in Bag
         /\ Put(b, a, n)[a] > 0
         /\ \A c \in Alert : b[c] > 0 => Put(b, a, n)[c] > 0
         /\ \A c \in Alert : Put(b, a, n)[c] > 0 => c = a \/ b[c] > 0
  BY DEF Bag, Put

\* Taking copies of an alert off a list leaves the others.
LEMMA TakeProps ==
  ASSUME NEW b \in Bag, NEW a \in Alert, NEW n \in 1 .. MaxAttempts
  PROVE  /\ Take(b, a, n) \in Bag
         /\ \A c \in Alert \ {a} : Take(b, a, n)[c] = b[c]
         /\ \A c \in Alert : Take(b, a, n)[c] > 0 => b[c] > 0
  BY DEF Bag, Take

\* Pushing a batch.
LEMMA PutAllProps ==
  ASSUME NEW b \in Bag, NEW S \in SUBSET Alert, NEW n \in 1 .. MaxAttempts
  PROVE  /\ PutAll(b, S, n) \in Bag
         /\ \A c \in Alert : PutAll(b, S, n)[c] > 0 => c \in S \/ b[c] > 0
  BY DEF Bag, PutAll

\* Popping a batch.
LEMMA TakeAllProps ==
  ASSUME NEW b \in Bag, NEW S \in Batch(b)
  PROVE  /\ S \in SUBSET Alert
         /\ \A c \in S : b[c] > 0
         /\ TakeAll(b, S) \in Bag
         /\ \A c \in Alert : TakeAll(b, S)[c] > 0 => b[c] > 0
<1>1. S \in SUBSET Alert /\ \A c \in S : b[c] > 0
  BY DEF Batch
<1> QED
  BY <1>1 DEF Bag, TakeAll

\* A fault is added to the log, and the bound holds.
LEMMA FaultTyped ==
  ASSUME faults \in FaultLog, NEW kind, Fault(kind)
  PROVE  faults' \in FaultLog
<1>1. kind \in FaultKind /\ faults \in Seq(FaultKind) /\ Len(faults) < MaxFaults
  BY FaultAssumption DEF Fault, FaultLog
<1>2. faults' = Append(faults, kind)
  BY DEF Fault
<1> QED
  BY <1>1, <1>2, FaultAssumption DEF FaultLog

----------------------------------------------------------------------------
(* Typing.                                                                 *)

\* Every step keeps the state well typed.
LEMMA TypeStep == IInv /\ [Next]_vars => TypeOK'
<1> SUFFICES ASSUME IInv, [Next]_vars PROVE TypeOK'
  OBVIOUS
<1>0. TypeOK /\ ConsumerInv /\ WorkerInv
  BY DEF IInv
<1>01. Empty \in Bag /\ 1 \in 1 .. MaxAttempts
  BY OneAttempt DEF Empty, Bag
<1>02. \A kind : Fault(kind) => faults' \in FaultLog
  BY <1>0, FaultTyped DEF TypeOK
<1> USE <1>0, <1>01, <1>02, MessageAssumption, AttemptsAssumption
    DEF TypeOK, vars, consumer, database, workers, downstream, Applied
<1>1. CASE Consume
  <2>1. CASE ConsumerStart
    BY <2>1 DEF ConsumerStart
  <2>2. CASE Poll
    BY <2>2 DEF Poll
  <2>3. ASSUME cpc = "push" PROVE AlertAt[position - 1] \in Alert
    BY <2>3 DEF ConsumerInv
  <2>4. ASSUME NEW n \in 1 .. MaxAttempts, Push(n) PROVE TypeOK'
    <3>1. Put(input, AlertAt[position - 1], n) \in Bag
      BY <2>4, <2>3, PutProps DEF Push
    <3> QED
      BY <2>4, <3>1 DEF Push
  <2>5. CASE StoreOffset
    BY <2>5 DEF StoreOffset
  <2>6. CASE AutoCommit
    BY <2>6 DEF AutoCommit, Storable
  <2>7. CASE ConsumerDies
    BY <2>7, <2>3, PutProps DEF ConsumerDies
  <2> QED
    BY <1>1, <2>1, <2>2, <2>4, <2>5, <2>6, <2>7 DEF Consume
<1>2. ASSUME NEW w \in AlertWorker, AlertStep(w) PROVE TypeOK'
  <2> USE DEF Goto, Drop
  <2>0. apc[w] \notin {"down", "idle"} => held[w] \in Alert
    BY DEF WorkerInv
  <2>1. ASSUME NEW a \in Alert, Retrieve(w, a) \/ RetrieveLost(w, a) PROVE TypeOK'
    <3>1. Take(input, a, 1) \in Bag /\ Put(temp, a, 1) \in Bag
      BY TakeProps, PutProps
    <3> QED
      BY <2>1, <3>1 DEF Retrieve, RetrieveLost
  <2>2. CASE CheckExists(w)
    BY <2>2 DEF CheckExists
  <2>3. CASE WriteAux(w) \/ WriteCutouts(w) \/ InsertAlert(w)
    BY <2>3, <2>0 DEF WriteAux, WriteCutouts, InsertAlert
  <2>4. CASE ProcessError(w)
    BY <2>4, <2>0 DEF ProcessError
  <2>5. ASSUME NEW n \in 1 .. MaxAttempts, PushCandid(w, n) PROVE TypeOK'
    BY <2>5, <2>0, PutProps DEF PushCandid
  <2>6. ASSUME NEW n \in 1 .. MaxAttempts, RemoveFromTemp(w, n) PROVE TypeOK'
    BY <2>6, <2>0, TakeProps DEF RemoveFromTemp
  <2>7. CASE AlertWorkerDies(w)
    BY <2>7 DEF AlertWorkerDies
  <2> QED
    BY <1>2, <2>1, <2>2, <2>3, <2>4, <2>5, <2>6, <2>7 DEF AlertStep
<1>3. ASSUME NEW e \in EnrichmentWorker, EnrichmentStep(e) PROVE TypeOK'
  <2>1. ASSUME NEW S \in SUBSET Alert, PopCandids(e, S) \/ PopCandidsLost(e, S)
        PROVE TypeOK'
    <3>1. TakeAll(enrichment_queue, S) \in Bag
      BY <2>1, TakeAllProps DEF PopCandids, PopCandidsLost
    <3>2. CASE PopCandids(e, S)
      BY <3>1, <3>2 DEF PopCandids
    <3>3. CASE PopCandidsLost(e, S)
      BY <3>1, <3>3 DEF PopCandidsLost
    <3> QED
      BY <2>1, <3>2, <3>3
  <2>2. ASSUME NEW S \in SUBSET Alert, Enrich(e, S) PROVE TypeOK'
    BY <2>2 DEF Enrich
  <2>3. ASSUME NEW n \in 1 .. MaxAttempts, PushEnriched(e, n) PROVE TypeOK'
    <3>1. PutAll(filter_queue, ebatch[e], n) \in Bag
      BY PutAllProps
    <3> QED
      BY <2>3, <3>1 DEF PushEnriched
  <2>4. CASE EnrichmentWorkerDies(e)
    BY <2>4 DEF EnrichmentWorkerDies
  <2> QED
    BY <1>3, <2>1, <2>2, <2>3, <2>4 DEF EnrichmentStep
<1>4. ASSUME NEW f \in FilterWorker, FilterStep(f) PROVE TypeOK'
  <2>1. ASSUME NEW S \in SUBSET Alert, PopEnriched(f, S) \/ PopEnrichedLost(f, S)
        PROVE TypeOK'
    <3>1. TakeAll(filter_queue, S) \in Bag
      BY <2>1, TakeAllProps DEF PopEnriched, PopEnrichedLost
    <3>2. CASE PopEnriched(f, S)
      BY <3>1, <3>2 DEF PopEnriched
    <3>3. CASE PopEnrichedLost(f, S)
      BY <3>1, <3>3 DEF PopEnrichedLost
    <3> QED
      BY <2>1, <3>2, <3>3
  <2>2. ASSUME NEW S \in SUBSET Alert, RunFilters(f, S) PROVE TypeOK'
    BY <2>2 DEF RunFilters
  <2>3. ASSUME NEW S \in SUBSET Alert, SendMatches(f, S) PROVE TypeOK'
    BY <2>3 DEF SendMatches
  <2>4. CASE FilterWorkerDies(f)
    BY <2>4 DEF FilterWorkerDies
  <2> QED
    BY <1>4, <2>1, <2>2, <2>3, <2>4 DEF FilterStep
<1>5. CASE Schedule
  <2>1. CASE SchedulerStart
    BY <2>1 DEF SchedulerStart
  <2>2. ASSUME NEW a \in Alert, Recover(a) PROVE TypeOK'
    <3>1. Take(temp, a, 1) \in Bag /\ Put(input, a, 1) \in Bag
      BY TakeProps, PutProps
    <3> QED
      BY <2>2, <3>1 DEF Recover
  <2>3. CASE StartWorkers
    BY <2>3 DEF StartWorkers
  <2>4. CASE Respawn
    BY <2>4 DEF Respawn
  <2>5. CASE SchedulerDies
    BY <2>5 DEF SchedulerDies
  <2> QED
    BY <1>5, <2>1, <2>2, <2>3, <2>4, <2>5 DEF Schedule
<1>6. CASE UNCHANGED vars
  BY <1>6
<1> QED
  BY <1>1, <1>2, <1>3, <1>4, <1>5, <1>6 DEF Next

----------------------------------------------------------------------------
(* What grows, and what stays safe.                                        *)

\* Nothing is ever deleted from the database, and what has been filtered stays
\* filtered.
LEMMA DatabaseGrows ==
  [Next]_vars => /\ alerts \subseteq alerts' /\ aux \subseteq aux'
                 /\ cutouts \subseteq cutouts' /\ enriched \subseteq enriched'
                 /\ filtered \subseteq filtered'
<1> SUFFICES ASSUME [Next]_vars
             PROVE  /\ alerts \subseteq alerts' /\ aux \subseteq aux'
                    /\ cutouts \subseteq cutouts' /\ enriched \subseteq enriched'
                    /\ filtered \subseteq filtered'
  OBVIOUS
<1> USE DEF vars, consumer, database, workers, downstream
<1>1. CASE Consume
  BY <1>1 DEF Consume, ConsumerStart, Poll, Push, StoreOffset, AutoCommit, ConsumerDies
<1>2. ASSUME NEW w \in AlertWorker, AlertStep(w)
      PROVE  /\ alerts \subseteq alerts' /\ aux \subseteq aux' /\ cutouts \subseteq cutouts'
             /\ UNCHANGED <<enriched, filtered>>
  BY <1>2 DEF AlertStep, Retrieve, RetrieveLost, CheckExists, WriteAux, WriteCutouts,
              InsertAlert, ProcessError, PushCandid, RemoveFromTemp, AlertWorkerDies
<1>3. ASSUME NEW e \in EnrichmentWorker, EnrichmentStep(e)
      PROVE  enriched \subseteq enriched' /\ UNCHANGED <<alerts, aux, cutouts, filtered>>
  BY <1>3 DEF EnrichmentStep, PopCandids, PopCandidsLost, Enrich, PushEnriched,
              EnrichmentWorkerDies
<1>4. ASSUME NEW f \in FilterWorker, FilterStep(f)
      PROVE  filtered \subseteq filtered' /\ UNCHANGED <<alerts, aux, cutouts, enriched>>
  BY <1>4 DEF FilterStep, PopEnriched, PopEnrichedLost, RunFilters, SendMatches,
              FilterWorkerDies
<1>5. CASE Schedule
  BY <1>5 DEF Schedule, SchedulerStart, Recover, StartWorkers, Respawn, SchedulerDies
<1>6. CASE UNCHANGED vars
  BY <1>6
<1> QED
  BY <1>1, <1>2, <1>3, <1>4, <1>5, <1>6 DEF Next

\* The enrichment and the filter workers touch neither the lists of packets nor
\* the collections the alert workers write, nor the consumer.
LEMMA DownstreamApart ==
  ASSUME \/ \E e \in EnrichmentWorker : EnrichmentStep(e)
         \/ \E f \in FilterWorker : FilterStep(f)
  PROVE  UNCHANGED <<cpc, position, stored, committed, input, temp, alerts, aux,
                     cutouts, apc, held>>
<1> USE DEF vars, consumer, database, workers, downstream
<1>1. ASSUME NEW e \in EnrichmentWorker, EnrichmentStep(e)
      PROVE  UNCHANGED <<cpc, position, stored, committed, input, temp, alerts, aux,
                         cutouts, apc, held>>
  BY <1>1 DEF EnrichmentStep, PopCandids, PopCandidsLost, Enrich, PushEnriched,
              EnrichmentWorkerDies
<1>2. ASSUME NEW f \in FilterWorker, FilterStep(f)
      PROVE  UNCHANGED <<cpc, position, stored, committed, input, temp, alerts, aux,
                         cutouts, apc, held>>
  BY <1>2 DEF FilterStep, PopEnriched, PopEnrichedLost, RunFilters, SendMatches,
              FilterWorkerDies
<1> QED
  BY <1>1, <1>2

\* Moving a copy of an alert from one list of packets to the other loses none.
LEMMA MoveKeeps ==
  ASSUME NEW b \in Bag, NEW c \in Bag, NEW a \in Alert, NEW d \in Alert,
         b[d] > 0 \/ c[d] > 0
  PROVE  Take(b, a, 1)[d] > 0 \/ Put(c, a, 1)[d] > 0
<1>1. CASE d = a
  BY <1>1, OneAttempt, PutProps
<1>2. CASE d # a
  <2>1. d \in Alert \ {a} /\ 1 \in 1 .. MaxAttempts
    BY <1>2, OneAttempt
  <2>2. Take(b, a, 1)[d] = b[d]
    BY <2>1, TakeProps
  <2>3. c[d] > 0 => Put(c, a, 1)[d] > 0
    BY <2>1, PutProps
  <2> QED
    BY <2>2, <2>3
<1> QED
  BY <1>1, <1>2

\* A packet that is safe stays safe: it leaves a list only for the other list,
\* or for good once the alert is in the database.
LEMMA SafeStable ==
  ASSUME IInv, [Next]_vars, NEW d \in Alert, Safe(d)
  PROVE  Safe(d)'
<1>0. TypeOK /\ ConsumerInv /\ WorkerInv
  BY DEF IInv
<1>01. alerts \subseteq alerts'
  BY DatabaseGrows
<1>02. CASE d \in alerts
  BY <1>01, <1>02 DEF Safe
<1>03. CASE UNCHANGED <<input, temp>>
  BY <1>01, <1>03 DEF Safe
<1> USE <1>0 DEF vars, consumer, database, workers, downstream
<1>1. CASE Consume
  <2>1. ASSUME cpc = "push" PROVE AlertAt[position - 1] \in Alert
    BY <2>1, MessageAssumption DEF ConsumerInv, TypeOK
  <2>2. ASSUME NEW n \in 1 .. MaxAttempts, cpc = "push",
               input' = Put(input, AlertAt[position - 1], n), UNCHANGED temp
        PROVE  Safe(d)'
    <3>1. input[d] > 0 => input'[d] > 0
      BY <2>1, <2>2, PutProps DEF TypeOK
    <3> QED
      BY <3>1, <2>2, <1>01 DEF Safe
  <2>3. ASSUME NEW n \in 1 .. MaxAttempts, Push(n) PROVE Safe(d)'
    BY <2>2, <2>3 DEF Push
  <2>4. CASE ConsumerDies
    BY <2>2, <2>4, <1>03, OneAttempt DEF ConsumerDies
  <2>5. CASE ConsumerStart \/ Poll \/ StoreOffset \/ AutoCommit
    BY <2>5, <1>03 DEF ConsumerStart, Poll, StoreOffset, AutoCommit
  <2> QED
    BY <1>1, <2>3, <2>4, <2>5 DEF Consume
<1>2. ASSUME NEW w \in AlertWorker, AlertStep(w) PROVE Safe(d)'
  <2>1. ASSUME NEW a \in Alert, Retrieve(w, a) \/ RetrieveLost(w, a) PROVE Safe(d)'
    <3>1. input' = Take(input, a, 1) /\ temp' = Put(temp, a, 1)
      BY <2>1 DEF Retrieve, RetrieveLost
    <3> QED
      BY <3>1, <1>02, MoveKeeps DEF Safe, TypeOK
  <2>2. ASSUME NEW n \in 1 .. MaxAttempts, RemoveFromTemp(w, n) PROVE Safe(d)'
    <3>1. held[w] \in alerts /\ held[w] \in Alert
      BY <2>2 DEF RemoveFromTemp, WorkerInv, TypeOK
    <3>2. ASSUME d # held[w] PROVE Take(temp, held[w], n)[d] = temp[d]
      <4>1. d \in Alert \ {held[w]} /\ temp \in Bag
        BY <3>2 DEF TypeOK
      <4> QED
        BY <3>1, <4>1, TakeProps
    <3>3. UNCHANGED input /\ temp' = Take(temp, held[w], n)
      BY <2>2 DEF RemoveFromTemp
    <3> QED
      BY <3>1, <3>2, <3>3, <1>01 DEF Safe
  <2>3. ASSUME NEW n \in 1 .. MaxAttempts, PushCandid(w, n) PROVE Safe(d)'
    BY <2>3, <1>03 DEF PushCandid
  <2>4. CASE \/ CheckExists(w) \/ WriteAux(w) \/ WriteCutouts(w) \/ InsertAlert(w)
             \/ ProcessError(w) \/ AlertWorkerDies(w)
    BY <2>4, <1>03 DEF CheckExists, WriteAux, WriteCutouts, InsertAlert, ProcessError,
                       AlertWorkerDies
  <2> QED
    BY <1>2, <2>1, <2>2, <2>3, <2>4 DEF AlertStep
<1>3. CASE \/ \E e \in EnrichmentWorker : EnrichmentStep(e)
           \/ \E f \in FilterWorker : FilterStep(f)
  BY <1>3, <1>03, DownstreamApart
<1>4. CASE Schedule
  <2>1. ASSUME NEW a \in Alert, Recover(a) PROVE Safe(d)'
    <3>1. temp' = Take(temp, a, 1) /\ input' = Put(input, a, 1)
      BY <2>1 DEF Recover
    <3> QED
      BY <3>1, <1>02, MoveKeeps DEF Safe, TypeOK
  <2>2. CASE SchedulerStart \/ StartWorkers \/ Respawn \/ SchedulerDies
    BY <2>2, <1>03 DEF SchedulerStart, StartWorkers, Respawn, SchedulerDies
  <2> QED
    BY <1>4, <2>1, <2>2 DEF Schedule
<1>5. CASE UNCHANGED vars
  BY <1>5, <1>03
<1> QED
  BY <1>1, <1>2, <1>3, <1>4, <1>5 DEF Next

----------------------------------------------------------------------------
(* The conjuncts of the invariant, one by one.                             *)

\* The consumer: everything before the offset it is at has been pushed.
LEMMA ConsumerInvStep == IInv /\ [Next]_vars => ConsumerInv'
<1> SUFFICES ASSUME IInv, [Next]_vars PROVE ConsumerInv'
  OBVIOUS
<1>0. TypeOK /\ ConsumerInv /\ CommittedIsSafe
  BY DEF IInv
<1>01. ASSUME NEW o \in Offset, Safe(AlertAt[o]) PROVE Safe(AlertAt[o])'
  BY <1>01, SafeStable, MessageAssumption DEF Offset
<1>02. CASE UNCHANGED <<cpc, position, stored, committed>>
  BY <1>0, <1>01, <1>02 DEF ConsumerInv
<1> USE DEF vars, consumer, database, workers, downstream
<1>1. CASE Consume
  <2> USE <1>0, MessageAssumption DEF TypeOK
  <2>1. CASE ConsumerStart
    BY <2>1, <1>01 DEF ConsumerStart, ConsumerInv, CommittedIsSafe
  <2>2. CASE Poll
    BY <2>2, <1>01 DEF Poll, ConsumerInv
  <2>3. ASSUME NEW n \in 1 .. MaxAttempts, Push(n) PROVE ConsumerInv'
    <3>1. position - 1 \in Offset /\ AlertAt[position - 1] \in Alert
      BY <2>3 DEF Push, ConsumerInv, Offset
    <3>2. Put(input, AlertAt[position - 1], n)[AlertAt[position - 1]] > 0
      BY <3>1, PutProps
    <3>3. Safe(AlertAt[position - 1])'
      BY <2>3, <3>2 DEF Push, Safe
    <3>4. /\ cpc' = "store"
          /\ UNCHANGED <<position, stored, committed>>
          /\ cpc = "push"
      BY <2>3 DEF Push
    <3>5. ASSUME NEW o \in Offset, o < position PROVE Safe(AlertAt[o])'
      <4>1. CASE o = position - 1
        BY <4>1, <3>3, <3>4
      <4>2. CASE o < position - 1
        BY <4>2, <3>4, <1>01 DEF ConsumerInv
      <4> QED
        BY <3>5, <4>1, <4>2 DEF Offset
    <3> QED
      BY <3>4, <3>5 DEF ConsumerInv
  <2>4. CASE StoreOffset
    BY <2>4, <1>01 DEF StoreOffset, ConsumerInv
  <2>5. CASE AutoCommit
    BY <2>5, <1>01 DEF AutoCommit, Storable, ConsumerInv
  <2>6. CASE ConsumerDies
    BY <2>6 DEF ConsumerDies, ConsumerInv
  <2> QED
    BY <1>1, <2>1, <2>2, <2>3, <2>4, <2>5, <2>6 DEF Consume
<1>2. ASSUME NEW w \in AlertWorker, AlertStep(w)
      PROVE  UNCHANGED <<cpc, position, stored, committed>>
  BY <1>2 DEF AlertStep, Retrieve, RetrieveLost, CheckExists, WriteAux, WriteCutouts,
              InsertAlert, ProcessError, PushCandid, RemoveFromTemp, AlertWorkerDies
<1>3. CASE \/ \E e \in EnrichmentWorker : EnrichmentStep(e)
           \/ \E f \in FilterWorker : FilterStep(f)
  BY <1>3, <1>02, DownstreamApart
<1>4. CASE Schedule
  BY <1>4, <1>02 DEF Schedule, SchedulerStart, Recover, StartWorkers, Respawn,
                     SchedulerDies
<1>5. CASE UNCHANGED vars
  BY <1>5, <1>02
<1> QED
  BY <1>1, <1>2, <1>3, <1>4, <1>5, <1>02 DEF Next

\* What is committed: the auto-commit only moves to an offset stored by hand,
\* and nothing is stored before it is pushed.
LEMMA CommittedStep == IInv /\ [Next]_vars => CommittedIsSafe'
<1> SUFFICES ASSUME IInv, [Next]_vars, NEW o \in Offset, o < committed'
             PROVE  Safe(AlertAt[o])'
  BY DEF CommittedIsSafe
<1>0. TypeOK /\ ConsumerInv /\ CommittedIsSafe
  BY DEF IInv
<1>1. Safe(AlertAt[o]) => Safe(AlertAt[o])'
  BY SafeStable, MessageAssumption DEF Offset
<1>2. CASE AutoCommit
  BY <1>0, <1>1, <1>2, MessageAssumption DEF AutoCommit, Storable, ConsumerInv, TypeOK, Offset
<1>3. CASE committed' = committed
  BY <1>0, <1>1, <1>3 DEF CommittedIsSafe
<1> USE DEF vars, consumer, database, workers, downstream
<1>4. CASE Consume
  BY <1>2, <1>3, <1>4 DEF Consume, ConsumerStart, Poll, Push, StoreOffset, ConsumerDies
<1>5. ASSUME NEW w \in AlertWorker, AlertStep(w) PROVE committed' = committed
  BY <1>5 DEF AlertStep, Retrieve, RetrieveLost, CheckExists, WriteAux, WriteCutouts,
              InsertAlert, ProcessError, PushCandid, RemoveFromTemp, AlertWorkerDies
<1>6. CASE \/ \E e \in EnrichmentWorker : EnrichmentStep(e)
           \/ \E f \in FilterWorker : FilterStep(f)
  BY <1>3, <1>6, DownstreamApart
<1>7. CASE Schedule
  BY <1>3, <1>7 DEF Schedule, SchedulerStart, Recover, StartWorkers, Respawn,
                    SchedulerDies
<1>8. CASE UNCHANGED vars
  BY <1>3, <1>8
<1> QED
  BY <1>3, <1>4, <1>5, <1>6, <1>7, <1>8 DEF Next

\* The alert is inserted after its photometry and its cutouts.
LEMMA StoredStep == IInv /\ [Next]_vars => StoredIsComplete'
<1> SUFFICES ASSUME IInv, [Next]_vars PROVE StoredIsComplete'
  OBVIOUS
<1>0. TypeOK /\ StoredIsComplete /\ WorkerInv
  BY DEF IInv
<1>1. aux \subseteq aux' /\ cutouts \subseteq cutouts'
  BY DatabaseGrows
<1>2. CASE alerts' = alerts
  BY <1>0, <1>1, <1>2 DEF StoredIsComplete
<1>3. ASSUME NEW w \in AlertWorker, apc[w] = "insert", alerts' = alerts \cup {held[w]}
      PROVE  StoredIsComplete'
  BY <1>0, <1>1, <1>3 DEF StoredIsComplete, WorkerInv
<1> USE DEF vars, consumer, database, workers, downstream
<1>4. CASE Consume
  BY <1>2, <1>4 DEF Consume, ConsumerStart, Poll, Push, StoreOffset, AutoCommit,
                    ConsumerDies
<1>5. ASSUME NEW w \in AlertWorker, AlertStep(w) PROVE StoredIsComplete'
  <2>1. CASE InsertAlert(w) \/ ProcessError(w)
    BY <1>2, <1>3, <2>1 DEF InsertAlert, ProcessError
  <2>2. CASE ~ (InsertAlert(w) \/ ProcessError(w))
    BY <1>2, <1>5, <2>2 DEF AlertStep, Retrieve, RetrieveLost, CheckExists, WriteAux,
       WriteCutouts, PushCandid, RemoveFromTemp, AlertWorkerDies
  <2> QED
    BY <2>1, <2>2
<1>6. CASE \/ \E e \in EnrichmentWorker : EnrichmentStep(e)
           \/ \E f \in FilterWorker : FilterStep(f)
  BY <1>2, <1>6, DownstreamApart
<1>7. CASE Schedule
  BY <1>2, <1>7 DEF Schedule, SchedulerStart, Recover, StartWorkers, Respawn,
                    SchedulerDies
<1>8. CASE UNCHANGED vars
  BY <1>2, <1>8
<1> QED
  BY <1>4, <1>5, <1>6, <1>7, <1>8 DEF Next

\* What a step can do to the alert workers: nothing, or reset some of them, or
\* move one along its program.
LEMMA AlertWorkerMoves ==
  ASSUME IInv, [Next]_vars, NEW v \in AlertWorker
  PROVE  \/ apc'[v] = apc[v] /\ held'[v] = held[v]
         \/ apc'[v] \in {"down", "idle"} /\ held'[v] = NoAlert
         \/ /\ apc'[v] = "check" /\ held'[v] \in Alert
            /\ temp' = Put(temp, held'[v], 1)
         \/ /\ apc[v] = "check" /\ held'[v] = held[v]
            /\ \/ apc'[v] = "remove" /\ held[v] \in alerts
               \/ apc'[v] = "aux"
         \/ /\ apc[v] = "aux" /\ apc'[v] = "cutouts" /\ held'[v] = held[v]
            /\ held[v] \in aux'
         \/ /\ apc[v] = "cutouts" /\ apc'[v] = "insert" /\ held'[v] = held[v]
            /\ held[v] \in cutouts'
         \/ /\ apc[v] = "insert" /\ apc'[v] \in {"push", "remove"}
            /\ held'[v] = held[v] /\ held[v] \in alerts'
         \/ /\ apc[v] = "push" /\ apc'[v] = "remove" /\ held'[v] = held[v]
<1>0. TypeOK /\ WorkerInv
  BY DEF IInv
<1>01. CASE apc'[v] = apc[v] /\ held'[v] = held[v]
  BY <1>01
<1> USE DEF vars, consumer, database, workers, downstream
<1>1. CASE Consume
  BY <1>01, <1>1 DEF Consume, ConsumerStart, Poll, Push, StoreOffset, AutoCommit,
                     ConsumerDies
<1>2. ASSUME NEW w \in AlertWorker, AlertStep(w), w # v
      PROVE  apc'[v] = apc[v] /\ held'[v] = held[v]
  BY <1>0, <1>2 DEF AlertStep, Retrieve, RetrieveLost, CheckExists, WriteAux,
     WriteCutouts, InsertAlert, ProcessError, PushCandid, RemoveFromTemp,
     AlertWorkerDies, Goto, Drop, TypeOK
<1>3. CASE AlertStep(v)
  <2> USE <1>0 DEF Goto, Drop, TypeOK
  <2>1. ASSUME NEW a \in Alert, Retrieve(v, a) \/ RetrieveLost(v, a)
        PROVE  \/ apc'[v] = apc[v] /\ held'[v] = held[v]
               \/ /\ apc'[v] = "check" /\ held'[v] \in Alert
                  /\ temp' = Put(temp, held'[v], 1)
    BY <2>1 DEF Retrieve, RetrieveLost
  <2>2. CASE CheckExists(v)
    BY <2>2 DEF CheckExists
  <2>3. CASE WriteAux(v)
    BY <2>3 DEF WriteAux
  <2>4. CASE WriteCutouts(v)
    BY <2>4 DEF WriteCutouts
  <2>5. CASE InsertAlert(v)
    BY <2>5 DEF InsertAlert
  <2>6. CASE ProcessError(v) \/ AlertWorkerDies(v)
    BY <2>6 DEF ProcessError, AlertWorkerDies
  <2>7. ASSUME NEW n \in 1 .. MaxAttempts, PushCandid(v, n)
        PROVE  apc[v] = "push" /\ apc'[v] = "remove" /\ held'[v] = held[v]
    BY <2>7 DEF PushCandid
  <2>8. ASSUME NEW n \in 1 .. MaxAttempts, RemoveFromTemp(v, n)
        PROVE  apc'[v] \in {"down", "idle"} /\ held'[v] = NoAlert
    BY <2>8 DEF RemoveFromTemp
  <2> QED
    BY <1>3, <2>1, <2>2, <2>3, <2>4, <2>5, <2>6, <2>7, <2>8 DEF AlertStep
<1>4. CASE \/ \E e \in EnrichmentWorker : EnrichmentStep(e)
           \/ \E f \in FilterWorker : FilterStep(f)
  BY <1>01, <1>4, DownstreamApart
<1>5. CASE Schedule
  <2>0. CASE StartWorkers
    BY <1>0, <2>0 DEF StartWorkers, TypeOK, WorkerInv
  <2>1. CASE Respawn
    BY <1>0, <2>1 DEF Respawn, TypeOK, WorkerInv
  <2>2. CASE SchedulerDies
    BY <2>2 DEF SchedulerDies
  <2>3. CASE SchedulerStart \/ \E a \in Alert : Recover(a)
    BY <1>01, <2>3 DEF SchedulerStart, Recover
  <2> QED
    BY <1>5, <2>0, <2>1, <2>2, <2>3 DEF Schedule
<1>6. CASE UNCHANGED vars
  BY <1>01, <1>6
<1> QED
  BY <1>1, <1>2, <1>3, <1>4, <1>5, <1>6 DEF Next

\* A packet a worker has retrieved stays safe until the alert is stored.
LEMMA WorkedOnStep == IInv /\ [Next]_vars => WorkedOnIsRecoverable'
<1> SUFFICES ASSUME IInv, [Next]_vars, NEW v \in AlertWorker,
                    apc'[v] \in {"check", "aux", "cutouts", "insert"}
             PROVE  Safe(held[v])'
  BY DEF WorkedOnIsRecoverable
<1>0. TypeOK /\ WorkerInv /\ WorkedOnIsRecoverable
  BY DEF IInv
<1>1. CASE /\ apc'[v] = "check" /\ held'[v] \in Alert
           /\ temp' = Put(temp, held'[v], 1)
  <2>1. 1 \in 1 .. MaxAttempts /\ temp \in Bag
    BY <1>0, OneAttempt DEF TypeOK
  <2>2. Put(temp, held'[v], 1)[held'[v]] > 0
    BY <1>1, <2>1, PutProps
  <2> QED
    BY <1>1, <2>2 DEF Safe
<1>2. CASE /\ apc[v] \in {"check", "aux", "cutouts", "insert"}
           /\ held'[v] = held[v]
  <2>1. held[v] \in Alert /\ Safe(held[v])
    BY <1>0, <1>2 DEF TypeOK, WorkerInv, WorkedOnIsRecoverable
  <2>2. ASSUME NEW d \in Alert, Safe(d) PROVE Safe(d)'
    BY <2>2, SafeStable
  <2>3. PICK d \in Alert : d = held[v] /\ Safe(d)
    BY <2>1
  <2>4. Safe(d)'
    BY <2>2, <2>3
  <2> QED
    BY <1>2, <2>3, <2>4 DEF Safe
<1> QED
  BY <1>1, <1>2, AlertWorkerMoves

\* What each worker has achieved, given the label it is at.
LEMMA WorkerInvStep == IInv /\ [Next]_vars => WorkerInv'
<1> SUFFICES ASSUME IInv, [Next]_vars PROVE WorkerInv'
  OBVIOUS
<1>0. TypeOK /\ WorkerInv /\ StagesInOrder
  BY DEF IInv
<1>01. /\ alerts \subseteq alerts' /\ aux \subseteq aux' /\ cutouts \subseteq cutouts'
       /\ enriched \subseteq enriched' /\ filtered \subseteq filtered'
  BY DatabaseGrows
<1>02. NoAlert \notin Alert
  BY NoAlertAssumption
<1>1. ASSUME NEW v \in AlertWorker
      PROVE  /\ apc'[v] \in {"down", "idle"} <=> held'[v] = NoAlert
             /\ apc'[v] \in {"cutouts", "insert"} => held'[v] \in aux'
             /\ apc'[v] = "insert" => held'[v] \in cutouts'
             /\ apc'[v] \in {"push", "remove"} => held'[v] \in alerts'
  BY <1>0, <1>01, <1>02, AlertWorkerMoves DEF TypeOK, WorkerInv
<1> USE DEF vars, consumer, database, workers, downstream
<1>2. ASSUME NEW e \in EnrichmentWorker, epc'[e] = "push"
      PROVE  ebatch'[e] \subseteq enriched'
  <2>1. CASE epc'[e] = epc[e] /\ ebatch'[e] = ebatch[e]
    BY <1>0, <1>01, <1>2, <2>1 DEF WorkerInv
  <2>2. ASSUME NEW g \in EnrichmentWorker, EnrichmentStep(g)
        PROVE  ebatch'[e] \subseteq enriched'
    <3>1. ASSUME NEW S \in SUBSET Alert, Enrich(g, S) PROVE ebatch'[e] \subseteq enriched'
      BY <1>0, <1>01, <1>2, <3>1 DEF Enrich, TypeOK, WorkerInv
    <3>2. ASSUME NEW S \in SUBSET Alert, PopCandids(g, S) \/ PopCandidsLost(g, S)
          PROVE  ebatch'[e] \subseteq enriched'
      BY <1>0, <1>01, <1>2, <3>2 DEF PopCandids, PopCandidsLost, TypeOK, WorkerInv
    <3>3. ASSUME NEW n \in 1 .. MaxAttempts, PushEnriched(g, n) PROVE ebatch'[e] \subseteq enriched'
      BY <1>0, <1>01, <1>2, <3>3 DEF PushEnriched, TypeOK, WorkerInv
    <3>4. CASE EnrichmentWorkerDies(g)
      BY <1>0, <1>01, <1>2, <3>4 DEF EnrichmentWorkerDies, TypeOK, WorkerInv
    <3> QED
      BY <2>2, <3>1, <3>2, <3>3, <3>4 DEF EnrichmentStep
  <2>3. CASE Consume
    BY <2>1, <2>3 DEF Consume, ConsumerStart, Poll, Push, StoreOffset, AutoCommit,
                      ConsumerDies
  <2>4. ASSUME NEW w \in AlertWorker, AlertStep(w)
        PROVE  epc'[e] = epc[e] /\ ebatch'[e] = ebatch[e]
    BY <2>4 DEF AlertStep, Retrieve, RetrieveLost, CheckExists, WriteAux, WriteCutouts,
                InsertAlert, ProcessError, PushCandid, RemoveFromTemp, AlertWorkerDies
  <2>5. ASSUME NEW f \in FilterWorker, FilterStep(f)
        PROVE  epc'[e] = epc[e] /\ ebatch'[e] = ebatch[e]
    BY <2>5 DEF FilterStep, PopEnriched, PopEnrichedLost, RunFilters, SendMatches,
                FilterWorkerDies
  <2>6. CASE Schedule
    BY <1>0, <1>2, <2>1, <2>6 DEF Schedule, SchedulerStart, Recover, StartWorkers,
       Respawn, SchedulerDies, TypeOK
  <2>7. CASE UNCHANGED vars
    BY <2>1, <2>7
  <2> QED
    BY <2>1, <2>2, <2>3, <2>4, <2>5, <2>6, <2>7 DEF Next
<1>3. ASSUME NEW f \in FilterWorker, fpc'[f] = "send"
      PROVE  fbatch'[f] \subseteq filtered'
  <2>1. CASE fpc'[f] = fpc[f] /\ fbatch'[f] = fbatch[f]
    BY <1>0, <1>01, <1>3, <2>1 DEF WorkerInv
  <2>2. ASSUME NEW g \in FilterWorker, FilterStep(g)
        PROVE  fbatch'[f] \subseteq filtered'
    <3>1. ASSUME NEW S \in SUBSET Alert, RunFilters(g, S)
          PROVE  fbatch'[f] \subseteq filtered'
      BY <1>0, <1>01, <1>3, <3>1 DEF RunFilters, TypeOK, WorkerInv
    <3>2. ASSUME NEW S \in SUBSET Alert, PopEnriched(g, S) \/ PopEnrichedLost(g, S)
          PROVE  fbatch'[f] \subseteq filtered'
      BY <1>0, <1>01, <1>3, <3>2 DEF PopEnriched, PopEnrichedLost, TypeOK, WorkerInv
    <3>3. ASSUME NEW S \in SUBSET Alert, SendMatches(g, S)
          PROVE  fbatch'[f] \subseteq filtered'
      BY <1>0, <1>01, <1>3, <3>3 DEF SendMatches, TypeOK, WorkerInv
    <3>4. CASE FilterWorkerDies(g)
      BY <1>0, <1>01, <1>3, <3>4 DEF FilterWorkerDies, TypeOK, WorkerInv
    <3> QED
      BY <2>2, <3>1, <3>2, <3>3, <3>4 DEF FilterStep
  <2>3. CASE Consume
    BY <2>1, <2>3 DEF Consume, ConsumerStart, Poll, Push, StoreOffset, AutoCommit,
                      ConsumerDies
  <2>4. ASSUME NEW w \in AlertWorker, AlertStep(w)
        PROVE  fpc'[f] = fpc[f] /\ fbatch'[f] = fbatch[f]
    BY <2>4 DEF AlertStep, Retrieve, RetrieveLost, CheckExists, WriteAux, WriteCutouts,
                InsertAlert, ProcessError, PushCandid, RemoveFromTemp, AlertWorkerDies
  <2>5. ASSUME NEW e \in EnrichmentWorker, EnrichmentStep(e)
        PROVE  fpc'[f] = fpc[f] /\ fbatch'[f] = fbatch[f]
    BY <2>5 DEF EnrichmentStep, PopCandids, PopCandidsLost, Enrich, PushEnriched,
                EnrichmentWorkerDies
  <2>6. CASE Schedule
    BY <1>0, <1>3, <2>1, <2>6 DEF Schedule, SchedulerStart, Recover, StartWorkers,
       Respawn, SchedulerDies, TypeOK
  <2>7. CASE UNCHANGED vars
    BY <2>1, <2>7
  <2> QED
    BY <2>1, <2>2, <2>3, <2>4, <2>5, <2>6, <2>7 DEF Next
<1>4. (enriched \subseteq alerts)'
  <2>1. CASE enriched' = enriched
    BY <1>0, <1>01, <2>1 DEF WorkerInv
  <2>2. ASSUME NEW e \in EnrichmentWorker, EnrichmentStep(e)
        PROVE  enriched' \subseteq alerts \/ enriched' = enriched
    BY <1>0, <2>2 DEF EnrichmentStep, PopCandids, PopCandidsLost, Enrich, PushEnriched,
       EnrichmentWorkerDies, WorkerInv
  <2>3. CASE Consume
    BY <2>1, <2>3 DEF Consume, ConsumerStart, Poll, Push, StoreOffset, AutoCommit,
                      ConsumerDies
  <2>4. ASSUME NEW w \in AlertWorker, AlertStep(w) PROVE enriched' = enriched
    BY <2>4 DEF AlertStep, Retrieve, RetrieveLost, CheckExists, WriteAux, WriteCutouts,
                InsertAlert, ProcessError, PushCandid, RemoveFromTemp, AlertWorkerDies
  <2>5. ASSUME NEW f \in FilterWorker, FilterStep(f) PROVE enriched' = enriched
    BY <2>5 DEF FilterStep, PopEnriched, PopEnrichedLost, RunFilters, SendMatches,
                FilterWorkerDies
  <2>6. CASE Schedule
    BY <2>1, <2>6 DEF Schedule, SchedulerStart, Recover, StartWorkers, Respawn,
                      SchedulerDies
  <2>7. CASE UNCHANGED vars
    BY <2>1, <2>7
  <2> QED
    BY <1>01, <2>1, <2>2, <2>3, <2>4, <2>5, <2>6, <2>7 DEF Next
<1>5. ASSUME scheduler' # "up", NEW v \in AlertWorker PROVE apc'[v] = "down"
  <2>1. CASE scheduler' = scheduler /\ apc' = apc
    BY <1>0, <1>5, <2>1 DEF WorkerInv
  <2>2. CASE Consume
    BY <2>1, <2>2 DEF Consume, ConsumerStart, Poll, Push, StoreOffset, AutoCommit,
                      ConsumerDies
  <2>3. ASSUME NEW w \in AlertWorker, AlertStep(w)
        PROVE  apc[w] # "down" /\ scheduler' = scheduler
    BY <2>3 DEF AlertStep, Retrieve, RetrieveLost, CheckExists, WriteAux, WriteCutouts,
                InsertAlert, ProcessError, PushCandid, RemoveFromTemp, AlertWorkerDies
  <2>4. ASSUME NEW w \in AlertWorker, AlertStep(w) PROVE FALSE
    BY <1>0, <1>5, <2>3, <2>4 DEF WorkerInv
  <2>5. ASSUME NEW e \in EnrichmentWorker, EnrichmentStep(e)
        PROVE  scheduler' = scheduler /\ apc' = apc
    BY <2>5 DEF EnrichmentStep, PopCandids, PopCandidsLost, Enrich, PushEnriched,
                EnrichmentWorkerDies
  <2>6. ASSUME NEW f \in FilterWorker, FilterStep(f)
        PROVE  scheduler' = scheduler /\ apc' = apc
    BY <2>6 DEF FilterStep, PopEnriched, PopEnrichedLost, RunFilters, SendMatches,
                FilterWorkerDies
  <2>7. CASE Schedule
    BY <1>0, <1>5, <2>1, <2>7 DEF Schedule, SchedulerStart, Recover, StartWorkers,
       Respawn, SchedulerDies, WorkerInv
  <2>8. CASE UNCHANGED vars
    BY <2>1, <2>8
  <2> QED
    BY <2>1, <2>2, <2>4, <2>5, <2>6, <2>7, <2>8 DEF Next
<1> QED
  BY <1>1, <1>2, <1>3, <1>4, <1>5 DEF WorkerInv

\* A step of an alert worker keeps the stages in order: a candid is queued for
\* enrichment after the insert, which comes after the cutouts.
LEMMA StagesAlertStep ==
  ASSUME IInv, [Next]_vars, NEW w \in AlertWorker, AlertStep(w)
  PROVE  StagesInOrder'
<1>0. TypeOK /\ WorkerInv /\ StagesInOrder /\ StoredIsComplete
  BY DEF IInv
<1>1. alerts \subseteq alerts' /\ cutouts \subseteq cutouts'
  BY DatabaseGrows
<1> USE DEF vars, consumer, database, workers, downstream
<1>2. UNCHANGED <<ebatch, filter_queue, fbatch, published, enriched, filtered>>
  BY DEF AlertStep, Retrieve, RetrieveLost, CheckExists, WriteAux, WriteCutouts,
         InsertAlert, ProcessError, PushCandid, RemoveFromTemp, AlertWorkerDies
<1>3. ASSUME NEW a \in Alert, enrichment_queue'[a] > 0 PROVE a \in alerts \cap cutouts
  <2>1. CASE UNCHANGED enrichment_queue
    BY <1>0, <1>3, <2>1 DEF StagesInOrder
  <2>2. ASSUME NEW n \in 1 .. MaxAttempts, PushCandid(w, n) PROVE a \in alerts \cap cutouts
    <3>1. held[w] \in alerts /\ held[w] \in Alert
      BY <1>0, <2>2 DEF PushCandid, WorkerInv, TypeOK
    <3>2. a = held[w] \/ enrichment_queue[a] > 0
      BY <1>0, <1>3, <2>2, <3>1, PutProps DEF PushCandid, TypeOK
    <3> QED
      BY <1>0, <3>1, <3>2 DEF StagesInOrder, StoredIsComplete
  <2>3. CASE ~ \E n \in 1 .. MaxAttempts : PushCandid(w, n)
    BY <2>1, <2>3 DEF AlertStep, Retrieve, RetrieveLost, CheckExists, WriteAux,
       WriteCutouts, InsertAlert, ProcessError, RemoveFromTemp, AlertWorkerDies
  <2> QED
    BY <2>2, <2>3
<1> QED
  BY <1>0, <1>1, <1>2, <1>3 DEF StagesInOrder

\* A step of an enrichment worker does: an alert comes to the filters' list
\* after its classifications are written.
LEMMA StagesEnrichmentStep ==
  ASSUME IInv, [Next]_vars, NEW e \in EnrichmentWorker, EnrichmentStep(e)
  PROVE  StagesInOrder'
<1>0. TypeOK /\ WorkerInv /\ StagesInOrder
  BY DEF IInv
<1>1. enriched \subseteq enriched'
  BY DatabaseGrows
<1> USE DEF vars, consumer, database, workers, downstream
<1>2. UNCHANGED <<alerts, cutouts, fbatch, published, filtered>>
  BY DEF EnrichmentStep, PopCandids, PopCandidsLost, Enrich, PushEnriched,
         EnrichmentWorkerDies
<1>3. ASSUME NEW S \in SUBSET Alert, PopCandids(e, S) \/ PopCandidsLost(e, S)
      PROVE  /\ \A a \in Alert : enrichment_queue'[a] > 0 => enrichment_queue[a] > 0
             /\ \A g \in EnrichmentWorker : \/ ebatch'[g] = ebatch[g]
                                            \/ ebatch'[g] \subseteq alerts \cap cutouts
             /\ UNCHANGED filter_queue
  <2>1. S \in Batch(enrichment_queue) /\ enrichment_queue' = TakeAll(enrichment_queue, S)
    BY <1>3 DEF PopCandids, PopCandidsLost
  <2>2. enrichment_queue \in Bag
    BY <1>0 DEF TypeOK
  <2>3. /\ \A c \in S : enrichment_queue[c] > 0
        /\ \A c \in Alert : TakeAll(enrichment_queue, S)[c] > 0 => enrichment_queue[c] > 0
    BY <2>1, <2>2, TakeAllProps
  <2>4. S \subseteq alerts \cap cutouts
    BY <1>0, <2>3 DEF StagesInOrder
  <2> QED
    BY <1>0, <1>3, <2>1, <2>3, <2>4 DEF PopCandids, PopCandidsLost, TypeOK
<1>4. ASSUME NEW S \in SUBSET Alert, Enrich(e, S)
      PROVE  /\ \A g \in EnrichmentWorker : ebatch'[g] \subseteq ebatch[g]
             /\ UNCHANGED <<enrichment_queue, filter_queue>>
  BY <1>0, <1>4 DEF Enrich, TypeOK
<1>5. ASSUME NEW n \in 1 .. MaxAttempts, PushEnriched(e, n)
      PROVE  /\ \A g \in EnrichmentWorker : ebatch'[g] \subseteq ebatch[g]
             /\ UNCHANGED enrichment_queue
             /\ \A a \in Alert : filter_queue'[a] > 0 => a \in enriched \/ filter_queue[a] > 0
  <2>1. ebatch[e] \in SUBSET Alert /\ filter_queue \in Bag /\ ebatch[e] \subseteq enriched
    BY <1>0, <1>5 DEF PushEnriched, TypeOK, WorkerInv
  <2>2. \A c \in Alert : PutAll(filter_queue, ebatch[e], n)[c] > 0
                           => c \in ebatch[e] \/ filter_queue[c] > 0
    BY <2>1, PutAllProps
  <2> QED
    BY <1>0, <1>5, <2>1, <2>2 DEF PushEnriched, TypeOK
<1>6. ASSUME EnrichmentWorkerDies(e)
      PROVE  /\ \A g \in EnrichmentWorker : ebatch'[g] \subseteq ebatch[g]
             /\ UNCHANGED <<enrichment_queue, filter_queue>>
  BY <1>0, <1>6 DEF EnrichmentWorkerDies, TypeOK
<1>7. /\ \A a \in Alert : enrichment_queue'[a] > 0 => enrichment_queue[a] > 0
      /\ \A g \in EnrichmentWorker : \/ ebatch'[g] \subseteq ebatch[g]
                                     \/ ebatch'[g] \subseteq alerts \cap cutouts
      /\ \A a \in Alert : filter_queue'[a] > 0 => a \in enriched \/ filter_queue[a] > 0
  BY <1>3, <1>4, <1>5, <1>6 DEF EnrichmentStep
<1> QED
  BY <1>0, <1>1, <1>2, <1>7 DEF StagesInOrder

\* A step of a filter worker does: only what went through the filters is sent.
LEMMA StagesFilterStep ==
  ASSUME IInv, [Next]_vars, NEW f \in FilterWorker, FilterStep(f)
  PROVE  StagesInOrder'
<1>0. TypeOK /\ WorkerInv /\ StagesInOrder
  BY DEF IInv
<1>1. filtered \subseteq filtered'
  BY DatabaseGrows
<1> USE DEF vars, consumer, database, workers, downstream
<1>2. UNCHANGED <<alerts, cutouts, enriched, enrichment_queue, ebatch>>
  BY DEF FilterStep, PopEnriched, PopEnrichedLost, RunFilters, SendMatches,
         FilterWorkerDies
<1>3. ASSUME NEW S \in SUBSET Alert, PopEnriched(f, S) \/ PopEnrichedLost(f, S)
      PROVE  /\ \A a \in Alert : filter_queue'[a] > 0 => filter_queue[a] > 0
             /\ \A g \in FilterWorker : \/ fbatch'[g] = fbatch[g]
                                        \/ fbatch'[g] \subseteq enriched
             /\ UNCHANGED published
  <2>1. S \in Batch(filter_queue) /\ filter_queue' = TakeAll(filter_queue, S)
    BY <1>3 DEF PopEnriched, PopEnrichedLost
  <2>2. filter_queue \in Bag
    BY <1>0 DEF TypeOK
  <2>3. /\ \A c \in S : filter_queue[c] > 0
        /\ \A c \in Alert : TakeAll(filter_queue, S)[c] > 0 => filter_queue[c] > 0
    BY <2>1, <2>2, TakeAllProps
  <2>4. S \subseteq enriched
    BY <1>0, <2>3 DEF StagesInOrder
  <2> QED
    BY <1>0, <1>3, <2>1, <2>3, <2>4 DEF PopEnriched, PopEnrichedLost, TypeOK
<1>4. ASSUME NEW S \in SUBSET Alert, RunFilters(f, S)
      PROVE  /\ \A g \in FilterWorker : fbatch'[g] \subseteq fbatch[g]
             /\ UNCHANGED <<filter_queue, published>>
  BY <1>0, <1>4 DEF RunFilters, TypeOK
<1>5. ASSUME NEW S \in SUBSET Alert, SendMatches(f, S)
      PROVE  /\ \A g \in FilterWorker : fbatch'[g] \subseteq fbatch[g]
             /\ UNCHANGED filter_queue
             /\ published' \subseteq enriched \cap filtered
  BY <1>0, <1>5 DEF SendMatches, TypeOK, WorkerInv, StagesInOrder
<1>6. ASSUME FilterWorkerDies(f)
      PROVE  /\ \A g \in FilterWorker : fbatch'[g] \subseteq fbatch[g]
             /\ UNCHANGED <<filter_queue, published>>
  BY <1>0, <1>6 DEF FilterWorkerDies, TypeOK
<1>7. /\ \A a \in Alert : filter_queue'[a] > 0 => filter_queue[a] > 0
      /\ \A g \in FilterWorker : \/ fbatch'[g] \subseteq fbatch[g]
                                 \/ fbatch'[g] \subseteq enriched
      /\ published' = published \/ published' \subseteq enriched \cap filtered
  BY <1>3, <1>4, <1>5, <1>6 DEF FilterStep
<1> QED
  BY <1>0, <1>1, <1>2, <1>7 DEF StagesInOrder

\* The stages stay in order.
LEMMA StagesStep == IInv /\ [Next]_vars => StagesInOrder'
<1> SUFFICES ASSUME IInv, [Next]_vars PROVE StagesInOrder'
  OBVIOUS
<1>0. StagesInOrder
  BY DEF IInv
<1>1. /\ alerts \subseteq alerts' /\ cutouts \subseteq cutouts'
      /\ enriched \subseteq enriched' /\ filtered \subseteq filtered'
  BY DatabaseGrows
<1>2. ASSUME /\ UNCHANGED <<enrichment_queue, filter_queue, published>>
             /\ \/ UNCHANGED <<ebatch, fbatch>>
                \/ /\ ebatch' = [e \in EnrichmentWorker |-> {}]
                   /\ fbatch' = [f \in FilterWorker |-> {}]
      PROVE  StagesInOrder'
  BY <1>0, <1>1, <1>2 DEF StagesInOrder
<1> USE DEF vars, consumer, database, workers, downstream
<1>3. CASE Consume
  BY <1>2, <1>3 DEF Consume, ConsumerStart, Poll, Push, StoreOffset, AutoCommit,
                    ConsumerDies
<1>4. CASE Schedule
  BY <1>2, <1>4 DEF Schedule, SchedulerStart, Recover, StartWorkers, Respawn,
                    SchedulerDies
<1>5. CASE UNCHANGED vars
  BY <1>2, <1>5
<1> QED
  BY <1>3, <1>4, <1>5, StagesAlertStep, StagesEnrichmentStep, StagesFilterStep DEF Next

----------------------------------------------------------------------------
(* The theorems.                                                           *)

\* The invariant holds at the start.
LEMMA InitIInv == Init => IInv
<1> SUFFICES ASSUME Init PROVE IInv
  OBVIOUS
<1> USE MessageAssumption, NoAlertAssumption, FaultAssumption DEF Init, Empty
<1>1. TypeOK
  BY DEF TypeOK, Bag, FaultLog
<1>2. CommittedIsSafe /\ StoredIsComplete /\ WorkedOnIsRecoverable
  BY DEF CommittedIsSafe, StoredIsComplete, WorkedOnIsRecoverable, Offset
<1>3. StagesInOrder
  BY DEF StagesInOrder
<1>4. ConsumerInv /\ WorkerInv
  BY DEF ConsumerInv, WorkerInv
<1> QED
  BY <1>1, <1>2, <1>3, <1>4 DEF IInv

\* IInv is an inductive invariant of the pipeline.
THEOREM PipelineInvariant == Spec => []IInv
<1>1. IInv /\ [Next]_vars => IInv'
  BY TypeStep, CommittedStep, StoredStep, WorkedOnStep, StagesStep, ConsumerInvStep,
     WorkerInvStep DEF IInv
<1> QED
  BY <1>1, InitIInv, PTL DEF Spec

\* Every variable keeps its type; in particular no list ever holds a negative
\* number of copies, although LREM is retried.
THEOREM PipelineTypes == Spec => []TypeOK
<1>1. IInv => TypeOK
  BY DEF IInv
<1> QED
  BY <1>1, PipelineInvariant, PTL

\* No committed packet is lost between Kafka and MongoDB, for any topic, any
\* number of workers and any number of faults of any kind.
THEOREM NoCommittedLoss == Spec => []CommittedIsSafe
<1>1. IInv => CommittedIsSafe
  BY DEF IInv
<1> QED
  BY <1>1, PipelineInvariant, PTL

\* An alert in the database implies its aux and cutouts are there too.
THEOREM AlertsComplete == Spec => []StoredIsComplete
<1>1. IInv => StoredIsComplete
  BY DEF IInv
<1> QED
  BY <1>1, PipelineInvariant, PTL

\* A packet that a worker is processing survives the worker.
THEOREM PacketsRecoverable == Spec => []WorkedOnIsRecoverable
<1>1. IInv => WorkedOnIsRecoverable
  BY DEF IInv
<1> QED
  BY <1>1, PipelineInvariant, PTL

\* No stage sees an alert before the stage upstream has finished with it.
THEOREM StagesOrdered == Spec => []StagesInOrder
<1>1. IInv => StagesInOrder
  BY DEF IInv
<1> QED
  BY <1>1, PipelineInvariant, PTL

----------------------------------------------------------------------------
(* Enriched and filtered at most once.                                     *)

\* Who has an alert on its way from the insert to the filters, besides the two lists.
Pushers(a) == {w \in AlertWorker : apc[w] = "push" /\ held[w] = a}
Enrichers(a) == {e \in EnrichmentWorker : a \in ebatch[e]}
Filterers(a) == {f \in FilterWorker : fpc[f] = "process" /\ a \in fbatch[f]}

\* The alert is nowhere on that way.
Gone(a) ==
    /\ Pushers(a) = {} /\ Enrichers(a) = {} /\ Filterers(a) = {}
    /\ enrichment_queue[a] = 0 /\ filter_queue[a] = 0

\* The set S has at most one member.
AtMostOne(S) == \A x, y \in S : x = y

\* It is in at most one place of that way, and there once.
InOnePlace(a) ==
    /\ AtMostOne(Pushers(a)) /\ AtMostOne(Enrichers(a)) /\ AtMostOne(Filterers(a))
    /\ enrichment_queue[a] <= 1 /\ filter_queue[a] <= 1
    /\ Pushers(a) # {} => /\ Enrichers(a) = {} /\ Filterers(a) = {}
                          /\ enrichment_queue[a] = 0 /\ filter_queue[a] = 0
    /\ Enrichers(a) # {} => /\ Filterers(a) = {}
                            /\ enrichment_queue[a] = 0 /\ filter_queue[a] = 0
    /\ Filterers(a) # {} => enrichment_queue[a] = 0 /\ filter_queue[a] = 0
    /\ enrichment_queue[a] = 0 \/ filter_queue[a] = 0

\* The inductive invariant behind ProcessedOnce: what counts copies, as places.
OnceInv ==
    /\ filtered \cup skipped \subseteq alerts
    /\ ~Happened("reply") =>
         \A a \in Alert : InOnePlace(a) /\ (a \in filtered \cup skipped => Gone(a))

\* The number of the places is then at most one.
LEMMA OnePlaceIsOneCopy ==
  ASSUME TypeOK, NEW a \in Alert, InOnePlace(a)
  PROVE  Copies(a) <= 1 /\ (Gone(a) => Copies(a) = 0)
<1> DEFINE P == Cardinality(Pushers(a))
           E == Cardinality(Enrichers(a))
           F == Cardinality(Filterers(a))
<1>1. ASSUME NEW S, AtMostOne(S) PROVE (S = {} /\ Cardinality(S) = 0) \/ (S # {} /\ Cardinality(S) = 1)
  <2>1. CASE S = {}
    BY <2>1, FS_EmptySet
  <2>2. ASSUME S # {} PROVE Cardinality(S) = 1
    <3>1. PICK x \in S : TRUE
      BY <2>2
    <3>2. S = {x}
      BY <1>1, <3>1 DEF AtMostOne
    <3> QED
      BY <3>2, FS_Singleton
  <2> QED
    BY <2>1, <2>2
<1>2. /\ (Pushers(a) = {} /\ P = 0) \/ (Pushers(a) # {} /\ P = 1)
      /\ (Enrichers(a) = {} /\ E = 0) \/ (Enrichers(a) # {} /\ E = 1)
      /\ (Filterers(a) = {} /\ F = 0) \/ (Filterers(a) # {} /\ F = 1)
  BY <1>1 DEF InOnePlace
<1>3. enrichment_queue[a] \in Nat /\ filter_queue[a] \in Nat
  BY DEF TypeOK, Bag
<1>4. Copies(a) = P + enrichment_queue[a] + E + filter_queue[a] + F
  BY DEF Copies, Pushers, Enrichers, Filterers
<1> HIDE DEF P, E, F
<1>5. P + enrichment_queue[a] + E + filter_queue[a] + F <= 1
  BY <1>2, <1>3 DEF InOnePlace
<1>6. Gone(a) => P + enrichment_queue[a] + E + filter_queue[a] + F = 0
  BY <1>2, <1>3 DEF Gone
<1> QED
  BY <1>4, <1>5, <1>6

\* A step that puts the alert nowhere new.
LEMMA NowhereNew ==
  ASSUME NEW a, InOnePlace(a), enrichment_queue'[a] \in Nat, filter_queue'[a] \in Nat,
         enrichment_queue[a] \in Nat, filter_queue[a] \in Nat,
         Pushers(a)' \subseteq Pushers(a), Enrichers(a)' \subseteq Enrichers(a),
         Filterers(a)' \subseteq Filterers(a),
         enrichment_queue'[a] <= enrichment_queue[a], filter_queue'[a] <= filter_queue[a]
  PROVE  InOnePlace(a)' /\ (Gone(a) => Gone(a)')
<1>1. (AtMostOne(Pushers(a)) /\ AtMostOne(Enrichers(a)) /\ AtMostOne(Filterers(a)))'
  BY DEF InOnePlace, AtMostOne
<1>2. /\ Pushers(a)' # {} => Pushers(a) # {}
      /\ Enrichers(a)' # {} => Enrichers(a) # {}
      /\ Filterers(a)' # {} => Filterers(a) # {}
  OBVIOUS
<1>3. enrichment_queue[a] = 0 => enrichment_queue'[a] = 0
  OBVIOUS
<1>4. filter_queue[a] = 0 => filter_queue'[a] = 0
  OBVIOUS
<1>5. InOnePlace(a)'
  BY <1>1, <1>2, <1>3, <1>4 DEF InOnePlace
<1> QED
  BY <1>2, <1>3, <1>4, <1>5 DEF Gone

\* An alert that is not stored is nowhere on the way.
LEMMA OnlyStoredIsOnItsWay ==
  ASSUME IInv, NEW a \in Alert, a \notin alerts
  PROVE  Gone(a)
<1>1. TypeOK /\ WorkerInv /\ StagesInOrder
  BY DEF IInv
<1>2. enrichment_queue[a] \in Nat /\ filter_queue[a] \in Nat
  BY <1>1 DEF TypeOK, Bag
<1>3. enrichment_queue[a] = 0 /\ filter_queue[a] = 0
  BY <1>1, <1>2 DEF StagesInOrder, WorkerInv
<1>4. Pushers(a) = {}
  BY <1>1 DEF Pushers, WorkerInv
<1>5. Enrichers(a) = {} /\ Filterers(a) = {}
  BY <1>1 DEF Enrichers, Filterers, StagesInOrder, WorkerInv
<1> QED
  BY <1>3, <1>4, <1>5 DEF Gone

\* The log of the faults only grows; a lost reply stays in it.
LEMMA RepliesStayLost ==
  ASSUME IInv, [Next]_vars, ~Happened("reply")'
  PROVE  ~Happened("reply") /\ ~Fault("reply") /\ \A n : Applied(n) => n = 1
<1>1. faults \in Seq(FaultKind)
  BY DEF IInv, TypeOK, FaultLog
<1>2. ASSUME NEW kind, Fault(kind), kind \in FaultKind
      PROVE  /\ Len(faults') = Len(faults) + 1 /\ faults'[Len(faults) + 1] = kind
             /\ DOMAIN faults' = 1 .. Len(faults) + 1 /\ DOMAIN faults = 1 .. Len(faults)
             /\ \A i \in 1 .. Len(faults) : faults'[i] = faults[i]
  BY <1>1, <1>2 DEF Fault
<1>3. ~Fault("reply")
  <2> SUFFICES ASSUME Fault("reply") PROVE FALSE
    OBVIOUS
  <2>1. Len(faults) + 1 \in DOMAIN faults' /\ faults'[Len(faults) + 1] = "reply"
    BY <1>1, <1>2 DEF FaultKind
  <2> QED
    BY <2>1 DEF Happened
<1>4. ASSUME NEW kind, Fault(kind) PROVE Happened("reply") => Happened("reply")'
  BY <1>2, <1>4, FaultAssumption DEF Fault, Happened
<1>5. CASE UNCHANGED faults
  BY <1>5, <1>3 DEF Happened, Applied
<1>6. UNCHANGED faults \/ \E kind : Fault(kind)
  <2> USE DEF vars, consumer, database, workers, downstream, Applied
  <2>1. CASE Consume
    BY <2>1 DEF Consume, ConsumerStart, Poll, Push, StoreOffset, AutoCommit, ConsumerDies
  <2>2. ASSUME NEW w \in AlertWorker, AlertStep(w) PROVE UNCHANGED faults \/ \E kind : Fault(kind)
    BY <2>2 DEF AlertStep, Retrieve, RetrieveLost, CheckExists, WriteAux, WriteCutouts,
                InsertAlert, ProcessError, PushCandid, RemoveFromTemp, AlertWorkerDies
  <2>3. ASSUME NEW e \in EnrichmentWorker, EnrichmentStep(e)
        PROVE  UNCHANGED faults \/ \E kind : Fault(kind)
    BY <2>3 DEF EnrichmentStep, PopCandids, PopCandidsLost, Enrich, PushEnriched,
                EnrichmentWorkerDies
  <2>4. ASSUME NEW f \in FilterWorker, FilterStep(f) PROVE UNCHANGED faults \/ \E kind : Fault(kind)
    BY <2>4 DEF FilterStep, PopEnriched, PopEnrichedLost, RunFilters, SendMatches,
                FilterWorkerDies
  <2>5. CASE Schedule
    BY <2>5 DEF Schedule, SchedulerStart, Recover, StartWorkers, Respawn, SchedulerDies
  <2>6. CASE UNCHANGED vars
    BY <2>6
  <2> QED
    BY <2>1, <2>2, <2>3, <2>4, <2>5, <2>6 DEF Next
<1> QED
  BY <1>3, <1>4, <1>5, <1>6 DEF Applied, Happened

\* A step of an alert worker: the insert lets one worker in, the push moves the alert
\* from it to the list.
LEMMA OnceAlertStep ==
  ASSUME IInv, OnceInv, IInv', ~Happened("reply"), ~Fault("reply"), \A n : Applied(n) => n = 1,
         NEW w \in AlertWorker, AlertStep(w), NEW a \in Alert
  PROVE  InOnePlace(a)' /\ (a \in filtered \cup skipped => Gone(a)')
<1>1. TypeOK /\ WorkerInv /\ InOnePlace(a) /\ (a \in filtered \cup skipped => Gone(a) /\ a \in alerts)
  BY DEF IInv, OnceInv
<1>2. /\ enrichment_queue[a] \in Nat /\ filter_queue[a] \in Nat
      /\ enrichment_queue'[a] \in Nat /\ filter_queue'[a] \in Nat
  BY DEF IInv, TypeOK, Bag
<1> USE DEF vars, consumer, database, workers, downstream, Goto, Drop
<1>3. UNCHANGED <<ebatch, fpc, fbatch, filter_queue>>
  BY DEF AlertStep, Retrieve, RetrieveLost, CheckExists, WriteAux, WriteCutouts,
         InsertAlert, ProcessError, PushCandid, RemoveFromTemp, AlertWorkerDies
<1>4. Enrichers(a)' = Enrichers(a) /\ Filterers(a)' = Filterers(a)
  BY <1>3 DEF Enrichers, Filterers
<1>5. \A v \in AlertWorker \ {w} : apc'[v] = apc[v] /\ held'[v] = held[v]
  BY <1>1 DEF TypeOK, AlertStep, Retrieve, RetrieveLost, CheckExists, WriteAux, WriteCutouts,
         InsertAlert, ProcessError, PushCandid, RemoveFromTemp, AlertWorkerDies
<1>6. ASSUME UNCHANGED enrichment_queue, apc'[w] # "push" \/ held'[w] # a
      PROVE  InOnePlace(a)' /\ (a \in filtered \cup skipped => Gone(a)')
  <2>1. Pushers(a)' \subseteq Pushers(a)
    BY <1>5, <1>6 DEF Pushers
  <2> QED
    BY <1>1, <1>2, <1>3, <1>4, <1>6, <2>1, NowhereNew
<1>7. CASE InsertAlert(w) /\ held[w] = a
  <2>1. CASE a \in alerts
    <3>1. apc'[w] = "remove" /\ UNCHANGED enrichment_queue
      BY <1>1, <1>7, <2>1 DEF InsertAlert, TypeOK
    <3> QED
      BY <1>6, <3>1
  <2>2. CASE a \notin alerts
    <3>1. Gone(a) /\ a \notin filtered \cup skipped
      BY <1>1, <2>2, OnlyStoredIsOnItsWay
    <3>2. UNCHANGED enrichment_queue
      BY <1>7 DEF InsertAlert
    <3>3. Pushers(a)' \subseteq {w}
      BY <1>5, <3>1 DEF Pushers, Gone
    <3> QED
      BY <1>3, <1>4, <3>1, <3>2, <3>3 DEF Gone, InOnePlace, AtMostOne
  <2> QED
    BY <2>1, <2>2
<1>8. ASSUME NEW n \in 1 .. MaxAttempts, PushCandid(w, n), held[w] = a
      PROVE  InOnePlace(a)' /\ (a \in filtered \cup skipped => Gone(a)')
  <2>1. n = 1 /\ enrichment_queue'[a] = enrichment_queue[a] + 1 /\ apc'[w] = "remove"
    BY <1>1, <1>8 DEF PushCandid, Put, TypeOK, Bag
  <2>2. w \in Pushers(a)
    BY <1>8 DEF PushCandid, Pushers
  <2>3. Pushers(a)' = {}
    BY <1>1, <1>5, <2>1, <2>2 DEF Pushers, InOnePlace, AtMostOne
  <2>4. /\ Enrichers(a) = {} /\ Filterers(a) = {}
        /\ enrichment_queue[a] = 0 /\ filter_queue[a] = 0 /\ ~Gone(a)
    BY <1>1, <2>2 DEF InOnePlace, Gone
  <2> QED
    BY <1>1, <1>3, <1>4, <2>1, <2>3, <2>4 DEF InOnePlace, AtMostOne
<1>9. ASSUME NEW n \in 1 .. MaxAttempts, PushCandid(w, n), held[w] # a
      PROVE  UNCHANGED <<held>> /\ enrichment_queue'[a] = enrichment_queue[a] /\ apc'[w] # "push"
  BY <1>1, <1>9 DEF PushCandid, Put, TypeOK, Bag
<1>10. ASSUME NEW n \in 1 .. MaxAttempts, PushCandid(w, n), held[w] # a
       PROVE  InOnePlace(a)' /\ (a \in filtered \cup skipped => Gone(a)')
  <2>1. Pushers(a)' \subseteq Pushers(a)
    BY <1>5, <1>9, <1>10 DEF Pushers
  <2> QED
    BY <1>1, <1>2, <1>3, <1>4, <1>9, <1>10, <2>1, NowhereNew
<1>11. ASSUME NEW x \in Alert, Retrieve(w, x) \/ RetrieveLost(w, x)
       PROVE  UNCHANGED enrichment_queue /\ apc'[w] # "push"
  BY <1>1, <1>11 DEF Retrieve, RetrieveLost, TypeOK
<1>12. CASE CheckExists(w) \/ WriteAux(w) \/ WriteCutouts(w) \/ ProcessError(w) \/ AlertWorkerDies(w)
  <2>1. UNCHANGED enrichment_queue /\ apc'[w] # "push"
    BY <1>1, <1>12 DEF CheckExists, WriteAux, WriteCutouts, ProcessError, AlertWorkerDies, TypeOK
  <2> QED
    BY <1>6, <2>1
<1>13. ASSUME NEW n \in 1 .. MaxAttempts, RemoveFromTemp(w, n)
       PROVE  UNCHANGED enrichment_queue /\ apc'[w] # "push"
  BY <1>1, <1>13 DEF RemoveFromTemp, TypeOK
<1>14. CASE InsertAlert(w) /\ held[w] # a
  <2>1. UNCHANGED enrichment_queue /\ held'[w] # a
    BY <1>14 DEF InsertAlert
  <2> QED
    BY <1>6, <2>1
<1> QED
  BY <1>6, <1>7, <1>8, <1>10, <1>11, <1>12, <1>13, <1>14 DEF AlertStep

\* A step of an enrichment worker: a pop moves an alert to its batch, a push to the next
\* list, and an alert that is left out is nowhere any more.
LEMMA OnceEnrichmentStep ==
  ASSUME IInv, OnceInv, IInv', ~Happened("reply"), ~Fault("reply"), \A n : Applied(n) => n = 1,
         NEW e \in EnrichmentWorker, EnrichmentStep(e), NEW a \in Alert
  PROVE  InOnePlace(a)' /\ (a \in (filtered \cup skipped)' => Gone(a)')
<1>1. TypeOK /\ InOnePlace(a) /\ (a \in filtered \cup skipped => Gone(a))
  BY DEF IInv, OnceInv
<1>2. /\ enrichment_queue[a] \in Nat /\ filter_queue[a] \in Nat
      /\ enrichment_queue'[a] \in Nat /\ filter_queue'[a] \in Nat
  BY DEF IInv, TypeOK, Bag
<1> USE DEF vars, consumer, database, workers, downstream
<1>3. UNCHANGED <<apc, held, fpc, fbatch, filtered>>
  BY DEF EnrichmentStep, PopCandids, PopCandidsLost, Enrich, PushEnriched, EnrichmentWorkerDies
<1>4. Pushers(a)' = Pushers(a) /\ Filterers(a)' = Filterers(a)
  BY <1>3 DEF Pushers, Filterers
<1>5. \A d \in EnrichmentWorker \ {e} : ebatch'[d] = ebatch[d]
  BY <1>1 DEF TypeOK, EnrichmentStep, PopCandids, PopCandidsLost, Enrich, PushEnriched,
              EnrichmentWorkerDies
<1>6. ASSUME a \in ebatch'[e] => a \in ebatch[e], UNCHANGED skipped,
             enrichment_queue'[a] <= enrichment_queue[a], filter_queue'[a] <= filter_queue[a]
      PROVE  InOnePlace(a)' /\ (a \in (filtered \cup skipped)' => Gone(a)')
  <2>1. Enrichers(a)' \subseteq Enrichers(a)
    BY <1>5, <1>6 DEF Enrichers
  <2> QED
    BY <1>1, <1>2, <1>3, <1>4, <1>6, <2>1, NowhereNew
<1>7. ASSUME NEW S \in SUBSET Alert, PopCandids(e, S)
      PROVE  InOnePlace(a)' /\ (a \in (filtered \cup skipped)' => Gone(a)')
  <2>1. ebatch'[e] = S /\ UNCHANGED <<skipped, filter_queue>>
    BY <1>1, <1>7 DEF PopCandids, TypeOK
  <2>2. CASE a \notin S
    <3>1. enrichment_queue'[a] = enrichment_queue[a]
      BY <1>7, <2>2 DEF PopCandids, TakeAll
    <3> QED
      BY <1>2, <1>6, <2>1, <2>2, <3>1
  <2>3. CASE a \in S
    <3>1. enrichment_queue[a] > 0 /\ enrichment_queue'[a] = enrichment_queue[a] - 1
      BY <1>7, <2>3 DEF PopCandids, TakeAll, Batch
    <3>2. /\ enrichment_queue[a] = 1 /\ filter_queue[a] = 0
          /\ Pushers(a) = {} /\ Enrichers(a) = {} /\ Filterers(a) = {} /\ ~Gone(a)
      BY <1>1, <1>2, <3>1 DEF InOnePlace, Gone
    <3>3. Enrichers(a)' \subseteq {e}
      BY <1>5, <3>2 DEF Enrichers
    <3>4. enrichment_queue'[a] = 0 /\ filter_queue'[a] = 0
      BY <1>2, <2>1, <3>1, <3>2
    <3> QED
      BY <1>1, <1>3, <1>4, <2>1, <3>2, <3>3, <3>4 DEF InOnePlace, AtMostOne
  <2> QED
    BY <2>2, <2>3
<1>8. ASSUME NEW S \in SUBSET Alert, Enrich(e, S)
      PROVE  InOnePlace(a)' /\ (a \in (filtered \cup skipped)' => Gone(a)')
  <2>1. /\ ebatch'[e] = S /\ S \subseteq ebatch[e] /\ skipped' = skipped \cup (ebatch[e] \ S)
        /\ UNCHANGED <<enrichment_queue, filter_queue>>
    BY <1>1, <1>8 DEF Enrich, TypeOK
  <2>2. Enrichers(a)' \subseteq Enrichers(a)
    BY <1>5, <2>1 DEF Enrichers
  <2>3. InOnePlace(a)' /\ (Gone(a) => Gone(a)')
    BY <1>1, <1>2, <1>4, <2>1, <2>2, NowhereNew
  <2>4. ASSUME a \in ebatch[e] \ S PROVE Gone(a)'
    <3>1. e \in Enrichers(a)
      BY <2>4 DEF Enrichers
    <3>2. Enrichers(a)' = {}
      BY <1>1, <1>5, <2>1, <2>4, <3>1 DEF Enrichers, InOnePlace, AtMostOne
    <3> QED
      BY <1>1, <1>4, <2>1, <3>1, <3>2 DEF Gone, InOnePlace
  <2> QED
    BY <1>1, <1>3, <2>1, <2>3, <2>4
<1>9. ASSUME NEW n \in 1 .. MaxAttempts, PushEnriched(e, n)
      PROVE  InOnePlace(a)' /\ (a \in (filtered \cup skipped)' => Gone(a)')
  <2>1. n = 1 /\ ebatch'[e] = {} /\ UNCHANGED <<skipped, enrichment_queue>>
    BY <1>1, <1>9 DEF PushEnriched, TypeOK
  <2>2. CASE a \notin ebatch[e]
    <3>1. filter_queue'[a] = filter_queue[a]
      BY <1>9, <2>2 DEF PushEnriched, PutAll
    <3> QED
      BY <1>2, <1>6, <2>1, <3>1
  <2>3. CASE a \in ebatch[e]
    <3>1. filter_queue'[a] = filter_queue[a] + 1
      BY <1>9, <2>1, <2>3 DEF PushEnriched, PutAll
    <3>2. e \in Enrichers(a)
      BY <2>3 DEF Enrichers
    <3>3. Enrichers(a)' = {}
      BY <1>1, <1>5, <2>1, <3>2 DEF Enrichers, InOnePlace, AtMostOne
    <3>4. /\ Pushers(a) = {} /\ Filterers(a) = {} /\ ~Gone(a)
          /\ enrichment_queue[a] = 0 /\ filter_queue[a] = 0
      BY <1>1, <3>2 DEF InOnePlace, Gone
    <3> QED
      BY <1>1, <1>3, <1>4, <2>1, <3>1, <3>3, <3>4 DEF InOnePlace, AtMostOne
  <2> QED
    BY <2>2, <2>3
<1>10. CASE EnrichmentWorkerDies(e)
  <2>1. ebatch'[e] = {} /\ UNCHANGED <<skipped, enrichment_queue, filter_queue>>
    BY <1>1, <1>10 DEF EnrichmentWorkerDies, TypeOK
  <2> QED
    BY <1>2, <1>6, <2>1
<1> QED
  BY <1>7, <1>8, <1>9, <1>10 DEF EnrichmentStep, PopCandidsLost

\* A step of a filter worker: a pop moves an alert to its batch, and an alert that it has
\* run through the filters is nowhere any more.
LEMMA OnceFilterStep ==
  ASSUME IInv, OnceInv, IInv', ~Happened("reply"), ~Fault("reply"),
         NEW f \in FilterWorker, FilterStep(f), NEW a \in Alert
  PROVE  InOnePlace(a)' /\ (a \in (filtered \cup skipped)' => Gone(a)')
<1>1. TypeOK /\ InOnePlace(a) /\ (a \in filtered \cup skipped => Gone(a))
  BY DEF IInv, OnceInv
<1>2. /\ enrichment_queue[a] \in Nat /\ filter_queue[a] \in Nat
      /\ enrichment_queue'[a] \in Nat /\ filter_queue'[a] \in Nat
  BY DEF IInv, TypeOK, Bag
<1> USE DEF vars, consumer, database, workers, downstream
<1>3. UNCHANGED <<apc, held, ebatch, enrichment_queue, skipped>>
  BY DEF FilterStep, PopEnriched, PopEnrichedLost, RunFilters, SendMatches, FilterWorkerDies
<1>4. Pushers(a)' = Pushers(a) /\ Enrichers(a)' = Enrichers(a)
  BY <1>3 DEF Pushers, Enrichers
<1>5. \A g \in FilterWorker \ {f} : fbatch'[g] = fbatch[g] /\ fpc'[g] = fpc[g]
  BY <1>1 DEF TypeOK, FilterStep, PopEnriched, PopEnrichedLost, RunFilters, SendMatches,
              FilterWorkerDies
<1>6. ASSUME NEW S \in SUBSET Alert, PopEnriched(f, S)
      PROVE  InOnePlace(a)' /\ (a \in (filtered \cup skipped)' => Gone(a)')
  <2>1. fbatch'[f] = S /\ UNCHANGED filtered
    BY <1>1, <1>6 DEF PopEnriched, TypeOK
  <2>2. CASE a \notin S
    <3>1. filter_queue'[a] = filter_queue[a]
      BY <1>6, <2>2 DEF PopEnriched, TakeAll
    <3>2. Filterers(a)' \subseteq Filterers(a)
      BY <1>5, <2>1, <2>2 DEF Filterers
    <3> QED
      BY <1>1, <1>2, <1>3, <1>4, <2>1, <3>1, <3>2, NowhereNew
  <2>3. CASE a \in S
    <3>1. filter_queue[a] > 0 /\ filter_queue'[a] = filter_queue[a] - 1
      BY <1>6, <2>3 DEF PopEnriched, TakeAll, Batch
    <3>2. /\ filter_queue[a] = 1 /\ enrichment_queue[a] = 0
          /\ Pushers(a) = {} /\ Enrichers(a) = {} /\ Filterers(a) = {} /\ ~Gone(a)
      BY <1>1, <1>2, <3>1 DEF InOnePlace, Gone
    <3>3. Filterers(a)' \subseteq {f}
      BY <1>5, <3>2 DEF Filterers
    <3>4. enrichment_queue'[a] = 0 /\ filter_queue'[a] = 0
      BY <1>2, <1>3, <3>1, <3>2
    <3> QED
      BY <1>1, <1>3, <1>4, <2>1, <3>2, <3>3, <3>4 DEF InOnePlace, AtMostOne
  <2> QED
    BY <2>2, <2>3
<1>7. ASSUME NEW S \in SUBSET Alert, RunFilters(f, S)
      PROVE  InOnePlace(a)' /\ (a \in (filtered \cup skipped)' => Gone(a)')
  <2>1. /\ filtered' = filtered \cup fbatch[f] /\ fpc[f] = "process" /\ fpc'[f] # "process"
        /\ UNCHANGED filter_queue
    BY <1>1, <1>7 DEF RunFilters, TypeOK
  <2>2. Filterers(a)' \subseteq Filterers(a)
    BY <1>5, <2>1 DEF Filterers
  <2>3. InOnePlace(a)' /\ (Gone(a) => Gone(a)')
    BY <1>1, <1>2, <1>3, <1>4, <2>1, <2>2, NowhereNew
  <2>4. ASSUME a \in fbatch[f] PROVE Gone(a)'
    <3>1. f \in Filterers(a)
      BY <2>1, <2>4 DEF Filterers
    <3>2. Filterers(a)' = {}
      BY <1>1, <1>5, <2>1, <3>1 DEF Filterers, InOnePlace, AtMostOne
    <3> QED
      BY <1>1, <1>3, <1>4, <2>1, <3>1, <3>2 DEF Gone, InOnePlace
  <2> QED
    BY <1>1, <1>3, <2>1, <2>3, <2>4
<1>8. ASSUME NEW S \in SUBSET Alert, SendMatches(f, S) \/ FilterWorkerDies(f)
      PROVE  InOnePlace(a)' /\ (a \in (filtered \cup skipped)' => Gone(a)')
  <2>1. fpc'[f] # "process" /\ UNCHANGED <<filtered, filter_queue>>
    BY <1>1, <1>8 DEF SendMatches, FilterWorkerDies, TypeOK
  <2>2. Filterers(a)' \subseteq Filterers(a)
    BY <1>5, <2>1 DEF Filterers
  <2> QED
    BY <1>1, <1>2, <1>3, <1>4, <2>1, <2>2, NowhereNew
<1> QED
  BY <1>6, <1>7, <1>8 DEF FilterStep, PopEnrichedLost

\* The consumer and the scheduler put no alert anywhere on the way.
LEMMA OnceOtherStep ==
  ASSUME IInv, OnceInv, IInv', ~Happened("reply"), Consume \/ Schedule \/ UNCHANGED vars,
         NEW a \in Alert
  PROVE  InOnePlace(a)' /\ (a \in (filtered \cup skipped)' => Gone(a)')
<1>1. TypeOK /\ WorkerInv /\ InOnePlace(a) /\ (a \in filtered \cup skipped => Gone(a))
  BY DEF IInv, OnceInv
<1>2. /\ enrichment_queue[a] \in Nat /\ filter_queue[a] \in Nat
      /\ enrichment_queue'[a] \in Nat /\ filter_queue'[a] \in Nat
  BY DEF IInv, TypeOK, Bag
<1> USE DEF vars, consumer, database, workers, downstream
<1>3. UNCHANGED <<enrichment_queue, filter_queue, filtered, skipped>>
  BY DEF Consume, ConsumerStart, Poll, Push, StoreOffset, AutoCommit, ConsumerDies,
         Schedule, SchedulerStart, Recover, StartWorkers, Respawn, SchedulerDies
<1>4. CASE UNCHANGED <<apc, held, ebatch, fpc, fbatch>>
  BY <1>1, <1>2, <1>3, <1>4, NowhereNew DEF Pushers, Enrichers, Filterers
<1>5. CASE StartWorkers \/ Respawn \/ SchedulerDies
  <2>1. \A w \in AlertWorker : apc'[w] = "push" => apc[w] = "push" /\ held'[w] = held[w]
    BY <1>1, <1>5 DEF StartWorkers, Respawn, SchedulerDies, TypeOK
  <2>2. \A e \in EnrichmentWorker : ebatch'[e] \subseteq ebatch[e]
    BY <1>1, <1>5 DEF StartWorkers, Respawn, SchedulerDies, TypeOK
  <2>3. \A f \in FilterWorker : fpc'[f] = "process" => fpc[f] = "process" /\ fbatch'[f] = fbatch[f]
    BY <1>1, <1>5 DEF StartWorkers, Respawn, SchedulerDies, TypeOK
  <2>4. Pushers(a)' \subseteq Pushers(a)
    BY <2>1 DEF Pushers
  <2>5. Enrichers(a)' \subseteq Enrichers(a)
    BY <2>2 DEF Enrichers
  <2>6. Filterers(a)' \subseteq Filterers(a)
    BY <2>3 DEF Filterers
  <2> QED
    BY <1>1, <1>2, <1>3, <2>4, <2>5, <2>6, NowhereNew
<1>6. CASE Consume \/ SchedulerStart \/ (\E x \in Alert : Recover(x)) \/ UNCHANGED vars
  BY <1>4, <1>6 DEF Consume, ConsumerStart, Poll, Push, StoreOffset, AutoCommit, ConsumerDies,
                    SchedulerStart, Recover
<1> QED
  BY <1>5, <1>6 DEF Schedule

\* What was filtered or left out is stored.
LEMMA ProcessedIsStored ==
  ASSUME IInv, OnceInv, [Next]_vars
  PROVE  (filtered \cup skipped \subseteq alerts)'
<1>1. TypeOK /\ WorkerInv /\ StagesInOrder /\ filtered \cup skipped \subseteq alerts
  BY DEF IInv, OnceInv
<1>2. alerts \subseteq alerts'
  BY DatabaseGrows
<1> USE DEF vars, consumer, database, workers, downstream
<1>3. CASE UNCHANGED <<filtered, skipped>>
  BY <1>1, <1>2, <1>3
<1>4. CASE Consume \/ Schedule \/ UNCHANGED vars
  BY <1>3, <1>4 DEF Consume, ConsumerStart, Poll, Push, StoreOffset, AutoCommit, ConsumerDies,
         Schedule, SchedulerStart, Recover, StartWorkers, Respawn, SchedulerDies
<1>5. ASSUME NEW w \in AlertWorker, AlertStep(w) PROVE UNCHANGED <<filtered, skipped>>
  BY <1>5 DEF AlertStep, Retrieve, RetrieveLost, CheckExists, WriteAux, WriteCutouts,
         InsertAlert, ProcessError, PushCandid, RemoveFromTemp, AlertWorkerDies
<1>6. ASSUME NEW e \in EnrichmentWorker, EnrichmentStep(e)
      PROVE  filtered' \cup skipped' \subseteq alerts
  <2>1. ebatch[e] \subseteq alerts
    BY <1>1 DEF StagesInOrder
  <2>2. filtered' = filtered /\ (skipped' = skipped \/ skipped' \subseteq skipped \cup ebatch[e])
    BY <1>6 DEF EnrichmentStep, PopCandids, PopCandidsLost, Enrich, PushEnriched,
                EnrichmentWorkerDies
  <2> QED
    BY <1>1, <2>1, <2>2
<1>7. ASSUME NEW f \in FilterWorker, FilterStep(f) PROVE filtered' \cup skipped' \subseteq alerts
  <2>1. fbatch[f] \subseteq alerts
    BY <1>1 DEF StagesInOrder, WorkerInv
  <2>2. skipped' = skipped /\ (filtered' = filtered \/ filtered' = filtered \cup fbatch[f])
    BY <1>7 DEF FilterStep, PopEnriched, PopEnrichedLost, RunFilters, SendMatches,
                FilterWorkerDies
  <2> QED
    BY <1>1, <2>1, <2>2
<1> QED
  BY <1>2, <1>3, <1>4, <1>5, <1>6, <1>7 DEF Next

\* Every step keeps OnceInv.
LEMMA OnceStep == IInv /\ IInv' /\ OnceInv /\ [Next]_vars => OnceInv'
<1> SUFFICES ASSUME IInv, IInv', OnceInv, [Next]_vars PROVE OnceInv'
  OBVIOUS
<1>1. ASSUME ~Happened("reply")', NEW a \in Alert
      PROVE  InOnePlace(a)' /\ (a \in (filtered \cup skipped)' => Gone(a)')
  <2>1. ~Happened("reply") /\ ~Fault("reply") /\ \A n : Applied(n) => n = 1
    BY <1>1, RepliesStayLost
  <2>2. CASE Consume \/ Schedule \/ UNCHANGED vars
    BY <1>1, <2>1, <2>2, OnceOtherStep
  <2>3. ASSUME NEW w \in AlertWorker, AlertStep(w)
        PROVE  InOnePlace(a)' /\ (a \in (filtered \cup skipped)' => Gone(a)')
    <3>1. UNCHANGED <<filtered, skipped>>
      BY <2>3 DEF AlertStep, Retrieve, RetrieveLost, CheckExists, WriteAux, WriteCutouts,
         InsertAlert, ProcessError, PushCandid, RemoveFromTemp, AlertWorkerDies, downstream
    <3> QED
      BY <1>1, <2>1, <2>3, <3>1, OnceAlertStep
  <2>4. ASSUME NEW e \in EnrichmentWorker, EnrichmentStep(e)
        PROVE  InOnePlace(a)' /\ (a \in (filtered \cup skipped)' => Gone(a)')
    BY <1>1, <2>1, <2>4, OnceEnrichmentStep
  <2>5. ASSUME NEW f \in FilterWorker, FilterStep(f)
        PROVE  InOnePlace(a)' /\ (a \in (filtered \cup skipped)' => Gone(a)')
    BY <1>1, <2>1, <2>5, OnceFilterStep
  <2> QED
    BY <2>2, <2>3, <2>4, <2>5 DEF Next
<1> QED
  BY <1>1, ProcessedIsStored DEF OnceInv

\* As long as no reply of Valkey is lost an alert is enriched and filtered at most once:
\* whichever workers pick up its packet, however often it is delivered or recovered, and
\* whatever dies.
THEOREM AlertsProcessedOnce == Spec => []ProcessedOnce
<1>1. Init => OnceInv
  <2> SUFFICES ASSUME Init PROVE OnceInv
    OBVIOUS
  <2>1. \A a \in Alert : Gone(a)
    BY DEF Init, Empty, Gone, Pushers, Enrichers, Filterers
  <2>2. \A a \in Alert : InOnePlace(a)
    BY <2>1 DEF Gone, InOnePlace, AtMostOne
  <2> QED
    BY <2>1, <2>2 DEF Init, OnceInv
<1>2. IInv /\ OnceInv => ProcessedOnce
  BY OnePlaceIsOneCopy DEF IInv, OnceInv, ProcessedOnce
<1> QED
  BY <1>1, <1>2, OnceStep, PipelineInvariant, PTL DEF Spec
============================================================================
