--------------------------- MODULE AlertPipeline ---------------------------
(***************************************************************************)
(* The path of an alert through BOOM: from the survey's Kafka topic to the *)
(* input list in Valkey (src/src/kafka/base.rs, consumer), through the     *)
(* alert workers and their temp list into MongoDB                          *)
(* (src/src/alert/base.rs, src/src/alert/ztf.rs), through the enrichment   *)
(* and the filter workers (src/src/enrichment/base.rs,                     *)
(* src/src/filter/base.rs) to the output topic; with the scheduler that    *)
(* starts the workers, respawns them and recovers the temp list            *)
(* (src/src/bin/scheduler.rs, src/src/scheduler/base.rs).                  *)
(*                                                                         *)
(* One step is one operation on Kafka, Valkey or MongoDB.  A Valkey list   *)
(* is a bag: how many copies of an alert it holds.  Which alert a pop      *)
(* takes is left open, so nothing here depends on the order of a list.     *)
(***************************************************************************)
EXTENDS Integers, FiniteSets, Sequences

CONSTANTS
    Alert,              \* alert packets, by candid
    NMessages,          \* messages of the topic, from the starting position on
    AlertAt,            \* AlertAt[o]: the packet at offset o; may repeat
    NoAlert,            \* a worker that holds no packet
    AlertWorker, EnrichmentWorker, FilterWorker,
    MaxAttempts,        \* how often retry_transient issues an operation at most
    BatchSize,          \* how many elements one RPOP takes at most
    FaultKinds,         \* which of FaultKind the environment may inject
    MaxFaults           \* bound on the number of faults

\* consumer: the consumer process dies.  scheduler: the scheduler process
\* dies, and its workers with it.  worker: a worker thread returns an error or
\* panics.  process: process_alert returns an error.  reply: an operation is
\* applied by Valkey, its reply is lost, and retry_transient issues it again.
FaultKind == {"consumer", "scheduler", "worker", "process", "reply"}

ASSUME MessageAssumption == /\ NMessages \in Nat
                            /\ AlertAt \in [1 .. NMessages -> Alert]
ASSUME NoAlertAssumption == NoAlert \notin Alert
ASSUME FaultAssumption == /\ FaultKinds \subseteq FaultKind
                          /\ MaxFaults \in Nat
ASSUME BatchAssumption == BatchSize \in Nat \ {0}
ASSUME AttemptsAssumption == MaxAttempts \in Nat \ {0}

VARIABLES
    \* The consumer: where it is; the next offset to poll; the offset it has
    \* stored for the auto-commit; the offset the group has committed.
    cpc, position, stored, committed,
    \* The Valkey lists.
    input, temp, enrichment_queue, filter_queue,
    \* MongoDB: the candids in the collection of alerts, those whose photometry
    \* is in the aux collection, those whose cutouts are stored, and those whose
    \* classifications are written.
    alerts, aux, cutouts, enriched,
    scheduler,          \* the scheduler process
    apc, held,          \* the alert workers, and the packet each works on
    epc, ebatch,        \* the enrichment workers and their batches
    fpc, fbatch,        \* the filter workers and their batches
    skipped,            \* alerts enrichment dropped for an empty lightcurve
    filtered,           \* alerts that were run through the filters
    published,          \* alerts delivered to the output topic
    faults              \* the kinds of the faults that have happened

consumer == <<cpc, position, stored, committed>>
database == <<alerts, aux, cutouts, enriched>>
downstream == <<epc, ebatch, fpc, fbatch, skipped, filtered, published,
                enrichment_queue, filter_queue>>
workers == <<apc, held>>
vars == <<consumer, input, temp, database, scheduler, workers, downstream, faults>>

Offset == 1 .. NMessages
Bag == [Alert -> Nat]

FaultLog == {s \in Seq(FaultKind) : Len(s) <= MaxFaults}

\* A type for every variable.
TypeOK ==
    /\ cpc \in {"down", "poll", "push", "store"}
    /\ position \in 1 .. NMessages + 1
    /\ stored \in 1 .. NMessages + 1
    /\ committed \in 1 .. NMessages + 1
    /\ input \in Bag /\ temp \in Bag
    /\ enrichment_queue \in Bag /\ filter_queue \in Bag
    /\ alerts \in SUBSET Alert /\ aux \in SUBSET Alert
    /\ cutouts \in SUBSET Alert /\ enriched \in SUBSET Alert
    /\ scheduler \in {"down", "recovering", "up"}
    /\ apc \in [AlertWorker -> {"down", "idle", "check", "aux", "cutouts",
                                "insert", "push", "remove"}]
    /\ held \in [AlertWorker -> Alert \cup {NoAlert}]
    /\ epc \in [EnrichmentWorker -> {"down", "idle", "process", "push"}]
    /\ ebatch \in [EnrichmentWorker -> SUBSET Alert]
    /\ fpc \in [FilterWorker -> {"down", "idle", "process", "send"}]
    /\ fbatch \in [FilterWorker -> SUBSET Alert]
    /\ skipped \in SUBSET Alert /\ filtered \in SUBSET Alert
    /\ published \in SUBSET Alert
    /\ faults \in FaultLog

Empty == [a \in Alert |-> 0]

Init ==
    /\ cpc = "down" /\ position = 1 /\ stored = 1 /\ committed = 1
    /\ input = Empty /\ temp = Empty
    /\ enrichment_queue = Empty /\ filter_queue = Empty
    /\ alerts = {} /\ aux = {} /\ cutouts = {} /\ enriched = {}
    /\ scheduler = "down"
    /\ apc = [w \in AlertWorker |-> "down"]
    /\ held = [w \in AlertWorker |-> NoAlert]
    /\ epc = [e \in EnrichmentWorker |-> "down"]
    /\ ebatch = [e \in EnrichmentWorker |-> {}]
    /\ fpc = [f \in FilterWorker |-> "down"]
    /\ fbatch = [f \in FilterWorker |-> {}]
    /\ skipped = {} /\ filtered = {} /\ published = {}
    /\ faults = << >>

Fault(kind) == /\ kind \in FaultKinds
               /\ Len(faults) < MaxFaults
               /\ faults' = Append(faults, kind)

\* An operation takes effect once; or, when replies are lost and
\* retry_transient issues it again, several times.
Applied(n) == \/ n = 1 /\ UNCHANGED faults
              \/ n > 1 /\ Fault("reply")

Put(bag, a, n) == [bag EXCEPT ![a] = @ + n]

Take(bag, a, n) == [bag EXCEPT ![a] = IF @ < n THEN 0 ELSE @ - n]
PutAll(bag, S, n) == [a \in Alert |-> IF a \in S THEN bag[a] + n ELSE bag[a]]
TakeAll(bag, S) == [a \in Alert |-> IF a \in S THEN bag[a] - 1 ELSE bag[a]]

----------------------------------------------------------------------------
(* The Kafka consumer.                                                     *)

\* A consumer resumes at the committed offset of its group.
ConsumerStart ==
    /\ cpc = "down"
    /\ cpc' = "poll"
    /\ position' = committed
    /\ stored' = committed
    /\ UNCHANGED <<committed, input, temp, database, scheduler, workers,
                   downstream, faults>>

Poll ==
    /\ cpc = "poll"
    /\ position <= NMessages
    /\ cpc' = "push"
    /\ position' = position + 1
    /\ UNCHANGED <<stored, committed, input, temp, database, scheduler, workers,
                   downstream, faults>>

\* push_to_queue: RPUSH, retried.
Push(n) ==
    /\ cpc = "push"
    /\ Applied(n)
    /\ input' = Put(input, AlertAt[position - 1], n)
    /\ cpc' = "store"
    /\ UNCHANGED <<position, stored, committed, temp, database, scheduler,
                   workers, downstream>>

\* store_offset_from_message; if it fails, that is only logged.
StoreOffset ==
    /\ cpc = "store"
    /\ cpc' = "poll"
    /\ \/ stored' = position /\ UNCHANGED faults
       \/ Fault("consumer") /\ UNCHANGED stored
    /\ UNCHANGED <<position, committed, input, temp, database, scheduler,
                   workers, downstream>>

\* A bug: enable.auto.offset.store left at its default, which stores an offset
\* as soon as its message is polled.
StorablePolled == position

\* What the auto-commit commits: the offset stored by hand.
Storable == stored

\* The background auto-commit.
AutoCommit ==
    /\ cpc # "down"
    /\ committed # Storable
    /\ committed' = Storable
    /\ UNCHANGED <<cpc, position, stored, input, temp, database, scheduler,
                   workers, downstream, faults>>

\* The consumer dies: it is killed, or its push failed for good, applied or not.
ConsumerDies ==
    /\ cpc # "down"
    /\ Fault("consumer")
    /\ \/ UNCHANGED input
       \/ cpc = "push" /\ input' = Put(input, AlertAt[position - 1], 1)
    /\ cpc' = "down"
    /\ position' = committed
    /\ stored' = committed
    /\ UNCHANGED <<committed, temp, database, scheduler, workers, downstream>>

----------------------------------------------------------------------------
(* The alert workers.                                                      *)

Goto(w, label) == apc' = [apc EXCEPT ![w] = label]

\* The worker is done with its packet, and back at the head of its loop.
Drop(w) == /\ Goto(w, "idle")
           /\ held' = [held EXCEPT ![w] = NoAlert]

\* A bug: the packet is popped, and not kept in the temp list meanwhile.
RetrieveDestructive(w, a) ==
    /\ apc[w] = "idle"
    /\ input[a] > 0
    /\ input' = Take(input, a, 1)
    /\ held' = [held EXCEPT ![w] = a]
    /\ Goto(w, "check")
    /\ UNCHANGED <<consumer, temp, database, scheduler, downstream, faults>>

\* retrieve_avro_bytes: RPOPLPUSH from the input to the temp list.
Retrieve(w, a) ==
    /\ apc[w] = "idle"
    /\ input[a] > 0
    /\ input' = Take(input, a, 1)
    /\ temp' = Put(temp, a, 1)
    /\ held' = [held EXCEPT ![w] = a]
    /\ Goto(w, "check")
    /\ UNCHANGED <<consumer, database, scheduler, downstream, faults>>

\* The move is made and its reply lost: nobody works on that packet.
RetrieveLost(w, a) ==
    /\ apc[w] = "idle"
    /\ input[a] > 0
    /\ Fault("reply")
    /\ input' = Take(input, a, 1)
    /\ temp' = Put(temp, a, 1)
    /\ UNCHANGED <<consumer, database, scheduler, workers, downstream>>

\* A bug: the alert is inserted first rather than last.
CheckExistsInserting(w) ==
    /\ apc[w] = "check"
    /\ alerts' = alerts \cup {held[w]}
    /\ Goto(w, IF held[w] \in alerts THEN "remove" ELSE "aux")
    /\ UNCHANGED <<consumer, input, temp, aux, cutouts, enriched, scheduler,
                   held, downstream, faults>>

\* process_alert: decode, and check_alert_exists.
CheckExists(w) ==
    /\ apc[w] = "check"
    /\ Goto(w, IF held[w] \in alerts THEN "remove" ELSE "aux")
    /\ UNCHANGED <<consumer, input, temp, database, scheduler, held,
                   downstream, faults>>

\* process_alert: insert_aux, or update_aux of an object that exists.
WriteAux(w) ==
    /\ apc[w] = "aux"
    /\ aux' = aux \cup {held[w]}
    /\ Goto(w, "cutouts")
    /\ UNCHANGED <<consumer, input, temp, alerts, cutouts, enriched, scheduler,
                   held, downstream, faults>>

\* process_alert: format_and_insert_cutouts; existing cutouts are no error.
WriteCutouts(w) ==
    /\ apc[w] = "cutouts"
    /\ cutouts' = cutouts \cup {held[w]}
    /\ Goto(w, "insert")
    /\ UNCHANGED <<consumer, input, temp, alerts, aux, enriched, scheduler,
                   held, downstream, faults>>

\* A bug: an alert that was there already is reported as added.
InsertAlertUpsert(w) ==
    /\ apc[w] = "insert"
    /\ alerts' = alerts \cup {held[w]}
    /\ Goto(w, "push")
    /\ UNCHANGED <<consumer, input, temp, aux, cutouts, enriched, scheduler,
                   held, downstream, faults>>

\* A bug: an alert that was added is reported as there already.
InsertAlertSilent(w) ==
    /\ apc[w] = "insert"
    /\ alerts' = alerts \cup {held[w]}
    /\ Goto(w, "remove")
    /\ UNCHANGED <<consumer, input, temp, aux, cutouts, enriched, scheduler,
                   held, downstream, faults>>

\* process_alert: format_and_insert_alert, last.  The unique _id tells the
\* worker that added the alert from one that found it there.
InsertAlert(w) ==
    /\ apc[w] = "insert"
    /\ alerts' = alerts \cup {held[w]}
    /\ Goto(w, IF held[w] \in alerts THEN "remove" ELSE "push")
    /\ UNCHANGED <<consumer, input, temp, aux, cutouts, enriched, scheduler,
                   held, downstream, faults>>

\* process_alert returns an error, whether or not the insert it was at was
\* made: the packet is left in the temp list.
ProcessError(w) ==
    /\ apc[w] \in {"check", "aux", "cutouts", "insert"}
    /\ Fault("process")
    /\ \/ UNCHANGED alerts
       \/ apc[w] = "insert" /\ alerts' = alerts \cup {held[w]}
    /\ Drop(w)
    /\ UNCHANGED <<consumer, input, temp, aux, cutouts, enriched, scheduler,
                   downstream>>

\* handle_process_result, Added: LPUSH of the candid, retried.
PushCandid(w, n) ==
    /\ apc[w] = "push"
    /\ Applied(n)
    /\ enrichment_queue' = Put(enrichment_queue, held[w], n)
    /\ Goto(w, "remove")
    /\ UNCHANGED <<consumer, input, temp, database, scheduler, held, epc, ebatch,
                   fpc, fbatch, skipped, filtered, published, filter_queue>>

\* remove_from_temp_queue: LREM of one copy, retried.
RemoveFromTemp(w, n) ==
    /\ apc[w] = "remove"
    /\ Applied(n)
    /\ temp' = Take(temp, held[w], n)
    /\ Drop(w)
    /\ UNCHANGED <<consumer, input, database, scheduler, downstream>>

\* handle_process_result fails for good, or the thread panics: it ends.
AlertWorkerDies(w) ==
    /\ apc[w] # "down"
    /\ Fault("worker")
    /\ Goto(w, "down")
    /\ held' = [held EXCEPT ![w] = NoAlert]
    /\ UNCHANGED <<consumer, input, temp, database, scheduler, downstream>>

----------------------------------------------------------------------------
(* The enrichment workers.                                                 *)

Batch(bag) == {S \in SUBSET {a \in Alert : bag[a] > 0} :
                 S # {} /\ Cardinality(S) <= BatchSize}

\* RPOP of a batch of candids: from here on only the worker has them.
PopCandids(e, S) ==
    /\ epc[e] = "idle"
    /\ S \in Batch(enrichment_queue)
    /\ enrichment_queue' = TakeAll(enrichment_queue, S)
    /\ ebatch' = [ebatch EXCEPT ![e] = S]
    /\ epc' = [epc EXCEPT ![e] = "process"]
    /\ UNCHANGED <<consumer, input, temp, database, scheduler, workers, fpc, fbatch,
                   skipped, filtered, published, filter_queue, faults>>

\* The batch is popped and the reply lost: it is gone.
PopCandidsLost(e, S) ==
    /\ epc[e] = "idle"
    /\ S \in Batch(enrichment_queue)
    /\ Fault("reply")
    /\ enrichment_queue' = TakeAll(enrichment_queue, S)
    /\ UNCHANGED <<consumer, input, temp, database, scheduler, workers, epc, ebatch,
                   fpc, fbatch, skipped, filtered, published, filter_queue>>

\* process_alerts: fetch the alerts and their cutouts (one without cutouts
\* would be an error, MissingCutouts), leave out those with an empty
\* lightcurve, and write the classifications of the others in bulk.
Enrich(e, kept) ==
    /\ epc[e] = "process"
    /\ ebatch[e] \cap alerts \subseteq cutouts
    /\ kept \subseteq ebatch[e] \cap alerts
    /\ enriched' = enriched \cup kept
    /\ skipped' = skipped \cup (ebatch[e] \ kept)
    /\ ebatch' = [ebatch EXCEPT ![e] = kept]
    /\ epc' = [epc EXCEPT ![e] = IF kept = {} THEN "idle" ELSE "push"]
    /\ UNCHANGED <<consumer, input, temp, alerts, aux, cutouts, scheduler, workers,
                   fpc, fbatch, filtered, published, enrichment_queue, filter_queue,
                   faults>>

\* LPUSH of the enriched alerts, retried.
PushEnriched(e, n) ==
    /\ epc[e] = "push"
    /\ Applied(n)
    /\ filter_queue' = PutAll(filter_queue, ebatch[e], n)
    /\ ebatch' = [ebatch EXCEPT ![e] = {}]
    /\ epc' = [epc EXCEPT ![e] = "idle"]
    /\ UNCHANGED <<consumer, input, temp, database, scheduler, workers, fpc, fbatch,
                   skipped, filtered, published, enrichment_queue>>

\* An error of process_alerts or of Valkey ends the thread; the batch is gone.
EnrichmentWorkerDies(e) ==
    /\ epc[e] # "down"
    /\ Fault("worker")
    /\ ebatch' = [ebatch EXCEPT ![e] = {}]
    /\ epc' = [epc EXCEPT ![e] = "down"]
    /\ UNCHANGED <<consumer, input, temp, database, scheduler, workers, fpc, fbatch,
                   skipped, filtered, published, enrichment_queue, filter_queue>>

----------------------------------------------------------------------------
(* The filter workers.                                                     *)

\* RPOP of a batch of enriched alerts.
PopEnriched(f, S) ==
    /\ fpc[f] = "idle"
    /\ S \in Batch(filter_queue)
    /\ filter_queue' = TakeAll(filter_queue, S)
    /\ fbatch' = [fbatch EXCEPT ![f] = S]
    /\ fpc' = [fpc EXCEPT ![f] = "process"]
    /\ UNCHANGED <<consumer, input, temp, database, scheduler, workers, epc, ebatch,
                   skipped, filtered, published, enrichment_queue, faults>>

\* The batch is popped and the reply lost: it is gone.
PopEnrichedLost(f, S) ==
    /\ fpc[f] = "idle"
    /\ S \in Batch(filter_queue)
    /\ Fault("reply")
    /\ filter_queue' = TakeAll(filter_queue, S)
    /\ UNCHANGED <<consumer, input, temp, database, scheduler, workers, epc, ebatch,
                   fpc, fbatch, skipped, filtered, published, enrichment_queue>>

\* process_alerts: run the filters; some of the alerts pass one.
RunFilters(f, matched) ==
    /\ fpc[f] = "process"
    /\ matched \subseteq fbatch[f]
    /\ filtered' = filtered \cup fbatch[f]
    /\ fbatch' = [fbatch EXCEPT ![f] = matched]
    /\ fpc' = [fpc EXCEPT ![f] = IF matched = {} THEN "idle" ELSE "send"]
    /\ UNCHANGED <<consumer, input, temp, database, scheduler, workers, epc, ebatch,
                   skipped, published, enrichment_queue, filter_queue, faults>>

\* Send the matches to Kafka and wait for the deliveries; one that is not
\* delivered is only logged.
SendMatches(f, delivered) ==
    /\ fpc[f] = "send"
    /\ delivered \subseteq fbatch[f]
    /\ IF delivered = fbatch[f] THEN UNCHANGED faults ELSE Fault("reply")
    /\ published' = published \cup delivered
    /\ fbatch' = [fbatch EXCEPT ![f] = {}]
    /\ fpc' = [fpc EXCEPT ![f] = "idle"]
    /\ UNCHANGED <<consumer, input, temp, database, scheduler, workers, epc, ebatch,
                   skipped, filtered, enrichment_queue, filter_queue>>

\* An error of Valkey, of a filter, or of the producer ends the thread.
FilterWorkerDies(f) ==
    /\ fpc[f] # "down"
    /\ Fault("worker")
    /\ fbatch' = [fbatch EXCEPT ![f] = {}]
    /\ fpc' = [fpc EXCEPT ![f] = "down"]
    /\ UNCHANGED <<consumer, input, temp, database, scheduler, workers, epc, ebatch,
                   skipped, filtered, published, enrichment_queue, filter_queue>>

----------------------------------------------------------------------------
(* The scheduler.                                                          *)

SchedulerStart ==
    /\ scheduler = "down"
    /\ scheduler' = "recovering"
    /\ UNCHANGED <<consumer, input, temp, database, workers, downstream, faults>>

\* A bug: what a dead worker left behind is dropped.
RecoverDropping(a) ==
    /\ scheduler = "recovering"
    /\ temp[a] > 0
    /\ temp' = Take(temp, a, 1)
    /\ UNCHANGED <<consumer, input, database, scheduler, workers, downstream, faults>>

\* recover_temp_queue: RPOPLPUSH from the temp to the input list, before any
\* worker runs.
Recover(a) ==
    /\ scheduler = "recovering"
    /\ temp[a] > 0
    /\ temp' = Take(temp, a, 1)
    /\ input' = Put(input, a, 1)
    /\ UNCHANGED <<consumer, database, scheduler, workers, downstream, faults>>

\* The temp list is empty, or recover_temp_queue failed, which is only logged:
\* the three pools are filled.
StartWorkers ==
    /\ scheduler = "recovering"
    /\ IF temp = Empty THEN UNCHANGED faults ELSE Fault("reply")
    /\ scheduler' = "up"
    /\ apc' = [w \in AlertWorker |-> "idle"]
    /\ epc' = [e \in EnrichmentWorker |-> "idle"]
    /\ fpc' = [f \in FilterWorker |-> "idle"]
    /\ UNCHANGED <<consumer, input, temp, database, held, ebatch, fbatch, skipped,
                   filtered, published, enrichment_queue, filter_queue>>

\* supervise: a dead thread is replaced.  The temp list is not looked at.
Respawn ==
    /\ scheduler = "up"
    /\ apc' = [w \in AlertWorker |-> IF apc[w] = "down" THEN "idle" ELSE apc[w]]
    /\ epc' = [e \in EnrichmentWorker |-> IF epc[e] = "down" THEN "idle" ELSE epc[e]]
    /\ fpc' = [f \in FilterWorker |-> IF fpc[f] = "down" THEN "idle" ELSE fpc[f]]
    /\ <<apc, epc, fpc>>' # <<apc, epc, fpc>>
    /\ UNCHANGED <<consumer, input, temp, database, scheduler, held, ebatch, fbatch,
                   skipped, filtered, published, enrichment_queue, filter_queue,
                   faults>>

\* The scheduler process ends, and every worker thread with it.
SchedulerDies ==
    /\ scheduler # "down"
    /\ Fault("scheduler")
    /\ scheduler' = "down"
    /\ apc' = [w \in AlertWorker |-> "down"]
    /\ held' = [w \in AlertWorker |-> NoAlert]
    /\ epc' = [e \in EnrichmentWorker |-> "down"]
    /\ ebatch' = [e \in EnrichmentWorker |-> {}]
    /\ fpc' = [f \in FilterWorker |-> "down"]
    /\ fbatch' = [f \in FilterWorker |-> {}]
    /\ UNCHANGED <<consumer, input, temp, database, skipped, filtered, published,
                   enrichment_queue, filter_queue>>

----------------------------------------------------------------------------
Consume == \/ ConsumerStart
           \/ Poll
           \/ \E n \in 1 .. MaxAttempts : Push(n)
           \/ StoreOffset
           \/ AutoCommit
           \/ ConsumerDies

AlertStep(w) == \/ \E a \in Alert : Retrieve(w, a) \/ RetrieveLost(w, a)
                \/ CheckExists(w)
                \/ WriteAux(w)
                \/ WriteCutouts(w)
                \/ InsertAlert(w)
                \/ ProcessError(w)
                \/ \E n \in 1 .. MaxAttempts : PushCandid(w, n) \/ RemoveFromTemp(w, n)
                \/ AlertWorkerDies(w)

EnrichmentStep(e) == \/ \E S \in SUBSET Alert : \/ PopCandids(e, S)
                                                \/ PopCandidsLost(e, S)
                                                \/ Enrich(e, S)
                     \/ \E n \in 1 .. MaxAttempts : PushEnriched(e, n)
                     \/ EnrichmentWorkerDies(e)

FilterStep(f) == \/ \E S \in SUBSET Alert : \/ PopEnriched(f, S)
                                            \/ PopEnrichedLost(f, S)
                                            \/ RunFilters(f, S)
                                            \/ SendMatches(f, S)
                 \/ FilterWorkerDies(f)

Schedule == \/ SchedulerStart
            \/ \E a \in Alert : Recover(a)
            \/ StartWorkers
            \/ Respawn
            \/ SchedulerDies

Next == \/ Consume
        \/ \E w \in AlertWorker : AlertStep(w)
        \/ \E e \in EnrichmentWorker : EnrichmentStep(e)
        \/ \E f \in FilterWorker : FilterStep(f)
        \/ Schedule

Spec == Init /\ [][Next]_vars

\* Processes that are down are started again, loops keep turning, and every
\* operation on Kafka, Valkey and MongoDB that is issued comes back.  Faults
\* are bounded in number.
FairSpec ==
    /\ Spec
    /\ WF_vars(Consume)
    /\ \A w \in AlertWorker : WF_vars(AlertStep(w))
    /\ \A e \in EnrichmentWorker : WF_vars(EnrichmentStep(e))
    /\ \A f \in FilterWorker : WF_vars(FilterStep(f))
    /\ WF_vars(Schedule)

----------------------------------------------------------------------------
(* Properties.                                                             *)

\* A packet is in the database, or in a list from which it will be processed.
Safe(a) == a \in alerts \/ input[a] > 0 \/ temp[a] > 0

\* What the consumer has committed, and so will never read again, is not lost:
\* each of those packets is stored, or waits in the input or the temp list,
\* whichever process died, at whatever operation, and whichever reply was lost.
CommittedIsSafe == \A o \in Offset : o < committed => Safe(AlertAt[o])

\* "Inserted last: an alert in the database implies its aux and cutouts are
\* there too", however the workers interleave and wherever they die.
StoredIsComplete == alerts \subseteq aux \cap cutouts

\* A worker removes a packet from the temp list only once the alert is stored:
\* while a worker is between its retrieval and the insert, the packet is there.
WorkedOnIsRecoverable ==
    \A w \in AlertWorker :
      apc[w] \in {"check", "aux", "cutouts", "insert"} => Safe(held[w])

\* The stages run in order: whatever waits for enrichment is stored with its
\* cutouts (enrichment fails a whole batch for one alert without them), what
\* waits for the filters has its classifications, and only such an alert is
\* ever published.
StagesInOrder ==
    /\ \A a \in Alert : enrichment_queue[a] > 0 => a \in alerts \cap cutouts
    /\ \A e \in EnrichmentWorker : ebatch[e] \subseteq alerts \cap cutouts
    /\ \A a \in Alert : filter_queue[a] > 0 => a \in enriched
    /\ \A f \in FilterWorker : fbatch[f] \subseteq enriched
    /\ published \subseteq enriched \cap filtered

\* How far the consumer is, and who holds what: what makes the above inductive.
ConsumerInv ==
    LET pushed == IF cpc = "push" THEN position - 1 ELSE position
    IN  /\ cpc \in {"push", "store"} => position > 1
        /\ cpc # "down" => committed <= pushed /\ stored <= pushed
        /\ cpc # "down" => \A o \in Offset : o < pushed => Safe(AlertAt[o])

WorkerInv ==
    /\ \A w \in AlertWorker :
         /\ apc[w] \in {"down", "idle"} <=> held[w] = NoAlert
         /\ apc[w] \in {"cutouts", "insert"} => held[w] \in aux
         /\ apc[w] = "insert" => held[w] \in cutouts
         /\ apc[w] \in {"push", "remove"} => held[w] \in alerts
    /\ \A e \in EnrichmentWorker : epc[e] = "push" => ebatch[e] \subseteq enriched
    /\ \A f \in FilterWorker : fpc[f] = "send" => fbatch[f] \subseteq filtered
    /\ enriched \subseteq alerts
    /\ scheduler # "up" => \A w \in AlertWorker : apc[w] = "down"

\* The inductive invariant of AlertPipeline.
IInv == /\ TypeOK
        /\ CommittedIsSafe
        /\ StoredIsComplete
        /\ WorkedOnIsRecoverable
        /\ StagesInOrder
        /\ ConsumerInv
        /\ WorkerInv

\* A fault of this kind has happened.
Happened(kind) == \E i \in DOMAIN faults : faults[i] = kind

\* The places where an alert is on its way from the insert to the filters.
Copies(a) == Cardinality({w \in AlertWorker : apc[w] = "push" /\ held[w] = a})
             + enrichment_queue[a]
             + Cardinality({e \in EnrichmentWorker : a \in ebatch[e]})
             + filter_queue[a]
             + Cardinality({f \in FilterWorker : fpc[f] = "process" /\ a \in fbatch[f]})

\* As long as no reply of Valkey is lost, an alert is enriched and filtered at
\* most once, however often its packet is delivered, recovered or picked up by
\* two workers: the unique _id lets a single worker queue it.
ProcessedOnce ==
    ~Happened("reply") =>
      \A a \in Alert : /\ Copies(a) <= 1
                       /\ a \in filtered \cup skipped => Copies(a) = 0

Delivered == {AlertAt[o] : o \in Offset}

\* Every alert of the topic ends in the database, also when the consumer or the
\* scheduler is killed: what a killed scheduler leaves in the temp list comes
\* back with the next one.
EveryAlertStored == \A a \in Delivered : <>(a \in alerts)

\* Every alert of the topic comes to the filters, or is left out for its empty
\* lightcurve, also when the consumer is killed and delivers it again, unless
\* the scheduler is killed with the alert in the hands of one of its workers.
EveryAlertFiltered ==
    \A a \in Delivered :
      <>(a \in filtered \cup skipped \/ Happened("scheduler"))

============================================================================
