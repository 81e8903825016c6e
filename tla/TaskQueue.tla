----------------------------- MODULE TaskQueue -----------------------------
(***************************************************************************)
(* The data-task queue of BOOM: the `tasks` collection                     *)
(* (src/src/tasks/queue.rs), the task-worker processes that claim, run and *)
(* finish runs (src/src/bin/task_worker.rs) and the admin requests that    *)
(* submit and cancel them (src/src/api/routes/tasks.rs).                   *)
(*                                                                         *)
(* One step is one MongoDB operation, or one atomic step of a worker       *)
(* process: whatever the code does between two awaits on the database can  *)
(* interleave with the other processes.  Time enters only as the lapse of  *)
(* a lease: a lease is "live" until more than LEASE_SECONDS pass without a *)
(* heartbeat, then "lapsed".                                               *)
(***************************************************************************)
EXTENDS Naturals, FiniteSets

CONSTANTS
    Run,            \* run ids (uuids); all start "absent"
    Idempotent,     \* the runs whose task type is declared idempotent
    Target,         \* single-flight keys: the type and target of a run
    TargetOf,       \* TargetOf[r] \in Target \cup {NoTarget}
    NoTarget,       \* a run whose type has no single-flight key
    Worker,         \* worker names: a label plus a uuid, one per process
    Client,         \* admin requests to the API
    NoWorker,       \* the null of the field `worker`
    NoRun,          \* a worker or request that has no run
    MaxDisruptions  \* bound on crashes, signals, stalls and database errors

ASSUME TargetAssumption == TargetOf \in [Run -> Target \cup {NoTarget}]
ASSUME IdempotentAssumption == Idempotent \subseteq Run
ASSUME NullAssumption == /\ NoWorker \notin Worker
                         /\ NoRun \notin Run
                         /\ NoTarget \notin Target
ASSUME BoundAssumption == MaxDisruptions \in Nat

VARIABLES
    \* The documents of `tasks`, one function per field.
    status, worker, lease, cancel_requested, attempts, requested_at,
    \* The worker processes: where each is, and the locals of its loop.
    pc,             \* see PC
    shutting_down,  \* set by the signal handler
    failed_ids,     \* the ids requeue_expired read
    \* The locals of run_one, while it runs.
    run,            \* the run claimed, or NoRun
    attempt,        \* task.attempts as claimed
    canceled,       \* the flag the task body polls
    beating,        \* the heartbeat task is alive
    result,         \* what the task body returned
    \* The admin requests.
    phase, subject, answer,
    retained,       \* the runs whose logs had their retention extended
    clock,          \* the next value of requested_at
    disruptions     \* how many disruptions have happened

tasks == <<status, worker, lease, cancel_requested, attempts, requested_at>>
running == <<run, attempt, canceled, beating, result>>
processes == <<pc, shutting_down, failed_ids, running>>
requests == <<phase, subject, answer>>
vars == <<tasks, processes, requests, retained, clock, disruptions>>

----------------------------------------------------------------------------
(* The stored and the in-memory state.                                     *)

Active == {"queued", "running"}
Terminal == {"succeeded", "failed", "canceled"}
Status == {"absent"} \cup Active \cup Terminal

\* Where a worker process is: not started; at the head of its loop; between
\* the operations of the sweep; about to claim; inside the task body; about
\* to record the outcome; about to extend the retention of a failed run's
\* logs, after its own run or after a sweep; gone.
PC == {"off", "sweep", "find", "fail", "sweep_extend", "claim",
       "run", "record", "extend", "stopped", "crashed"}

Result == {"ok", "failed", "canceled"}

\* A request is idle, or between the operations of submit_task or of
\* request_cancel, or answered.
Phase == {"idle", "insert", "cancel_running", "cancel_read", "done"}

\* What submit_task answers: queued, or 409; what cancel_task answers: "run
\* canceled", "cancellation requested", "run had already finished"; what both
\* answer when the database does: an internal error.
Answer == {"none", "queued", "conflict", "error",
           "run_canceled", "cancellation_requested", "already_finished"}

\* The state is well typed.
TypeOK == /\ status \in [Run -> Status]
          /\ worker \in [Run -> Worker \cup {NoWorker}]
          /\ lease \in [Run -> {"none", "live", "lapsed"}]
          /\ cancel_requested \in [Run -> BOOLEAN]
          /\ attempts \in [Run -> Nat]
          /\ requested_at \in [Run -> Nat]
          /\ pc \in [Worker -> PC]
          /\ shutting_down \in [Worker -> BOOLEAN]
          /\ failed_ids \in [Worker -> SUBSET Run]
          /\ run \in [Worker -> Run \cup {NoRun}]
          /\ attempt \in [Worker -> Nat]
          /\ canceled \in [Worker -> BOOLEAN]
          /\ beating \in [Worker -> BOOLEAN]
          /\ result \in [Worker -> Result \cup {"none"}]
          /\ phase \in [Client -> Phase]
          /\ subject \in [Client -> Run \cup {NoRun}]
          /\ answer \in [Client -> Answer]
          /\ retained \in SUBSET Run
          /\ clock \in Nat
          /\ disruptions \in 0 .. MaxDisruptions

Init ==
    /\ status = [r \in Run |-> "absent"]
    /\ worker = [r \in Run |-> NoWorker]
    /\ lease = [r \in Run |-> "none"]
    /\ cancel_requested = [r \in Run |-> FALSE]
    /\ attempts = [r \in Run |-> 0]
    /\ requested_at = [r \in Run |-> 0]
    /\ pc = [w \in Worker |-> "off"]
    /\ shutting_down = [w \in Worker |-> FALSE]
    /\ failed_ids = [w \in Worker |-> {}]
    /\ run = [w \in Worker |-> NoRun]
    /\ attempt = [w \in Worker |-> 0]
    /\ canceled = [w \in Worker |-> FALSE]
    /\ beating = [w \in Worker |-> FALSE]
    /\ result = [w \in Worker |-> "none"]
    /\ phase = [c \in Client |-> "idle"]
    /\ subject = [c \in Client |-> NoRun]
    /\ answer = [c \in Client |-> "none"]
    /\ retained = {}
    /\ clock = 0
    /\ disruptions = 0

Disrupt == /\ disruptions < MaxDisruptions
           /\ disruptions' = disruptions + 1

\* A bug: the filter forgets the worker's name.
OwnsAnyone(w, r) == w \in Worker /\ status[r] = "running"

\* The filter of heartbeat, finish_claimed and release: the run is running
\* and this worker's name is on it.
Owns(w, r) == status[r] = "running" /\ worker[r] = w

Expired(r) == status[r] = "running" /\ lease[r] = "lapsed"

----------------------------------------------------------------------------
(* Admin requests.                                                         *)

\* A request gets its answer.
Reply(c, a) == /\ phase' = [phase EXCEPT ![c] = "done"]
               /\ answer' = [answer EXCEPT ![c] = a]

\* find_active: a queued or running run with the single-flight key of r.
find_active(r) ==
    {s \in Run : TargetOf[s] = TargetOf[r] /\ status[s] \in Active}

\* submit_task up to the insert.  r is the uuid the request will use.
SubmitCheck(c, r) ==
    /\ phase[c] = "idle"
    /\ status[r] = "absent"
    /\ \A d \in Client : subject[d] # r
    /\ IF TargetOf[r] # NoTarget /\ find_active(r) # {}
       THEN Reply(c, "conflict") /\ UNCHANGED subject
       ELSE /\ phase' = [phase EXCEPT ![c] = "insert"]
            /\ subject' = [subject EXCEPT ![c] = r]
            /\ UNCHANGED answer
    /\ UNCHANGED <<tasks, processes, retained, clock, disruptions>>

\* queue::submit inserts the document; an absent run has every other field
\* at the value a new document has.
SubmitInsert(c) ==
    LET r == subject[c] IN
    /\ phase[c] = "insert"
    /\ status' = [status EXCEPT ![r] = "queued"]
    /\ requested_at' = [requested_at EXCEPT ![r] = clock]
    /\ clock' = clock + 1
    /\ Reply(c, "queued")
    /\ UNCHANGED <<worker, lease, cancel_requested, attempts, subject,
                   processes, retained, disruptions>>

\* What cancel_task tells the caller for the status request_cancel returned.
CancelMessage(s) ==
    CASE s = "running"  -> "cancellation_requested"
      [] s = "canceled" -> "run_canceled"
      [] OTHER          -> "already_finished"

\* request_cancel, first update: a queued run is canceled outright.
CancelQueued(c, r) ==
    /\ phase[c] = "idle"
    /\ status[r] # "absent"
    /\ subject' = [subject EXCEPT ![c] = r]
    /\ IF status[r] = "queued"
       THEN /\ status' = [status EXCEPT ![r] = "canceled"]
            /\ lease' = [lease EXCEPT ![r] = "none"]
            /\ Reply(c, CancelMessage("canceled"))
       ELSE /\ phase' = [phase EXCEPT ![c] = "cancel_running"]
            /\ UNCHANGED <<status, lease, answer>>
    /\ UNCHANGED <<worker, cancel_requested, attempts, requested_at,
                   processes, retained, clock, disruptions>>

\* request_cancel, second update: a running run is asked to stop.
CancelRunning(c) ==
    LET r == subject[c] IN
    /\ phase[c] = "cancel_running"
    /\ IF status[r] = "running"
       THEN /\ cancel_requested' = [cancel_requested EXCEPT ![r] = TRUE]
            /\ Reply(c, CancelMessage("running"))
       ELSE /\ phase' = [phase EXCEPT ![c] = "cancel_read"]
            /\ UNCHANGED <<cancel_requested, answer>>
    /\ UNCHANGED <<status, worker, lease, attempts, requested_at, subject,
                   processes, retained, clock, disruptions>>

\* request_cancel, neither update matched: report the status as it is now.
CancelRead(c) ==
    /\ phase[c] = "cancel_read"
    /\ Reply(c, CancelMessage(status[subject[c]]))
    /\ UNCHANGED <<tasks, subject, processes, retained, clock, disruptions>>

\* An operation of a request fails, and with it the request.  What an earlier
\* operation of the same request did stays done.
RequestError(c) ==
    /\ phase[c] \in {"insert", "cancel_running", "cancel_read"}
    /\ Disrupt
    /\ Reply(c, "error")
    /\ UNCHANGED <<tasks, subject, processes, retained, clock>>

----------------------------------------------------------------------------
(* The worker's main loop: sweep expired leases, claim, run.               *)

Goto(w, label) == pc' = [pc EXCEPT ![w] = label]

Start(w) ==
    /\ pc[w] = "off"
    /\ Goto(w, "sweep")
    /\ UNCHANGED <<tasks, shutting_down, failed_ids, running, requests,
                   retained, clock, disruptions>>

\* The loop condition: a worker told to shut down leaves.
LoopExit(w) ==
    /\ pc[w] = "sweep"
    /\ shutting_down[w]
    /\ Goto(w, "stopped")
    /\ UNCHANGED <<tasks, shutting_down, failed_ids, running, requests,
                   retained, clock, disruptions>>

\* The runs of a set move to a status without an owner or a lease.
Disown(S, s) ==
    /\ status' = [r \in Run |-> IF r \in S THEN s ELSE status[r]]
    /\ worker' = [r \in Run |-> IF r \in S THEN NoWorker ELSE worker[r]]
    /\ lease' = [r \in Run |-> IF r \in S THEN "none" ELSE lease[r]]
    /\ UNCHANGED <<cancel_requested, attempts, requested_at>>

\* A bug: every expired run is put back, idempotent or not.
RetryableAlways == Run

\* retryable_task_types.
Retryable == Idempotent

\* requeue_expired, first update_many: the retryable runs.
SweepRequeue(w) ==
    /\ pc[w] = "sweep"
    /\ ~shutting_down[w]
    /\ Disown({r \in Retryable : Expired(r)}, "queued")
    /\ Goto(w, "find")
    /\ UNCHANGED <<shutting_down, failed_ids, running, requests,
                   retained, clock, disruptions>>

\* requeue_expired, the read of the ids about to be failed.
SweepFind(w) ==
    /\ pc[w] = "find"
    /\ failed_ids' = [failed_ids EXCEPT ![w] = {r \in Run \ Retryable : Expired(r)}]
    /\ Goto(w, "fail")
    /\ UNCHANGED <<tasks, shutting_down, running, requests,
                   retained, clock, disruptions>>

\* requeue_expired returns, and the loop goes on to claim.
EndSweep(w) == /\ Goto(w, "claim")
               /\ failed_ids' = [failed_ids EXCEPT ![w] = {}]

\* requeue_expired, second update_many: the others are failed.  Its filter
\* was built, with its `now`, before the read, so it matches none but the ids
\* read that were not renewed since.
SweepFail(w) ==
    LET failing == {r \in failed_ids[w] : Expired(r)} IN
    /\ pc[w] = "fail"
    /\ Disown(failing, "failed")
    /\ IF failing # {}
       THEN Goto(w, "sweep_extend") /\ UNCHANGED failed_ids
       ELSE EndSweep(w)
    /\ UNCHANGED <<shutting_down, running, requests, retained, clock, disruptions>>

\* requeue_expired, the retention of every id that was read.
SweepExtend(w) ==
    /\ pc[w] = "sweep_extend"
    /\ retained' = retained \cup failed_ids[w]
    /\ EndSweep(w)
    /\ UNCHANGED <<tasks, shutting_down, running, requests, clock, disruptions>>

\* An operation of the sweep fails: the loop warns and goes on to claim.
SweepError(w) ==
    /\ pc[w] \in {"sweep", "find", "fail", "sweep_extend"}
    /\ ~(pc[w] = "sweep" /\ shutting_down[w])
    /\ Disrupt
    /\ EndSweep(w)
    /\ UNCHANGED <<tasks, shutting_down, running, requests, retained, clock>>

\* The queued runs no other queued run is older than.
Oldest == {r \in Run :
             /\ status[r] = "queued"
             /\ \A s \in Run : status[s] = "queued"
                                 => requested_at[r] <= requested_at[s]}

\* A bug: the claim does not stamp a lease.
ClaimedUnleased(w, r) ==
    /\ status' = [status EXCEPT ![r] = "running"]
    /\ worker' = [worker EXCEPT ![r] = w]
    /\ attempts' = [attempts EXCEPT ![r] = @ + 1]
    /\ UNCHANGED <<lease, cancel_requested, requested_at>>

\* The update of claim_next.  It does not touch cancel_requested.
Claimed(w, r) ==
    /\ status' = [status EXCEPT ![r] = "running"]
    /\ worker' = [worker EXCEPT ![r] = w]
    /\ lease' = [lease EXCEPT ![r] = "live"]
    /\ attempts' = [attempts EXCEPT ![r] = @ + 1]
    /\ UNCHANGED <<cancel_requested, requested_at>>

\* claim_next, and the start of run_one: heartbeat spawned, flag cleared.
Claim(w, r) ==
    /\ pc[w] = "claim"
    /\ r \in Oldest
    /\ Claimed(w, r)
    /\ Goto(w, "run")
    /\ run' = [run EXCEPT ![w] = r]
    /\ attempt' = [attempt EXCEPT ![w] = attempts[r] + 1]
    /\ canceled' = [canceled EXCEPT ![w] = FALSE]
    /\ beating' = [beating EXCEPT ![w] = TRUE]
    /\ UNCHANGED <<shutting_down, failed_ids, result, requests,
                   retained, clock, disruptions>>

\* claim_next finds nothing: sleep POLL_INTERVAL and start over.
ClaimNone(w) ==
    /\ pc[w] = "claim"
    /\ Oldest = {}
    /\ Goto(w, "sweep")
    /\ UNCHANGED <<tasks, shutting_down, failed_ids, running, requests,
                   retained, clock, disruptions>>

\* claim_next returns an error; the claim may have been applied all the same
\* (the reply was lost), and then the worker owns a run it knows nothing of.
ClaimError(w) ==
    /\ pc[w] = "claim"
    /\ Disrupt
    /\ UNCHANGED tasks \/ \E r \in Oldest : Claimed(w, r)
    /\ Goto(w, "sweep")
    /\ UNCHANGED <<shutting_down, failed_ids, running, requests, retained, clock>>

----------------------------------------------------------------------------
(* One claimed run: the heartbeat, the task body, the outcome.             *)

\* A bug: the heartbeat renews the lease and does not mirror the flag.
HeartbeatDeaf(w) ==
    /\ pc[w] = "run"
    /\ beating[w]
    /\ Owns(w, run[w])
    /\ lease' = [lease EXCEPT ![run[w]] = "live"]
    /\ canceled' = [canceled EXCEPT ![w] = @ \/ shutting_down[w]]
    /\ UNCHANGED <<status, worker, cancel_requested, attempts, requested_at,
                   pc, shutting_down, failed_ids, run, attempt, beating,
                   result, requests, retained, clock, disruptions>>

\* One turn of the heartbeat loop.  The flag is raised by a shutdown, by a
\* cancellation, or because the run is no longer this worker's.
Heartbeat(w) ==
    LET r == run[w] IN
    /\ pc[w] = "run"
    /\ beating[w]
    /\ IF Owns(w, r)
       THEN /\ lease' = [lease EXCEPT ![r] = "live"]
            /\ canceled' = [canceled EXCEPT ![w] = @ \/ cancel_requested[r]
                                                     \/ shutting_down[w]]
            /\ UNCHANGED beating
       ELSE /\ canceled' = [canceled EXCEPT ![w] = TRUE]
            /\ beating' = [beating EXCEPT ![w] = FALSE]
            /\ UNCHANGED lease
    /\ UNCHANGED <<status, worker, cancel_requested, attempts, requested_at,
                   pc, shutting_down, failed_ids, run, attempt, result,
                   requests, retained, clock, disruptions>>

\* The heartbeat's database call fails: only a warning.
HeartbeatError(w) ==
    /\ pc[w] = "run"
    /\ beating[w]
    /\ Disrupt
    /\ canceled' = [canceled EXCEPT ![w] = @ \/ shutting_down[w]]
    /\ UNCHANGED <<tasks, pc, shutting_down, failed_ids, run, attempt, beating,
                   result, requests, retained, clock>>

\* dispatch returns, or panics, which counts as failed; the heartbeat is
\* aborted.  A body returns TaskError::Canceled only after it saw the flag.
BodyReturns(w, x) ==
    /\ pc[w] = "run"
    /\ x = "canceled" => canceled[w]
    /\ result' = [result EXCEPT ![w] = x]
    /\ beating' = [beating EXCEPT ![w] = FALSE]
    /\ Goto(w, "record")
    /\ UNCHANGED <<tasks, shutting_down, failed_ids, run, attempt, canceled,
                   requests, retained, clock, disruptions>>

\* run_one is over: its locals are gone.
EndRun(w) == /\ run' = [run EXCEPT ![w] = NoRun]
             /\ attempt' = [attempt EXCEPT ![w] = 0]
             /\ canceled' = [canceled EXCEPT ![w] = FALSE]
             /\ beating' = [beating EXCEPT ![w] = FALSE]
             /\ result' = [result EXCEPT ![w] = "none"]

\* The body stopped for a shutdown, which is not an outcome.
Returning(w) == shutting_down[w] /\ result[w] # "ok"

\* release: the run goes back on the queue, if it is still this worker's.
Released(w) == Disown({r \in {run[w]} : Owns(w, r)}, "queued")

\* Only for a task that is safe to run again.
Release(w) ==
    /\ pc[w] = "record"
    /\ Returning(w)
    /\ run[w] \in Retryable
    /\ Released(w)
    /\ EndRun(w)
    /\ Goto(w, "sweep")
    /\ UNCHANGED <<shutting_down, failed_ids, requests, retained, clock, disruptions>>

\* The status run_one records for what the body returned.
Outcome(w) ==
    CASE result[w] = "ok"                           -> "succeeded"
      [] result[w] = "canceled" /\ ~shutting_down[w] -> "canceled"
      [] OTHER                                       -> "failed"

\* finish_claimed, the guarded update.
Finished(w) ==
    IF Owns(w, run[w])
    THEN /\ status' = [status EXCEPT ![run[w]] = Outcome(w)]
         /\ lease' = [lease EXCEPT ![run[w]] = "none"]
         /\ UNCHANGED <<worker, cancel_requested, attempts, requested_at>>
    ELSE UNCHANGED tasks

\* Whether or not the update matched, the retention of the logs is extended
\* next when the status is a bad one.
FinishClaimed(w) ==
    /\ pc[w] = "record"
    /\ ~(Returning(w) /\ run[w] \in Retryable)
    /\ Finished(w)
    /\ IF Outcome(w) \in {"failed", "canceled"}
       THEN Goto(w, "extend") /\ UNCHANGED running
       ELSE Goto(w, "sweep") /\ EndRun(w)
    /\ UNCHANGED <<shutting_down, failed_ids, requests, retained, clock, disruptions>>

\* finish_claimed, extend_retention.
ExtendRetention(w) ==
    /\ pc[w] = "extend"
    /\ retained' = retained \cup {run[w]}
    /\ EndRun(w)
    /\ Goto(w, "sweep")
    /\ UNCHANGED <<tasks, shutting_down, failed_ids, requests, clock, disruptions>>

\* release or finish_claimed fails, with or without its update applied, or
\* extend_retention does: the error is logged and run_one is over.
RecordError(w) ==
    /\ pc[w] \in {"record", "extend"}
    /\ Disrupt
    /\ \/ UNCHANGED tasks
       \/ /\ pc[w] = "record"
          /\ IF Returning(w) /\ run[w] \in Retryable
             THEN Released(w)
             ELSE Finished(w)
    /\ EndRun(w)
    /\ Goto(w, "sweep")
    /\ UNCHANGED <<shutting_down, failed_ids, requests, retained, clock>>

----------------------------------------------------------------------------
(* The environment: signals, kills, and the passing of time.               *)

Up(w) == pc[w] \notin {"off", "stopped", "crashed"}

\* SIGTERM or ctrl-c.
Signal(w) ==
    /\ Up(w)
    /\ ~shutting_down[w]
    /\ Disrupt
    /\ shutting_down' = [shutting_down EXCEPT ![w] = TRUE]
    /\ UNCHANGED <<tasks, pc, failed_ids, running, requests, retained, clock>>

\* The process is killed; what it held in memory is gone.
Crash(w) ==
    /\ Up(w)
    /\ Disrupt
    /\ Goto(w, "crashed")
    /\ EndRun(w)
    /\ failed_ids' = [failed_ids EXCEPT ![w] = {}]
    /\ UNCHANGED <<tasks, shutting_down, requests, retained, clock>>

\* The worker named on r is alive and at work on it.
Held(r) == \E w \in Worker : Owns(w, r) /\ run[w] = r

\* LEASE_SECONDS pass without a heartbeat.  For a run whose worker is at
\* work on it that takes a stall, which counts as a disruption.
LeaseLapse(r) ==
    /\ status[r] = "running"
    /\ lease[r] = "live"
    /\ IF Held(r) THEN Disrupt ELSE UNCHANGED disruptions
    /\ lease' = [lease EXCEPT ![r] = "lapsed"]
    /\ UNCHANGED <<status, worker, cancel_requested, attempts, requested_at,
                   processes, requests, retained, clock>>

----------------------------------------------------------------------------
Request(c) == \/ \E r \in Run : SubmitCheck(c, r) \/ CancelQueued(c, r)
              \/ SubmitInsert(c)
              \/ CancelRunning(c)
              \/ CancelRead(c)
              \/ RequestError(c)

Sweep(w) == \/ SweepRequeue(w)
            \/ SweepFind(w)
            \/ SweepFail(w)
            \/ SweepExtend(w)
            \/ LoopExit(w)

Record(w) == Release(w) \/ FinishClaimed(w) \/ ExtendRetention(w)

WorkerStep(w) == \/ Start(w)
                 \/ Sweep(w)
                 \/ \E r \in Run : Claim(w, r)
                 \/ ClaimNone(w)
                 \/ Heartbeat(w)
                 \/ \E x \in Result : BodyReturns(w, x)
                 \/ Record(w)

Fault(w) == \/ SweepError(w)
            \/ ClaimError(w)
            \/ HeartbeatError(w)
            \/ RecordError(w)
            \/ Signal(w)
            \/ Crash(w)

Next == \/ \E c \in Client : Request(c)
        \/ \E w \in Worker : WorkerStep(w) \/ Fault(w)
        \/ \E r \in Run : LeaseLapse(r)

Spec == Init /\ [][Next]_vars

\* What the runtime guarantees: processes are started, their loops and
\* heartbeats keep turning, and an unrenewed lease lapses.  Disruptions and
\* admin requests are never guaranteed.
Scheduling ==
    /\ \A w \in Worker :
         /\ WF_vars(Start(w))
         /\ WF_vars(Sweep(w))
         /\ WF_vars(ClaimNone(w) \/ \E r \in Run : Claim(w, r))
         /\ WF_vars(Heartbeat(w))
         /\ WF_vars(Record(w))
    /\ \A r \in Run : WF_vars(~Held(r) /\ LeaseLapse(r))

\* Of the task bodies nothing is assumed but that they stop once they see the
\* flag.
FairSpec ==
    /\ Spec
    /\ Scheduling
    /\ \A w \in Worker : WF_vars(BodyReturns(w, "canceled"))

----------------------------------------------------------------------------
(* Properties.                                                             *)

\* A run is running exactly when it holds a lease, and then a worker's name
\* is on it; a run not yet claimed has neither.  A running run without a
\* lease would never match the filter of requeue_expired and would be stuck.
RunningIsLeased ==
    \A r \in Run :
      /\ lease[r] # "none" <=> status[r] = "running"
      /\ status[r] = "running" => worker[r] \in Worker
      /\ status[r] \in {"absent", "queued"} => worker[r] = NoWorker

\* A run whose task type is not declared idempotent is started at most once,
\* whatever crashes, stalls, deploys and lost replies happen: "silently doing
\* the work again is the one outcome nobody could detect afterwards".
NonIdempotentRunsOnce == \A r \in Run \ Idempotent : attempts[r] <= 1

\* Two workers never both believe they hold a run and both match its filter,
\* and a worker still at work on a run that is queued, finished or in other
\* hands can no longer write to it: of the workers on a run at most one owns
\* it, and it is the one with the highest attempt.
OwnerOutranksStale ==
    \A v, w \in Worker, r \in Run :
      /\ Owns(v, r) /\ run[v] = r /\ run[w] = r /\ v # w
      => ~Owns(w, r) /\ attempt[w] < attempt[v]

Lifecycle == INSTANCE TaskLifecycle

\* The queue keeps the promise of TaskLifecycle: a run is submitted once, ends
\* once (is_terminal: "A finished run is never claimed again"), and goes back
\* on the queue only if its type is idempotent, whoever touches its document.
LifecycleSpec == Lifecycle!Spec

\* Only the owner's latest attempt, the sweep of a lapsed lease, or a cancel
\* of a queued run decides an outcome: finish_claimed's guard keeps a worker
\* that lost its lease from overwriting its replacement's status.
OutcomeIsCurrent ==
    [][\A r \in Run :
         (status[r] \in Active /\ status'[r] \in Terminal)
         => \/ status[r] = "queued" /\ status'[r] = "canceled"
            \/ Expired(r) /\ r \notin Idempotent /\ status'[r] = "failed"
            \/ \E w \in Worker : /\ Owns(w, r)
                                 /\ run[w] = r
                                 /\ attempt[w] = attempts[r]
                                 /\ status'[r] = Outcome(w)]_vars

\* What the cancel endpoint answered is true of the run: "run canceled" means
\* it is canceled for good, "cancellation requested" that the flag is set,
\* "already finished" that the run is over.
Truthful(c) ==
    LET r == subject[c] IN
    CASE answer[c] = "run_canceled"           -> status[r] = "canceled"
      [] answer[c] = "cancellation_requested" -> cancel_requested[r]
      [] answer[c] = "already_finished"       -> status[r] \in Terminal
      [] OTHER                                -> TRUE

\* For a run that is not retried the answers of the cancel endpoint are true
\* however its three operations interleave with the workers'.
CancelTruthfulUnlessRequeued ==
    \A c \in Client : subject[c] \in Run \ Idempotent => Truthful(c)

\* What makes the invariants above inductive.  A run about to be inserted is
\* absent and no other request names it; a request between the operations of
\* request_cancel names a run that exists, and for a run that is not retried
\* an update that did not match never will.
RequestInv ==
    \A c \in Client :
      /\ phase[c] # "done" => answer[c] = "none"
      /\ phase[c] = "insert" =>
           /\ subject[c] \in Run
           /\ status[subject[c]] = "absent"
           /\ \A d \in Client \ {c} : subject[d] # subject[c]
      /\ phase[c] \in {"cancel_running", "cancel_read"} =>
           /\ subject[c] \in Run
           /\ status[subject[c]] # "absent"
           /\ subject[c] \notin Idempotent =>
                /\ status[subject[c]] # "queued"
                /\ phase[c] = "cancel_read" => status[subject[c]] \in Terminal

\* A run that is not retried and was not yet claimed has no attempts, and no
\* sweep ever reads the id of a run that is retried.
OnceInv ==
    /\ \A r \in Run \ Idempotent :
         status[r] \in {"absent", "queued"} => attempts[r] = 0
    /\ \A w \in Worker : failed_ids[w] \cap Idempotent = {}

\* A worker has a run exactly between its claim and the end of run_one; no
\* two workers are on the same attempt of a run, none is ahead of the
\* document, and the one the document names is on the latest.
AttemptInv ==
    \A w \in Worker :
      /\ run[w] \in Run <=> pc[w] \in {"run", "record", "extend"}
      /\ \A r \in Run : run[w] = r =>
           /\ status[r] # "absent"
           /\ attempt[w] <= attempts[r]
           /\ Owns(w, r) => attempt[w] = attempts[r]
           /\ \A v \in Worker \ {w} : run[v] = r => attempt[v] # attempt[w]

\* The inductive invariant of TaskQueue.
IInv == /\ TypeOK
        /\ RunningIsLeased
        /\ NonIdempotentRunsOnce
        /\ CancelTruthfulUnlessRequeued
        /\ RequestInv
        /\ OnceInv
        /\ AttemptInv

\* As long as no task body runs for ever, a run that is on the queue, however
\* often it is put back there by a deploy, a crash or a lost lease, comes to
\* an end: "the worker goes away mid-run, its lease lapses, and the next worker
\* picks the run back up".
EveryRunFinishes ==
    (\A w \in Worker : []<>(pc[w] # "run"))
      => \A r \in Run : status[r] = "queued" ~> status[r] \in Terminal

\* A recorded cancellation ends the run even though its body would run for
\* ever, across a change of worker: the flag is on the document, and every
\* owner's heartbeat mirrors it.
CancelTakesEffect ==
    \A r \in Run : cancel_requested[r] ~> status[r] \in Terminal

============================================================================
