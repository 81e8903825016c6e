-------------------------- MODULE EnrichReprocess --------------------------
(***************************************************************************)
(* The enrich_reprocess task (src/src/tasks/enrich_reprocess.rs): a run    *)
(* selects alerts, puts their candids on a list in Valkey that is named    *)
(* after the run, and has enrichment workers of its own drain it.          *)
(*                                                                         *)
(* The task is retried: a try is an execution of the body by some task     *)
(* worker.  A try whose lease lapsed goes on until it sees its cancel      *)
(* flag, next to its successor, and both know the list by the same name.   *)
(***************************************************************************)
EXTENDS Integers, SequencesExt

CONSTANTS
    Candid,             \* the alerts of the survey that the selection is about
    NTries,             \* bound: tries at the run
    Enricher,           \* the worker threads of a try
    PushSize, PopSize,  \* PUSH_BATCH, and batch_size of the workers
    MaxMishaps          \* bound: errors, panics and kills

Try == 1..NTries

ASSUME ReprocessAssumption ==
    /\ IsFiniteSet(Candid) /\ IsFiniteSet(Enricher) /\ Enricher # {}
    /\ NTries \in Nat \ {0} /\ PushSize \in Nat \ {0} /\ PopSize \in Nat \ {0}
    /\ MaxMishaps \in Nat

VARIABLES
    list,           \* the list in Valkey; LPUSH at its head, RPOP from its end
    enriched,       \* the alerts enriched since the run was submitted
    missingOnly,    \* Selection::MissingField: enrichment takes an alert out of it
    owned,          \* no input_queue was given
    place,          \* where a try is
    selected,       \* the alerts that a try put on the list, and so queued
    toPush,
    emptyStreak,
    flag,           \* of a try: "none", "cancel", or "shutdown" of its worker
    verdict,        \* what the body of a try returns
    outcome,        \* what the queue records of a try
    enricher,       \* the threads of a try: "off", "loop", "busy" or "exited"
    popped,         \* the batch of a thread
    begun, mishaps,
    overlapped,     \* history: did two tries run at the same time
    diedLate,       \* history: did a thread end on an error after the last look
    leaked          \* history: was the list left behind on an error or a kill

params == <<missingOnly, owned>>
try == <<place, selected, toPush, emptyStreak, flag, verdict, outcome>>
threads == <<enricher, popped>>
past == <<overlapped, diedLate, leaked>>
reprocessVars == <<list, enriched, params, try, threads, begun, mishaps, past>>

ReprocessInit ==
    /\ missingOnly \in BOOLEAN /\ owned \in BOOLEAN
    /\ list = IF owned THEN <<>> ELSE SetToSeq(Candid)
    /\ enriched = {}
    /\ place = [t \in Try |-> "queued"]
    /\ selected = [t \in Try |-> {}]
    /\ toPush = [t \in Try |-> {}]
    /\ emptyStreak = [t \in Try |-> 0]
    /\ flag = [t \in Try |-> "none"]
    /\ verdict = [t \in Try |-> "none"]
    /\ outcome = [t \in Try |-> "none"]
    /\ enricher = [t \in Try |-> [w \in Enricher |-> "off"]]
    /\ popped = [t \in Try |-> [w \in Enricher |-> {}]]
    /\ begun = 0 /\ mishaps = 0
    /\ overlapped = FALSE /\ diedLate = {} /\ leaked = FALSE

Runs(t) == place[t] \notin {"queued", "ended"}
Move(t, p) == place' = [place EXCEPT ![t] = p]
Mishap == mishaps < MaxMishaps /\ mishaps' = mishaps + 1
Smaller(m, n) == IF m < n THEN m ELSE n

\* Selection::filter.
Select == IF missingOnly THEN Candid \ enriched ELSE Candid

----------------------------------------------------------------------------
\* External to the task: the queue claims the run for a task worker, again when the
\* lease of the last try lapsed or its worker gave it back.
Claim(t) ==
    /\ t = begun + 1
    /\ \A s \in 1..begun : outcome[s] \in {"none", "lost", "released"}
    /\ begun' = t
    /\ overlapped' = (overlapped \/ \E s \in Try : Runs(s))
    /\ Move(t, IF owned THEN "populate" ELSE "spawn")
    /\ selected' = [selected EXCEPT ![t] = IF owned THEN Select ELSE {}]
    /\ toPush' = [toPush EXCEPT ![t] = IF owned THEN Select ELSE {}]
    /\ UNCHANGED <<list, enriched, params, emptyStreak, flag, verdict, outcome, threads,
                   mishaps, diedLate, leaked>>

\* The heartbeat of a try: a cancelation, the shutdown of its worker, a lost lease.
Flag(t, f) ==
    /\ Runs(t) /\ flag[t] = "none"
    /\ flag' = [flag EXCEPT ![t] = f]
    /\ UNCHANGED <<list, enriched, params, place, selected, toPush, emptyStreak, verdict,
                   outcome, threads, begun, mishaps, past>>

\* What a try had in memory is gone when it ends.
Forget(t) ==
    /\ Move(t, "ended")
    /\ toPush' = [toPush EXCEPT ![t] = {}]
    /\ emptyStreak' = [emptyStreak EXCEPT ![t] = 0]
    /\ flag' = [flag EXCEPT ![t] = "none"]
    /\ verdict' = [verdict EXCEPT ![t] = "none"]
    /\ enricher' = [enricher EXCEPT ![t] = [w \in Enricher |-> "off"]]
    /\ popped' = [popped EXCEPT ![t] = [w \in Enricher |-> {}]]

\* run_one records the outcome of a run it still holds, or gives it back.
Record(t, v) ==
    /\ Forget(t)
    /\ outcome' = [outcome EXCEPT ![t] = CASE t # begun -> "lost"
                                           [] v # "ok" /\ flag[t] = "shutdown" -> "released"
                                           [] OTHER -> v]

----------------------------------------------------------------------------
\* populate: the alerts of the cursor, in batches; a cancelation is looked for at
\* every alert, and so not after the last one.
Push(t) ==
    /\ place[t] = "populate" /\ toPush[t] # {}
    /\ \E b \in SUBSET toPush[t] :
         /\ Cardinality(b) = Smaller(PushSize, Cardinality(toPush[t]))
         /\ list' = SetToSeq(b) \o list
         /\ toPush' = [toPush EXCEPT ![t] = @ \ b]
    /\ UNCHANGED <<enriched, params, place, selected, emptyStreak, flag, verdict, outcome,
                   threads, begun, mishaps, past>>

Return(t, p, v) ==
    /\ Move(t, p)
    /\ verdict' = [verdict EXCEPT ![t] = v]
    /\ UNCHANGED <<list, enriched, params, selected, toPush, emptyStreak, flag, outcome,
                   threads, begun>>

PopulateCanceled(t) ==
    /\ place[t] = "populate" /\ toPush[t] # {} /\ flag[t] # "none"
    /\ Return(t, "discard", "canceled")
    /\ UNCHANGED <<mishaps, past>>

\* A bug: the error is returned as it is.
PopulateFailsAtOnce(t) ==
    /\ place[t] = "populate"
    /\ Mishap
    /\ Return(t, "report", "failed")
    /\ UNCHANGED past

PopulateFails(t) ==
    /\ place[t] = "populate"
    /\ Mishap
    /\ Return(t, "discard", "failed")
    /\ UNCHANGED past

\* An empty selection is a success.
Populated(t) ==
    /\ place[t] = "populate" /\ toPush[t] = {}
    /\ IF selected[t] = {} THEN Return(t, "discard", "ok") ELSE Return(t, "spawn", "none")
    /\ UNCHANGED <<mishaps, past>>

\* SharedModelPool::load: the error is returned with the list in place.
LoadFails(t) ==
    /\ place[t] = "spawn"
    /\ Mishap
    /\ Return(t, "report", "failed")
    /\ leaked' = TRUE
    /\ UNCHANGED <<overlapped, diedLate>>

\* The threads are started, and then drain connects to Valkey.
Spawn(t) ==
    /\ place[t] = "spawn"
    /\ \/ Move(t, "drain") /\ UNCHANGED <<verdict, mishaps>>
       \/ Mishap /\ Move(t, "stop") /\ verdict' = [verdict EXCEPT ![t] = "failed"]
    /\ enricher' = [enricher EXCEPT ![t] = [w \in Enricher |-> "loop"]]
    /\ UNCHANGED <<list, enriched, params, selected, toPush, emptyStreak, flag,
                   outcome, popped, begun, past>>

----------------------------------------------------------------------------
\* drain: every DRAIN_POLL a look at the flag and at the threads, then at the list.

\* A bug: one that is left is enough.
ExitedAll(t) == \A w \in Enricher : enricher[t][w] = "exited"

\* A thread ends on TERM, which is not sent yet, or on an error.
Exited(t) == \E w \in Enricher : enricher[t][w] = "exited"

Look(t) ==
    /\ place[t] = "drain"
    /\ CASE flag[t] # "none" -> Return(t, "stop", "canceled")
         [] flag[t] = "none" /\ Exited(t) -> Return(t, "stop", "failed")
         [] OTHER -> Return(t, "llen", "none")
    /\ UNCHANGED <<mishaps, past>>

\* LLEN: empty twice in a row is done.
Length(t) ==
    /\ place[t] = "llen"
    /\ LET streak == IF list = <<>> THEN emptyStreak[t] + 1 ELSE 0 IN
         /\ emptyStreak' = [emptyStreak EXCEPT ![t] = streak]
         /\ Move(t, IF streak = 2 THEN "stop" ELSE "drain")
         /\ verdict' = [verdict EXCEPT ![t] = IF streak = 2 THEN "ok" ELSE "none"]
    /\ UNCHANGED <<list, enriched, params, selected, toPush, flag, outcome, threads, begun,
                   mishaps, past>>

LengthFails(t) ==
    /\ place[t] = "llen"
    /\ Mishap
    /\ Return(t, "stop", "failed")
    /\ UNCHANGED past

\* TERM was sent: the threads are joined, whatever they return.
Join(t) ==
    /\ place[t] = "stop"
    /\ \A w \in Enricher : enricher[t][w] = "exited"
    /\ Return(t, IF owned THEN "discard" ELSE "report", verdict[t])
    /\ UNCHANGED <<mishaps, past>>

\* discard_owned_queue, best effort.
Discard(t) ==
    /\ place[t] = "discard"
    /\ list' = <<>>
    /\ Move(t, "report")
    /\ UNCHANGED <<enriched, params, selected, toPush, emptyStreak, flag, verdict, outcome,
                   threads, begun, mishaps, past>>

DiscardFails(t) ==
    /\ place[t] = "discard"
    /\ Mishap
    /\ Move(t, "report")
    /\ leaked' = TRUE
    /\ UNCHANGED <<list, enriched, params, selected, toPush, emptyStreak, flag, verdict,
                   outcome, threads, begun, overlapped, diedLate>>

Report(t) ==
    /\ place[t] = "report"
    /\ Record(t, verdict[t])
    /\ UNCHANGED <<list, enriched, params, selected, begun, mishaps, past>>

----------------------------------------------------------------------------
\* run_enrich_only.

Set(t, w, state, batch) ==
    /\ enricher' = [enricher EXCEPT ![t][w] = state]
    /\ popped' = [popped EXCEPT ![t][w] = batch]

\* What RPOP with a count removes.
Taken ==
    LET n == Smaller(PopSize, Len(list))
    IN  SubSeq(list, Len(list) - n + 1, Len(list))

Remaining == SubSeq(list, 1, Len(list) - Smaller(PopSize, Len(list)))

Pop(t, w) ==
    /\ enricher[t][w] = "loop" /\ list # <<>>
    /\ list' = Remaining
    /\ Set(t, w, "busy", ToSet(Taken))
    /\ UNCHANGED <<enriched, params, try, begun, mishaps, past>>

\* process_alerts; nothing is forwarded to the filters.
Process(t, w) ==
    /\ enricher[t][w] = "busy"
    /\ enriched' = enriched \cup popped[t][w]
    /\ Set(t, w, "loop", {})
    /\ UNCHANGED <<list, params, try, begun, mishaps, past>>

\* The command countdown has come to zero, and TERM is there.
Terminate(t, w) ==
    /\ enricher[t][w] = "loop" /\ place[t] = "stop"
    /\ Set(t, w, "exited", {})
    /\ UNCHANGED <<list, enriched, params, try, begun, mishaps, past>>

\* An error or a panic: of RPOP, which may have been applied, or in the middle of the
\* updates of a batch.
ThreadFails(t, w) ==
    /\ enricher[t][w] \in {"loop", "busy"}
    /\ Mishap
    /\ list' \in IF enricher[t][w] = "loop" THEN {list, Remaining} ELSE {list}
    /\ \E b \in SUBSET popped[t][w] : enriched' = enriched \cup b
    /\ Set(t, w, "exited", {})
    /\ diedLate' = IF place[t] \in {"llen", "stop"} THEN diedLate \cup {t} ELSE diedLate
    /\ UNCHANGED <<params, try, begun, overlapped, leaked>>

\* The task worker is killed.
Kill(t) ==
    /\ Runs(t)
    /\ Mishap
    /\ Forget(t)
    /\ leaked' = (leaked \/ t # begun)
    /\ UNCHANGED <<list, enriched, params, selected, outcome, begun, overlapped, diedLate>>

----------------------------------------------------------------------------
Body(t) ==
    \/ Push(t) \/ PopulateCanceled(t) \/ PopulateFails(t) \/ Populated(t)
    \/ LoadFails(t) \/ Spawn(t) \/ Look(t) \/ Length(t) \/ LengthFails(t)
    \/ Join(t) \/ Discard(t) \/ DiscardFails(t) \/ Report(t)

Thread(t, w) == Pop(t, w) \/ Process(t, w) \/ Terminate(t, w) \/ ThreadFails(t, w)

ReprocessNext ==
    \E t \in Try :
        \/ Claim(t) \/ Body(t) \/ Kill(t)
        \/ \E f \in {"cancel", "shutdown"} : Flag(t, f)
        \/ \E w \in Enricher : Thread(t, w)

ReprocessSpec == ReprocessInit /\ [][ReprocessNext]_reprocessVars

----------------------------------------------------------------------------
\* A run that succeeded has enriched every alert it put on its list, also after a try
\* that was killed with batches in hand ("empty means done").  Excepted are a thread
\* that fails after the last look at the threads, and a try that goes on next to
\* its successor and pops, or discards, what the successor has queued.
SuccessIsWhole ==
    \A t \in Try : outcome[t] = "ok" /\ t \notin diedLate /\ ~overlapped
                     => selected[t] \subseteq enriched

\* "Because the task owns the queue, empty means done": the same without exceptions.
EmptyMeansDone == \A t \in Try : outcome[t] = "ok" => selected[t] \subseteq enriched

\* The list of a run does not outlive it ("candids on a queue only this run knows the
\* name of"), however it ended and whatever earlier tries left on it; but for an
\* error of DEL, a model that does not load, and a killed try that had lost the run.
QueueIsDiscarded ==
    owned /\ ~leaked /\ (\A t \in Try : ~Runs(t)) /\ begun # 0
      => outcome[begun] \in {"none", "released", "lost"} \/ list = <<>>
============================================================================
