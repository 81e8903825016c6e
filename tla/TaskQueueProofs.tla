-------------------------- MODULE TaskQueueProofs --------------------------
(***************************************************************************)
(* Proofs about TaskQueue, for every set of runs, workers and requests and *)
(* every number of disruptions.                                            *)
(***************************************************************************)
EXTENDS TaskQueue, TLAPS

----------------------------------------------------------------------------
(* Typing.                                                                 *)

\* cancel_task has an answer for every status.
LEMMA CancelMessageType ==
  ASSUME NEW s PROVE CancelMessage(s) \in Answer
  BY DEF CancelMessage, Answer

\* run_one records one of the three outcomes.
LEMMA OutcomeType ==
  ASSUME NEW w PROVE Outcome(w) \in Terminal
  BY DEF Outcome, Terminal

\* Every step of the task queue keeps the state well typed.
LEMMA TypeStep == IInv /\ [Next]_vars => TypeOK'
<1> SUFFICES ASSUME IInv, [Next]_vars PROVE TypeOK'
  OBVIOUS
<1>0. TypeOK /\ RequestInv /\ AttemptInv
  BY DEF IInv
<1> USE <1>0, BoundAssumption, IdempotentAssumption
    DEF TypeOK, Status, Active, Terminal, PC, Phase, Answer, Result,
        tasks, running, processes, requests, vars, Goto, Reply, Disrupt
<1>1. ASSUME NEW c \in Client, NEW r \in Run, SubmitCheck(c, r) PROVE TypeOK'
  BY <1>1 DEF SubmitCheck
<1>2. ASSUME NEW c \in Client, SubmitInsert(c) PROVE TypeOK'
  <2>1. subject[c] \in Run
    BY <1>2 DEF SubmitInsert, RequestInv
  <2> QED
    BY <1>2, <2>1 DEF SubmitInsert
<1>3. ASSUME NEW c \in Client, NEW r \in Run, CancelQueued(c, r) PROVE TypeOK'
  <2>1. CASE status[r] = "queued"
    BY <1>3, <2>1, CancelMessageType, SMTT(30) DEF CancelQueued
  <2>2. CASE status[r] # "queued"
    BY <1>3, <2>2 DEF CancelQueued
  <2> QED
    BY <2>1, <2>2
<1>4. ASSUME NEW c \in Client, CancelRunning(c) PROVE TypeOK'
  <2>1. subject[c] \in Run
    BY <1>4 DEF CancelRunning, RequestInv
  <2>2. CASE status[subject[c]] = "running"
    <3>1. cancel_requested' \in [Run -> BOOLEAN]
      BY <1>4, <2>1, <2>2, ZenonT(60) DEF CancelRunning
    <3>2. phase' \in [Client -> Phase] /\ answer' \in [Client -> Answer]
      BY <1>4, <2>2, CancelMessageType DEF CancelRunning
    <3> QED
      BY <1>4, <3>1, <3>2 DEF CancelRunning
  <2>3. CASE status[subject[c]] # "running"
    BY <1>4, <2>1, <2>3 DEF CancelRunning
  <2> QED
    BY <2>2, <2>3
<1>5. ASSUME NEW c \in Client, CancelRead(c) PROVE TypeOK'
  BY <1>5, CancelMessageType DEF CancelRead
<1>6. ASSUME NEW c \in Client, RequestError(c) PROVE TypeOK'
  BY <1>6 DEF RequestError
<1>7. ASSUME NEW w \in Worker, Start(w) \/ LoopExit(w) PROVE TypeOK'
  BY <1>7 DEF Start, LoopExit
<1>8. ASSUME NEW w \in Worker, SweepRequeue(w) PROVE TypeOK'
  BY <1>8 DEF SweepRequeue, Disown
<1>9. ASSUME NEW w \in Worker, SweepFind(w) PROVE TypeOK'
  BY <1>9 DEF SweepFind
<1>10. ASSUME NEW w \in Worker, SweepFail(w) PROVE TypeOK'
  BY <1>10, ZenonT(60) DEF SweepFail, Disown, EndSweep
<1>11. ASSUME NEW w \in Worker, SweepExtend(w) PROVE TypeOK'
  BY <1>11 DEF SweepExtend, EndSweep
<1>12. ASSUME NEW w \in Worker, SweepError(w) PROVE TypeOK'
  BY <1>12 DEF SweepError, EndSweep
<1>13. ASSUME NEW w \in Worker, NEW r \in Run, Claim(w, r) PROVE TypeOK'
  BY <1>13 DEF Claim, Claimed
<1>14. ASSUME NEW w \in Worker, ClaimNone(w) PROVE TypeOK'
  BY <1>14 DEF ClaimNone
<1>15. ASSUME NEW w \in Worker, ClaimError(w) PROVE TypeOK'
  <2>1. CASE UNCHANGED tasks
    BY <1>15, <2>1 DEF ClaimError
  <2>2. ASSUME NEW r \in Oldest, Claimed(w, r) PROVE TypeOK'
    <3>1. r \in Run
      BY DEF Oldest
    <3>2. /\ status' \in [Run -> Status]
          /\ worker' \in [Run -> Worker \cup {NoWorker}]
          /\ lease' \in [Run -> {"none", "live", "lapsed"}]
          /\ attempts' \in [Run -> Nat]
          /\ UNCHANGED <<cancel_requested, requested_at>>
      BY <2>2, <3>1 DEF Claimed
    <3>3. /\ pc' \in [Worker -> PC]
          /\ disruptions' \in 0 .. MaxDisruptions
          /\ UNCHANGED <<shutting_down, failed_ids, running, requests, retained, clock>>
      BY <1>15 DEF ClaimError
    <3> QED
      BY <3>2, <3>3
  <2> QED
    BY <1>15, <2>1, <2>2 DEF ClaimError
<1>16. ASSUME NEW w \in Worker, Heartbeat(w) PROVE TypeOK'
  BY <1>16, ZenonT(60) DEF Heartbeat
<1>17. ASSUME NEW w \in Worker, HeartbeatError(w) PROVE TypeOK'
  BY <1>17 DEF HeartbeatError
<1>18. ASSUME NEW w \in Worker, NEW x \in Result, BodyReturns(w, x) PROVE TypeOK'
  BY <1>18 DEF BodyReturns
<1>19. ASSUME NEW w \in Worker, Release(w) PROVE TypeOK'
  BY <1>19 DEF Release, Released, Disown, EndRun
<1>20. ASSUME NEW w \in Worker, FinishClaimed(w) PROVE TypeOK'
  <2>1. run[w] \in Run
    BY <1>20 DEF FinishClaimed, AttemptInv
  <2>2. /\ status' \in [Run -> Status]
        /\ lease' \in [Run -> {"none", "live", "lapsed"}]
        /\ UNCHANGED <<worker, cancel_requested, attempts, requested_at>>
    BY <1>20, <2>1, OutcomeType DEF FinishClaimed, Finished
  <2>3. CASE Outcome(w) \in {"failed", "canceled"}
    BY <1>20, <2>2, <2>3 DEF FinishClaimed
  <2>4. CASE Outcome(w) \notin {"failed", "canceled"}
    <3>1. /\ Goto(w, "sweep")
          /\ EndRun(w)
          /\ UNCHANGED <<shutting_down, failed_ids, requests, retained, clock, disruptions>>
      BY <1>20, <2>4 DEF FinishClaimed
    <3> QED
      BY <2>2, <3>1 DEF EndRun
  <2> QED
    BY <2>3, <2>4
<1>21. ASSUME NEW w \in Worker, ExtendRetention(w) PROVE TypeOK'
  <2>1. run[w] \in Run
    BY <1>21 DEF ExtendRetention, AttemptInv
  <2> QED
    BY <1>21, <2>1 DEF ExtendRetention, EndRun
<1>22. ASSUME NEW w \in Worker, RecordError(w) PROVE TypeOK'
  <2>1. run[w] \in Run
    BY <1>22 DEF RecordError, AttemptInv
  <2>2. /\ status' \in [Run -> Status]
        /\ worker' \in [Run -> Worker \cup {NoWorker}]
        /\ lease' \in [Run -> {"none", "live", "lapsed"}]
        /\ UNCHANGED <<cancel_requested, attempts, requested_at>>
    <3>1. CASE UNCHANGED tasks
      BY <3>1
    <3>2. CASE Released(w)
      BY <3>2 DEF Released, Disown
    <3>3. CASE Finished(w)
      BY <3>3, <2>1, OutcomeType DEF Finished
    <3> QED
      BY <1>22, <3>1, <3>2, <3>3 DEF RecordError
  <2> QED
    BY <1>22, <2>2 DEF RecordError, EndRun
<1>23. ASSUME NEW w \in Worker, Signal(w) PROVE TypeOK'
  BY <1>23 DEF Signal
<1>24. ASSUME NEW w \in Worker, Crash(w) PROVE TypeOK'
  BY <1>24 DEF Crash, EndRun
<1>25. ASSUME NEW r \in Run, LeaseLapse(r) PROVE TypeOK'
  BY <1>25 DEF LeaseLapse
<1>26. CASE UNCHANGED vars
  BY <1>26 DEF vars
<1> QED
  BY <1>1, <1>2, <1>3, <1>4, <1>5, <1>6, <1>7, <1>8, <1>9, <1>10, <1>11, <1>12,
     <1>13, <1>14, <1>15, <1>16, <1>17, <1>18, <1>19, <1>20, <1>21, <1>22, <1>23,
     <1>24, <1>25, <1>26 DEF Next, Request, WorkerStep, Fault, Sweep, Record

----------------------------------------------------------------------------
(* What a step may do to the documents of `tasks`.                         *)

\* A submission inserts the run.
Inserted(r) == /\ status[r] = "absent"
               /\ status' = [status EXCEPT ![r] = "queued"]
               /\ UNCHANGED <<worker, lease, attempts>>

\* A cancel ends a run that nobody has claimed.
CanceledOutright(r) == /\ status[r] = "queued"
                       /\ status' = [status EXCEPT ![r] = "canceled"]
                       /\ lease' = [lease EXCEPT ![r] = "none"]
                       /\ UNCHANGED <<worker, attempts>>

\* The sweep takes the runs S from their owners.
Swept(S, s) == (\A r \in S : status[r] = "running") /\ Disown(S, s)

\* A worker claims a queued run.
Taken(w, r) == pc[w] = "claim" /\ status[r] = "queued" /\ Claimed(w, r)

\* The owner reports the outcome of its run.
Ended(w, r) == /\ Owns(w, r)
               /\ run[w] = r
               /\ status' = [status EXCEPT ![r] = Outcome(w)]
               /\ lease' = [lease EXCEPT ![r] = "none"]
               /\ UNCHANGED <<worker, attempts>>

\* The lease of a running run is renewed or lapses.
Leased(r, l) == /\ status[r] = "running"
                /\ lease' = [lease EXCEPT ![r] = l]
                /\ UNCHANGED <<status, worker, attempts>>

\* What the workers and the passing of time can do to the documents.
WorkerEffect ==
    \/ UNCHANGED <<status, worker, lease, attempts>>
    \/ \E S \in SUBSET Idempotent : Swept(S, "queued")
    \/ \E S \in SUBSET (Run \ Idempotent) :
         Swept(S, "failed") /\ \A r \in S : Expired(r)
    \/ \E w \in Worker, r \in Run : Taken(w, r)
    \/ \E w \in Worker, r \in Run : Ended(w, r)
    \/ \E r \in Run, l \in {"live", "lapsed"} : Leased(r, l)

\* What any step can do to them.
TaskEffect ==
    \/ WorkerEffect
    \/ \E c \in Client : phase[c] = "insert" /\ Inserted(subject[c])
    \/ \E r \in Run : CanceledOutright(r)

\* The steps of the workers, and of time.
Background == \/ \E w \in Worker : WorkerStep(w) \/ Fault(w)
              \/ \E r \in Run : LeaseLapse(r)

\* A step of a worker, or of time, has one of the effects above.
LEMMA BackgroundEffect == IInv /\ Background => WorkerEffect
<1> SUFFICES ASSUME IInv, Background PROVE WorkerEffect
  OBVIOUS
<1>0. TypeOK /\ RequestInv /\ AttemptInv /\ OnceInv
  BY DEF IInv
<1> USE <1>0, IdempotentAssumption DEF tasks
<1>1. ASSUME NEW w \in Worker, SweepRequeue(w) PROVE WorkerEffect
  <2>1. {r \in Retryable : Expired(r)} \in SUBSET Idempotent
    BY DEF Retryable
  <2>2. Swept({r \in Retryable : Expired(r)}, "queued")
    BY <1>1 DEF SweepRequeue, Swept, Expired
  <2> QED
    BY <2>1, <2>2 DEF WorkerEffect
<1>2. ASSUME NEW w \in Worker, SweepFail(w) PROVE WorkerEffect
  <2> DEFINE S == {r \in failed_ids[w] : Expired(r)}
  <2>1. S \in SUBSET (Run \ Idempotent)
    BY DEF OnceInv, TypeOK
  <2>2. Swept(S, "failed") /\ \A r \in S : Expired(r)
    BY <1>2 DEF SweepFail, Swept, Expired
  <2> QED
    BY <2>1, <2>2 DEF WorkerEffect
<1>3. ASSUME NEW w \in Worker, pc[w] = "claim", NEW r \in Oldest, Claimed(w, r)
      PROVE  WorkerEffect
  <2>1. r \in Run /\ Taken(w, r)
    BY <1>3 DEF Oldest, Taken
  <2> QED
    BY <2>1 DEF WorkerEffect
<1>4. ASSUME NEW w \in Worker, Heartbeat(w) PROVE WorkerEffect
  <2>1. run[w] \in Run
    BY <1>4 DEF Heartbeat, AttemptInv
  <2>2. CASE Owns(w, run[w])
    <3>1. Leased(run[w], "live")
      BY <1>4, <2>2 DEF Heartbeat, Leased, Owns
    <3> QED
      BY <2>1, <3>1 DEF WorkerEffect
  <2>3. CASE ~Owns(w, run[w])
    BY <1>4, <2>3 DEF Heartbeat, WorkerEffect
  <2> QED
    BY <2>2, <2>3
<1>5. ASSUME NEW w \in Worker, run[w] \in Retryable, Released(w) PROVE WorkerEffect
  <2> DEFINE S == {r \in {run[w]} : Owns(w, r)}
  <2>1. S \in SUBSET Idempotent
    BY <1>5 DEF Retryable
  <2>2. Swept(S, "queued")
    BY <1>5 DEF Released, Swept, Owns
  <2> QED
    BY <2>1, <2>2 DEF WorkerEffect
<1>6. ASSUME NEW w \in Worker, run[w] \in Run, Finished(w) PROVE WorkerEffect
  <2>1. CASE Owns(w, run[w])
    <3>1. Ended(w, run[w])
      BY <1>6, <2>1 DEF Finished, Ended
    <3> QED
      BY <1>6, <3>1 DEF WorkerEffect
  <2>2. CASE ~Owns(w, run[w])
    BY <1>6, <2>2 DEF Finished, WorkerEffect
  <2> QED
    BY <2>1, <2>2
<1>7. ASSUME NEW w \in Worker, FinishClaimed(w) PROVE WorkerEffect
  BY <1>7, <1>6 DEF FinishClaimed, AttemptInv
<1>8. ASSUME NEW w \in Worker, RecordError(w) PROVE WorkerEffect
  <2>1. run[w] \in Run
    BY <1>8 DEF RecordError, AttemptInv
  <2>2. CASE UNCHANGED tasks
    BY <2>2 DEF WorkerEffect
  <2> QED
    BY <1>8, <2>1, <2>2, <1>5, <1>6 DEF RecordError
<1>9. ASSUME NEW r \in Run, LeaseLapse(r) PROVE WorkerEffect
  <2>1. Leased(r, "lapsed")
    BY <1>9 DEF LeaseLapse, Leased
  <2> QED
    BY <2>1 DEF WorkerEffect
<1>10. CASE UNCHANGED tasks
  BY <1>10 DEF WorkerEffect
<1>11. ASSUME NEW w \in Worker, WorkerStep(w) \/ Fault(w) PROVE WorkerEffect
  <2>1. ASSUME NEW r \in Run, Claim(w, r) PROVE WorkerEffect
    BY <2>1, <1>3 DEF Claim
  <2>2. CASE ClaimError(w)
    BY <2>2, <1>3, <1>10 DEF ClaimError
  <2>3. CASE Release(w)
    BY <2>3, <1>5 DEF Release
  <2>4. CASE Start(w) \/ LoopExit(w) \/ SweepFind(w) \/ SweepExtend(w)
             \/ ClaimNone(w) \/ ExtendRetention(w)
    BY <2>4, <1>10 DEF Start, LoopExit, SweepFind, SweepExtend, ClaimNone,
                       ExtendRetention
  <2>5. CASE SweepError(w) \/ HeartbeatError(w) \/ Signal(w) \/ Crash(w)
    BY <2>5, <1>10 DEF SweepError, HeartbeatError, Signal, Crash
  <2>6. ASSUME NEW x \in Result, BodyReturns(w, x) PROVE WorkerEffect
    BY <2>6, <1>10 DEF BodyReturns
  <2> QED
    BY <1>11, <1>1, <1>2, <1>4, <1>7, <1>8, <2>1, <2>2, <2>3, <2>4, <2>5, <2>6
       DEF WorkerStep, Fault, Sweep, Record
<1> QED
  BY <1>9, <1>11 DEF Background

\* Every step has one of the effects above on the documents.
LEMMA StepEffect == IInv /\ [Next]_vars => TaskEffect
<1> SUFFICES ASSUME IInv, [Next]_vars PROVE TaskEffect
  OBVIOUS
<1>0. TypeOK /\ RequestInv
  BY DEF IInv
<1> USE <1>0 DEF tasks
<1>1. CASE Background
  BY <1>1, BackgroundEffect DEF TaskEffect
<1>2. ASSUME NEW c \in Client, Request(c) PROVE TaskEffect
  <2>1. CASE SubmitInsert(c)
    BY <2>1 DEF SubmitInsert, RequestInv, TaskEffect, Inserted
  <2>2. ASSUME NEW r \in Run, CancelQueued(c, r) PROVE TaskEffect
    BY <2>2 DEF CancelQueued, TaskEffect, WorkerEffect, CanceledOutright
  <2>3. ASSUME NEW r \in Run, SubmitCheck(c, r) PROVE TaskEffect
    BY <2>3 DEF SubmitCheck, TaskEffect, WorkerEffect
  <2>4. CASE CancelRunning(c) \/ CancelRead(c) \/ RequestError(c)
    BY <2>4 DEF CancelRunning, CancelRead, RequestError, TaskEffect, WorkerEffect
  <2> QED
    BY <1>2, <2>1, <2>2, <2>3, <2>4 DEF Request
<1>3. CASE UNCHANGED vars
  BY <1>3 DEF vars, TaskEffect, WorkerEffect
<1> QED
  BY <1>1, <1>2, <1>3 DEF Next, Background

----------------------------------------------------------------------------
(* The parts of the inductive invariant.                                   *)

\* Leases and running runs go together in every step.
LEMMA LeaseStep == IInv /\ [Next]_vars => RunningIsLeased'
<1> SUFFICES ASSUME IInv, [Next]_vars PROVE RunningIsLeased'
  OBVIOUS
<1>0. TypeOK /\ RunningIsLeased /\ RequestInv /\ TaskEffect
  BY StepEffect DEF IInv
<1> USE <1>0, NullAssumption, IdempotentAssumption DEF TypeOK, RunningIsLeased
<1>1. CASE UNCHANGED <<status, worker, lease, attempts>>
  BY <1>1
<1>2. ASSUME NEW c \in Client, phase[c] = "insert", Inserted(subject[c])
      PROVE RunningIsLeased'
  <2>1. subject[c] \in Run
    BY <1>2 DEF RequestInv
  <2>2. lease[subject[c]] = "none"
    BY <1>2, <2>1 DEF Inserted
  <2>3. worker[subject[c]] = NoWorker
    BY <1>2, <2>1 DEF Inserted
  <2> QED
    BY <1>2, <2>1, <2>2, <2>3 DEF Inserted
<1>3. ASSUME NEW r \in Run, CanceledOutright(r) PROVE RunningIsLeased'
  BY <1>3 DEF CanceledOutright
<1>4. ASSUME NEW S \in SUBSET Run, NEW s \in {"queued", "failed"}, Swept(S, s)
      PROVE RunningIsLeased'
  BY <1>4 DEF Swept, Disown
<1>5. ASSUME NEW w \in Worker, NEW r \in Run, Taken(w, r) PROVE RunningIsLeased'
  BY <1>5 DEF Taken, Claimed
<1>6. ASSUME NEW w \in Worker, NEW r \in Run, Ended(w, r) PROVE RunningIsLeased'
  <2>1. Outcome(w) \notin {"absent", "queued", "running"}
    BY OutcomeType DEF Terminal
  <2> QED
    BY <1>6, <2>1 DEF Ended
<1>7. ASSUME NEW r \in Run, NEW l \in {"live", "lapsed"}, Leased(r, l)
      PROVE RunningIsLeased'
  BY <1>7 DEF Leased
<1> QED
  BY <1>1, <1>2, <1>3, <1>4, <1>5, <1>6, <1>7 DEF TaskEffect, WorkerEffect

\* A run that is not retried is claimed at most once.
LEMMA OnceStep == IInv /\ [Next]_vars => NonIdempotentRunsOnce' /\ OnceInv'
<1> SUFFICES ASSUME IInv, [Next]_vars PROVE NonIdempotentRunsOnce' /\ OnceInv'
  OBVIOUS
<1>0. TypeOK /\ NonIdempotentRunsOnce /\ OnceInv /\ RequestInv /\ TaskEffect
  BY StepEffect DEF IInv
<1> DEFINE Once == \A r \in Run \ Idempotent :
                     /\ attempts[r] <= 1
                     /\ status[r] \in {"absent", "queued"} => attempts[r] = 0
<1>1. Once'
  <2> USE <1>0, IdempotentAssumption DEF TypeOK, NonIdempotentRunsOnce, OnceInv
  <2>1. CASE UNCHANGED <<status, worker, lease, attempts>>
    BY <2>1
  <2>2. ASSUME NEW c \in Client, phase[c] = "insert", Inserted(subject[c])
        PROVE Once'
    <3>1. subject[c] \in Run
      BY <2>2 DEF RequestInv
    <3> QED
      BY <2>2, <3>1 DEF Inserted
  <2>3. ASSUME NEW r \in Run, CanceledOutright(r) PROVE Once'
    BY <2>3 DEF CanceledOutright
  <2>4. ASSUME NEW S \in SUBSET Idempotent, Swept(S, "queued") PROVE Once'
    BY <2>4 DEF Swept, Disown
  <2>5. ASSUME NEW S \in SUBSET (Run \ Idempotent), Swept(S, "failed") PROVE Once'
    BY <2>5 DEF Swept, Disown
  <2>6. ASSUME NEW w \in Worker, NEW r \in Run, Taken(w, r) PROVE Once'
    BY <2>6 DEF Taken, Claimed
  <2>7. ASSUME NEW w \in Worker, NEW r \in Run, Ended(w, r) PROVE Once'
    <3>1. Outcome(w) \notin {"absent", "queued", "running"}
      BY OutcomeType DEF Terminal
    <3> QED
      BY <2>7, <3>1 DEF Ended
  <2>8. ASSUME NEW r \in Run, NEW l \in {"live", "lapsed"}, Leased(r, l) PROVE Once'
    BY <2>8 DEF Leased
  <2> QED
    BY <2>1, <2>2, <2>3, <2>4, <2>5, <2>6, <2>7, <2>8 DEF TaskEffect, WorkerEffect
<1>2. ASSUME NEW w \in Worker PROVE failed_ids'[w] \cap Idempotent = {}
  <2> USE <1>0 DEF TypeOK, OnceInv
  <2>1. CASE failed_ids' = failed_ids
    BY <2>1
  <2>2. ASSUME NEW v \in Worker, failed_ids' = [failed_ids EXCEPT ![v] = {}]
        PROVE failed_ids'[w] \cap Idempotent = {}
    BY <2>2
  <2>3. ASSUME NEW v \in Worker, SweepFind(v)
        PROVE failed_ids'[w] \cap Idempotent = {}
    BY <2>3 DEF SweepFind, Retryable
  <2>4. ASSUME NEW v \in Worker, WorkerStep(v) \/ Fault(v)
        PROVE failed_ids'[w] \cap Idempotent = {}
    <3>1. CASE SweepFail(v) \/ SweepExtend(v) \/ SweepError(v) \/ Crash(v)
      BY <3>1, <2>1, <2>2 DEF SweepFail, SweepExtend, SweepError, Crash, EndSweep
    <3>2. CASE Start(v) \/ LoopExit(v) \/ SweepRequeue(v) \/ ClaimNone(v) \/ ClaimError(v)
      BY <3>2, <2>1 DEF Start, LoopExit, SweepRequeue, ClaimNone, ClaimError
    <3>3. ASSUME NEW r \in Run, Claim(v, r)
          PROVE failed_ids'[w] \cap Idempotent = {}
      BY <3>3, <2>1 DEF Claim
    <3>4. ASSUME NEW x \in Result, BodyReturns(v, x)
          PROVE failed_ids'[w] \cap Idempotent = {}
      BY <3>4, <2>1 DEF BodyReturns
    <3>5. CASE Heartbeat(v) \/ HeartbeatError(v) \/ Signal(v)
      BY <3>5, <2>1 DEF Heartbeat, HeartbeatError, Signal
    <3>6. CASE Record(v) \/ RecordError(v)
      BY <3>6, <2>1 DEF Record, Release, FinishClaimed, ExtendRetention, RecordError
    <3> QED
      BY <2>4, <2>3, <3>1, <3>2, <3>3, <3>4, <3>5, <3>6 DEF WorkerStep, Fault, Sweep
  <2>5. ASSUME NEW c \in Client, Request(c) PROVE failed_ids' = failed_ids
    BY <2>5 DEF Request, SubmitCheck, CancelQueued, SubmitInsert, CancelRunning,
                CancelRead, RequestError, processes
  <2>6. ASSUME NEW r \in Run, LeaseLapse(r) PROVE failed_ids' = failed_ids
    BY <2>6 DEF LeaseLapse, processes
  <2> QED
    BY <2>1, <2>4, <2>5, <2>6 DEF Next, vars, processes
<1> QED
  BY <1>1, <1>2 DEF NonIdempotentRunsOnce, OnceInv

\* The workers neither submit a run, nor reopen a finished one, nor put back
\* one that is not retried.
LEMMA BackgroundStatus ==
  ASSUME IInv, WorkerEffect, NEW r \in Run
  PROVE  /\ status'[r] = "absent" <=> status[r] = "absent"
         /\ status[r] \in Terminal => status'[r] = status[r]
         /\ r \notin Idempotent /\ status'[r] = "queued" => status[r] = "queued"
<1> DEFINE Goal == /\ status'[r] = "absent" <=> status[r] = "absent"
                   /\ status[r] \in Terminal => status'[r] = status[r]
                   /\ r \notin Idempotent /\ status'[r] = "queued"
                        => status[r] = "queued"
<1>0. TypeOK
  BY DEF IInv
<1> USE <1>0, IdempotentAssumption DEF TypeOK, Terminal
<1>1. CASE UNCHANGED <<status, worker, lease, attempts>>
  BY <1>1
<1>2. ASSUME NEW S \in SUBSET Idempotent, Swept(S, "queued") PROVE Goal
  BY <1>2 DEF Swept, Disown
<1>3. ASSUME NEW S \in SUBSET (Run \ Idempotent), Swept(S, "failed") PROVE Goal
  BY <1>3 DEF Swept, Disown
<1>4. ASSUME NEW w \in Worker, NEW q \in Run, Taken(w, q) PROVE Goal
  BY <1>4 DEF Taken, Claimed
<1>5. ASSUME NEW w \in Worker, NEW q \in Run, Ended(w, q) PROVE Goal
  <2>1. Outcome(w) \notin {"absent", "queued", "running"}
    BY OutcomeType
  <2> QED
    BY <1>5, <2>1 DEF Ended, Owns
<1>6. ASSUME NEW q \in Run, NEW l \in {"live", "lapsed"}, Leased(q, l) PROVE Goal
  BY <1>6 DEF Leased
<1> QED
  BY <1>1, <1>2, <1>3, <1>4, <1>5, <1>6 DEF WorkerEffect

\* The workers touch neither the requests nor a recorded cancellation.
LEMMA BackgroundFrame ==
  Background => UNCHANGED <<phase, subject, answer, cancel_requested>>
<1> SUFFICES ASSUME Background
             PROVE  UNCHANGED <<phase, subject, answer, cancel_requested>>
  OBVIOUS
<1> USE DEF requests, tasks
<1> DEFINE Same == UNCHANGED <<phase, subject, answer, cancel_requested>>
<1>1. ASSUME NEW r \in Run, LeaseLapse(r) PROVE Same
  BY <1>1 DEF LeaseLapse
<1>2. ASSUME NEW w \in Worker, WorkerStep(w) PROVE Same
  <2>1. CASE Start(w) \/ Sweep(w) \/ ClaimNone(w)
    BY <2>1 DEF Start, Sweep, LoopExit, SweepRequeue, SweepFind, SweepFail,
                SweepExtend, ClaimNone, Disown
  <2>2. ASSUME NEW r \in Run, Claim(w, r) PROVE Same
    BY <2>2 DEF Claim, Claimed
  <2>3. CASE Heartbeat(w)
    BY <2>3 DEF Heartbeat
  <2>4. ASSUME NEW x \in Result, BodyReturns(w, x) PROVE Same
    BY <2>4 DEF BodyReturns
  <2>5. CASE Record(w)
    BY <2>5 DEF Record, Release, Released, Disown, FinishClaimed, Finished,
                ExtendRetention
  <2> QED
    BY <1>2, <2>1, <2>2, <2>3, <2>4, <2>5 DEF WorkerStep
<1>3. ASSUME NEW w \in Worker, Fault(w) PROVE Same
  <2>1. CASE ClaimError(w)
    BY <2>1 DEF ClaimError, Claimed
  <2>2. CASE RecordError(w)
    BY <2>2 DEF RecordError, Released, Disown, Finished
  <2> QED
    BY <1>3, <2>1, <2>2 DEF Fault, SweepError, HeartbeatError, Signal, Crash
<1> QED
  BY <1>1, <1>2, <1>3 DEF Background

\* What is true of the requests stays true, and so do the answers for a run
\* that is not retried.
LEMMA RequestStep ==
  IInv /\ [Next]_vars => RequestInv' /\ CancelTruthfulUnlessRequeued'
<1> SUFFICES ASSUME IInv, [Next]_vars
             PROVE  RequestInv' /\ CancelTruthfulUnlessRequeued'
  OBVIOUS
<1> DEFINE Inv == RequestInv /\ CancelTruthfulUnlessRequeued
<1>0. TypeOK /\ RequestInv /\ CancelTruthfulUnlessRequeued
  BY DEF IInv
<1> USE <1>0, NullAssumption DEF TypeOK, Terminal, Reply, requests, tasks,
        RequestInv, CancelTruthfulUnlessRequeued, Truthful
<1>1. CASE Background
  <2>1. UNCHANGED <<phase, subject, answer, cancel_requested>>
    BY <1>1, BackgroundFrame
  <2>2. WorkerEffect
    BY <1>1, BackgroundEffect
  <2>3. \A r \in Run : /\ status'[r] = "absent" <=> status[r] = "absent"
                       /\ status[r] \in Terminal => status'[r] = status[r]
                       /\ r \notin Idempotent /\ status'[r] = "queued"
                            => status[r] = "queued"
    BY <2>2, BackgroundStatus
  <2> QED
    BY <2>1, <2>3
<1>2. ASSUME NEW c \in Client, NEW r \in Run, SubmitCheck(c, r) PROVE Inv'
  BY <1>2 DEF SubmitCheck
<1>3. ASSUME NEW c \in Client, SubmitInsert(c) PROVE Inv'
  BY <1>3 DEF SubmitInsert
<1>4. ASSUME NEW c \in Client, NEW r \in Run, CancelQueued(c, r) PROVE Inv'
  BY <1>4, SMTT(30) DEF CancelQueued, CancelMessage
<1>5. ASSUME NEW c \in Client, CancelRunning(c) PROVE Inv'
  <2>1. subject[c] \in Run /\ status' = status /\ subject' = subject
    BY <1>5 DEF CancelRunning
  <2>2. CASE status[subject[c]] = "running"
    <3>1. /\ phase' = [phase EXCEPT ![c] = "done"]
          /\ answer' = [answer EXCEPT ![c] = "cancellation_requested"]
          /\ cancel_requested' = [cancel_requested EXCEPT ![subject[c]] = TRUE]
      BY <1>5, <2>2 DEF CancelRunning, CancelMessage
    <3>2. \A r \in Run : cancel_requested[r] => cancel_requested'[r]
      BY <3>1
    <3>3. cancel_requested'[subject[c]]
      BY <2>1, <3>1
    <3>4. RequestInv'
      BY <2>1, <3>1
    <3>5. CancelTruthfulUnlessRequeued'
      BY <2>1, <3>1, <3>2, <3>3
    <3> QED
      BY <3>4, <3>5
  <2>3. CASE status[subject[c]] # "running"
    BY <1>5, <2>1, <2>3 DEF CancelRunning, Status, Active
  <2> QED
    BY <2>2, <2>3
<1>6. ASSUME NEW c \in Client, CancelRead(c) PROVE Inv'
  BY <1>6 DEF CancelRead, CancelMessage
<1>7. ASSUME NEW c \in Client, RequestError(c) PROVE Inv'
  BY <1>7 DEF RequestError
<1>8. CASE UNCHANGED vars
  BY <1>8 DEF vars
<1> QED
  BY <1>1, <1>2, <1>3, <1>4, <1>5, <1>6, <1>7, <1>8 DEF Next, Request, Background

\* The attempts the workers are on stay apart, and the owner's is the latest.
LEMMA AttemptStep == IInv /\ [Next]_vars => AttemptInv'
<1> SUFFICES ASSUME IInv, [Next]_vars PROVE AttemptInv'
  OBVIOUS
<1>0. TypeOK /\ RunningIsLeased /\ RequestInv /\ AttemptInv /\ TaskEffect
  BY StepEffect DEF IInv
<1>00. TypeOK'
  BY TypeStep
<1> USE <1>0, <1>00, NullAssumption, IdempotentAssumption
    DEF TypeOK, AttemptInv, Owns, tasks, running, Goto
<1> DEFINE Working == {"run", "record", "extend"}
<1>1. ASSUME \A u \in Worker : /\ run'[u] = NoRun \/ (run'[u] = run[u] /\ attempt'[u] = attempt[u])
                               /\ run'[u] \in Run <=> pc'[u] \in Working
      PROVE  AttemptInv'
  <2>0. \A u \in Worker, r \in Run : run'[u] = r => run[u] = r /\ attempt'[u] = attempt[u]
    BY <1>1
  <2> DEFINE Good(u, r) == /\ status'[r] # "absent"
                           /\ attempt[u] <= attempts'[r]
                           /\ status'[r] = "running" /\ worker'[r] = u
                                => attempt[u] = attempts'[r]
  <2> HIDE DEF Good
  <2>1. SUFFICES ASSUME NEW u \in Worker, NEW r \in Run, run[u] = r
                 PROVE  Good(u, r)
    BY <1>1, <2>0, <2>1 DEF Good
  <2> USE <2>1 DEF Good
  <2>2. CASE UNCHANGED <<status, worker, lease, attempts>>
    BY <2>2
  <2>3. ASSUME NEW c \in Client, phase[c] = "insert", Inserted(subject[c])
        PROVE Good(u, r)
    <3>1. subject[c] \in Run
      BY <2>3 DEF RequestInv
    <3> QED
      BY <2>3, <3>1 DEF Inserted
  <2>4. ASSUME NEW q \in Run, CanceledOutright(q) PROVE Good(u, r)
    BY <2>4 DEF CanceledOutright
  <2>5. ASSUME NEW S \in SUBSET Run, NEW s \in {"queued", "failed"}, Swept(S, s)
        PROVE Good(u, r)
    BY <2>5 DEF Swept, Disown
  <2>6. ASSUME NEW w \in Worker, NEW q \in Run, Taken(w, q) PROVE Good(u, r)
    <3>1. w # u
      BY <2>6 DEF Taken
    <3> QED
      BY <2>6, <3>1 DEF Taken, Claimed
  <2>7. ASSUME NEW w \in Worker, NEW q \in Run, Ended(w, q) PROVE Good(u, r)
    <3>1. Outcome(w) \notin {"absent", "queued", "running"}
      BY OutcomeType DEF Terminal
    <3> QED
      BY <2>7, <3>1 DEF Ended
  <2>8. ASSUME NEW q \in Run, NEW l \in {"live", "lapsed"}, Leased(q, l)
        PROVE Good(u, r)
    BY <2>8 DEF Leased
  <2> QED
    BY <2>2, <2>3, <2>4, <2>5, <2>6, <2>7, <2>8 DEF TaskEffect, WorkerEffect
<1>2. CASE UNCHANGED <<pc, run, attempt>>
  BY <1>2, <1>1
<1>3. ASSUME NEW w \in Worker, NEW a \in PC, pc[w] \in Working <=> a \in Working,
             pc' = [pc EXCEPT ![w] = a], UNCHANGED <<run, attempt>>
      PROVE  AttemptInv'
  BY <1>3, <1>1
<1>4. ASSUME NEW w \in Worker, NEW a \in PC \ Working,
             pc' = [pc EXCEPT ![w] = a], EndRun(w)
      PROVE  AttemptInv'
  BY <1>4, <1>1 DEF EndRun
<1>5. ASSUME NEW w \in Worker, NEW r \in Run, Claim(w, r) PROVE AttemptInv'
  <2>1. /\ status' = [status EXCEPT ![r] = "running"]
        /\ worker' = [worker EXCEPT ![r] = w]
        /\ attempts' = [attempts EXCEPT ![r] = @ + 1]
        /\ run' = [run EXCEPT ![w] = r]
        /\ attempt' = [attempt EXCEPT ![w] = attempts[r] + 1]
        /\ pc' = [pc EXCEPT ![w] = "run"]
        /\ run[w] \notin Run
    BY <1>5 DEF Claim, Claimed
  <2>2. \A u \in Worker \ {w} : run'[u] = run[u] /\ attempt'[u] = attempt[u] /\ pc'[u] = pc[u]
    BY <2>1
  <2>3. \A u \in Worker \ {w} : run[u] = r => attempt[u] <= attempts[r]
    OBVIOUS
  <2>4. run'[w] = r /\ attempt'[w] = attempts[r] + 1 /\ pc'[w] = "run"
        /\ attempts'[r] = attempts[r] + 1 /\ status'[r] = "running" /\ worker'[r] = w
    BY <2>1
  <2>5. \A q \in Run \ {r} : attempts'[q] = attempts[q] /\ status'[q] = status[q]
                             /\ worker'[q] = worker[q]
    BY <2>1
  <2>6. \A u \in Worker : run'[u] \in Run <=> pc'[u] \in Working
    BY <2>2, <2>4
  <2>7. ASSUME NEW u \in Worker, NEW q \in Run, run'[u] = q
        PROVE  /\ status'[q] # "absent"
               /\ attempt'[u] <= attempts'[q]
               /\ status'[q] = "running" /\ worker'[q] = u
                    => attempt'[u] = attempts'[q]
    <3>1. CASE u = w
      BY <2>4, <2>7, <3>1
    <3>2. CASE u # w /\ q = r
      BY <2>2, <2>3, <2>4, <2>7, <3>2
    <3>3. CASE u # w /\ q # r
      BY <2>2, <2>5, <2>7, <3>3
    <3> QED
      BY <3>1, <3>2, <3>3
  <2>8. ASSUME NEW u \in Worker, NEW v \in Worker \ {u}, NEW q \in Run,
               run'[u] = q, run'[v] = q
        PROVE  attempt'[v] # attempt'[u]
    <3>1. CASE u = w \/ v = w
      BY <2>2, <2>3, <2>4, <2>8, <3>1
    <3>2. CASE u # w /\ v # w
      BY <2>2, <2>8, <3>2
    <3> QED
      BY <3>1, <3>2
  <2> QED
    BY <2>6, <2>7, <2>8
<1> HIDE <1>0, <1>00 DEF TypeOK, AttemptInv, Owns
<1>6. ASSUME NEW w \in Worker, WorkerStep(w) PROVE AttemptInv'
  <2>1. CASE Start(w) \/ LoopExit(w) \/ SweepRequeue(w) \/ SweepFind(w)
    BY <2>1, <1>3 DEF Start, LoopExit, SweepRequeue, SweepFind, PC
  <2>2. CASE SweepFail(w) \/ SweepExtend(w) \/ ClaimNone(w)
    BY <2>2, <1>3 DEF SweepFail, SweepExtend, EndSweep, ClaimNone, PC
  <2>3. CASE Heartbeat(w)
    BY <2>3, <1>2 DEF Heartbeat
  <2>4. ASSUME NEW x \in Result, BodyReturns(w, x) PROVE AttemptInv'
    BY <2>4, <1>3 DEF BodyReturns, PC
  <2>5. CASE Release(w) \/ ExtendRetention(w)
    BY <2>5, <1>4 DEF Release, ExtendRetention, PC
  <2>6. CASE FinishClaimed(w)
    BY <2>6, <1>3, <1>4 DEF FinishClaimed, PC
  <2> QED
    BY <1>5, <1>6, <2>1, <2>2, <2>3, <2>4, <2>5, <2>6 DEF WorkerStep, Sweep, Record
<1>7. ASSUME NEW w \in Worker, Fault(w) PROVE AttemptInv'
  <2>1. CASE SweepError(w) \/ ClaimError(w)
    BY <2>1, <1>3 DEF SweepError, EndSweep, ClaimError, PC
  <2>2. CASE HeartbeatError(w) \/ Signal(w)
    BY <2>2, <1>2 DEF HeartbeatError, Signal
  <2>3. CASE RecordError(w) \/ Crash(w)
    BY <2>3, <1>4 DEF RecordError, Crash, PC
  <2> QED
    BY <1>7, <2>1, <2>2, <2>3 DEF Fault
<1>8. ASSUME NEW c \in Client, Request(c) PROVE AttemptInv'
  BY <1>8, <1>2 DEF Request, SubmitCheck, SubmitInsert, CancelQueued, CancelRunning,
                    CancelRead, RequestError, processes
<1>9. ASSUME NEW r \in Run, LeaseLapse(r) PROVE AttemptInv'
  BY <1>9, <1>2 DEF LeaseLapse, processes
<1>10. CASE UNCHANGED vars
  BY <1>10, <1>2 DEF vars, processes
<1> QED
  BY <1>6, <1>7, <1>8, <1>9, <1>10 DEF Next

----------------------------------------------------------------------------
(* The theorems.                                                           *)

\* The inductive invariant holds of every reachable state.
THEOREM Invariance == Spec => []IInv
<1>1. Init => IInv
  BY BoundAssumption, NullAssumption
     DEF Init, IInv, TypeOK, RunningIsLeased, NonIdempotentRunsOnce,
         CancelTruthfulUnlessRequeued, Truthful, RequestInv, OnceInv, AttemptInv,
         Owns, Status, Active, Terminal, PC, Phase, Answer, Result
<1>2. IInv /\ [Next]_vars => IInv'
  BY TypeStep, LeaseStep, OnceStep, RequestStep, AttemptStep DEF IInv
<1> QED
  BY <1>1, <1>2, PTL DEF Spec

\* The state of queue, workers and requests is always well typed.
THEOREM TypeCorrect == Spec => []TypeOK
  BY Invariance, PTL DEF IInv

\* A running run always holds a lease, so that the sweep can find it.
THEOREM LeaseCorrect == Spec => []RunningIsLeased
  BY Invariance, PTL DEF IInv

\* However workers crash, stall, are deployed over or lose replies, a run whose
\* task type is not declared idempotent is started at most once.
THEOREM AtMostOnce == Spec => []NonIdempotentRunsOnce
  BY Invariance, PTL DEF IInv

\* For a run that is not retried, what the cancel endpoint answers is true.
THEOREM CancelTruth == Spec => []CancelTruthfulUnlessRequeued
  BY Invariance, PTL DEF IInv

\* Of the workers at work on a run at most one owns it, and the others are on
\* earlier attempts.
THEOREM OwnerUnique == Spec => []OwnerOutranksStale
<1>1. IInv => OwnerOutranksStale
  <2> SUFFICES ASSUME IInv, NEW v \in Worker, NEW w \in Worker, NEW r \in Run,
                      Owns(v, r), run[v] = r, run[w] = r, v # w
               PROVE  ~Owns(w, r) /\ attempt[w] < attempt[v]
    BY DEF OwnerOutranksStale
  <2>1. ~Owns(w, r)
    BY DEF Owns
  <2>2. /\ attempt[w] <= attempts[r]
        /\ attempt[v] = attempts[r]
        /\ attempt[w] # attempt[v]
    BY DEF IInv, AttemptInv
  <2>3. attempt[v] \in Nat /\ attempt[w] \in Nat
    BY DEF IInv, TypeOK
  <2> QED
    BY <2>1, <2>2, <2>3
<1> QED
  BY <1>1, Invariance, PTL

\* The queue implements the life cycle of a document.
THEOREM ImplementsLifecycle == Spec => LifecycleSpec
<1>1. Init => Lifecycle!Init
  BY DEF Init, Lifecycle!Init
<1>2. IInv /\ [Next]_vars => [Lifecycle!Next]_(Lifecycle!lifecycle)
  <2> SUFFICES ASSUME IInv, [Next]_vars
               PROVE  Lifecycle!Next \/ UNCHANGED <<status, attempts>>
    BY DEF Lifecycle!lifecycle
  <2>0. TypeOK /\ RequestInv /\ TaskEffect
    BY StepEffect DEF IInv
  <2> USE <2>0 DEF TypeOK
  <2>1. CASE UNCHANGED <<status, worker, lease, attempts>>
    BY <2>1
  <2>2. ASSUME NEW c \in Client, phase[c] = "insert", Inserted(subject[c])
        PROVE  Lifecycle!Next
    BY <2>2 DEF Inserted, RequestInv, Lifecycle!Next, Lifecycle!Submit
  <2>3. ASSUME NEW r \in Run, CanceledOutright(r) PROVE Lifecycle!Next
    BY <2>3 DEF CanceledOutright, Lifecycle!Next, Lifecycle!Cancel
  <2>4. ASSUME NEW S \in SUBSET Idempotent, Swept(S, "queued") PROVE Lifecycle!Next
    <3>1. Lifecycle!Move(S, "queued")
      BY <2>4 DEF Swept, Disown, Lifecycle!Move
    <3> QED
      BY <3>1 DEF Lifecycle!Next
  <2>5. ASSUME NEW S \in SUBSET (Run \ Idempotent), Swept(S, "failed")
        PROVE  Lifecycle!Next
    <3>1. Lifecycle!Move(S, "failed")
      BY <2>5 DEF Swept, Disown, Lifecycle!Move
    <3> QED
      BY <3>1 DEF Lifecycle!Next
  <2>6. ASSUME NEW w \in Worker, NEW r \in Run, Taken(w, r) PROVE Lifecycle!Next
    BY <2>6 DEF Taken, Claimed, Lifecycle!Next, Lifecycle!Claim
  <2>7. ASSUME NEW w \in Worker, NEW r \in Run, Ended(w, r) PROVE Lifecycle!Next
    <3>1. Outcome(w) \in Lifecycle!Ended
      BY OutcomeType DEF Terminal, Lifecycle!Ended
    <3>2. Lifecycle!Finish(r)
      BY <2>7, <3>1 DEF Ended, Owns, Lifecycle!Finish
    <3> QED
      BY <3>2 DEF Lifecycle!Next
  <2>8. ASSUME NEW r \in Run, NEW l \in {"live", "lapsed"}, Leased(r, l)
        PROVE  UNCHANGED <<status, attempts>>
    BY <2>8 DEF Leased
  <2> QED
    BY <2>1, <2>2, <2>3, <2>4, <2>5, <2>6, <2>7, <2>8 DEF TaskEffect, WorkerEffect
<1> QED
  BY <1>1, <1>2, Invariance, PTL DEF Spec, LifecycleSpec, Lifecycle!Spec

\* An outcome is decided by the owner's latest attempt, by the sweep of a
\* lapsed lease, or by a cancel of a queued run.
THEOREM OutcomeCurrent == Spec => OutcomeIsCurrent
<1> DEFINE Current ==
      \A r \in Run :
         (status[r] \in Active /\ status'[r] \in Terminal)
         => \/ status[r] = "queued" /\ status'[r] = "canceled"
            \/ Expired(r) /\ r \notin Idempotent /\ status'[r] = "failed"
            \/ \E w \in Worker : /\ Owns(w, r)
                                 /\ run[w] = r
                                 /\ attempt[w] = attempts[r]
                                 /\ status'[r] = Outcome(w)
<1>1. IInv /\ [Next]_vars => Current
  <2> SUFFICES ASSUME IInv, [Next]_vars, NEW r \in Run,
                      status[r] \in Active, status'[r] \in Terminal
               PROVE  \/ status[r] = "queued" /\ status'[r] = "canceled"
                      \/ Expired(r) /\ r \notin Idempotent /\ status'[r] = "failed"
                      \/ \E w \in Worker : /\ Owns(w, r)
                                           /\ run[w] = r
                                           /\ attempt[w] = attempts[r]
                                           /\ status'[r] = Outcome(w)
    OBVIOUS
  <2>0. TypeOK /\ RequestInv /\ AttemptInv /\ TaskEffect
    BY StepEffect DEF IInv
  <2> USE <2>0 DEF TypeOK, Active, Terminal
  <2>1. ASSUME NEW c \in Client, phase[c] = "insert", Inserted(subject[c]) PROVE FALSE
    BY <2>1 DEF Inserted, RequestInv
  <2>2. ASSUME NEW q \in Run, CanceledOutright(q)
        PROVE  status[r] = "queued" /\ status'[r] = "canceled"
    BY <2>2 DEF CanceledOutright
  <2>3. ASSUME NEW S \in SUBSET Idempotent, Swept(S, "queued") PROVE FALSE
    BY <2>3 DEF Swept, Disown
  <2>4. ASSUME NEW S \in SUBSET (Run \ Idempotent), Swept(S, "failed"),
               \A q \in S : Expired(q)
        PROVE  Expired(r) /\ r \notin Idempotent /\ status'[r] = "failed"
    BY <2>4 DEF Swept, Disown
  <2>5. ASSUME NEW w \in Worker, NEW q \in Run, Taken(w, q) PROVE FALSE
    BY <2>5 DEF Taken, Claimed
  <2>6. ASSUME NEW w \in Worker, NEW q \in Run, Ended(w, q)
        PROVE  /\ Owns(w, r)
               /\ run[w] = r
               /\ attempt[w] = attempts[r]
               /\ status'[r] = Outcome(w)
    BY <2>6 DEF Ended, AttemptInv
  <2>7. ASSUME NEW q \in Run, NEW l \in {"live", "lapsed"}, Leased(q, l) PROVE FALSE
    BY <2>7 DEF Leased
  <2>8. CASE UNCHANGED <<status, worker, lease, attempts>>
    BY <2>8
  <2> QED
    BY <2>1, <2>2, <2>3, <2>4, <2>5, <2>6, <2>7, <2>8 DEF TaskEffect, WorkerEffect
<1> QED
  BY <1>1, Invariance, PTL DEF Spec, OutcomeIsCurrent
============================================================================
