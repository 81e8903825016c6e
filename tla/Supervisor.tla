----------------------------- MODULE Supervisor -----------------------------
(***************************************************************************)
(* The supervision of a pool of worker threads                             *)
(* (src/src/scheduler/base.rs, ThreadPool): dead workers are respawned     *)
(* with a backoff that doubles, within a budget of restarts per sliding    *)
(* window, and the pool is terminated and joined when it is dropped.       *)
(*                                                                         *)
(* Instants are kept as distances from now: how long ago a restart was,    *)
(* and how long it is until a slot is eligible again.  The state space is  *)
(* then finite without a bound on the clock.                               *)
(***************************************************************************)
EXTENDS Integers, Sequences, FiniteSets

CONSTANTS
    Slot,                       \* the worker slots of the pool
    MAX_RESTARTS_PER_WINDOW,
    RESTART_WINDOW,
    RESTART_BACKOFF_BASE,
    RESTART_BACKOFF_MAX,
    MaxGap                      \* the longest time between two supervision ticks

ASSUME ConstantsAssumption ==
    /\ IsFiniteSet(Slot)
    /\ MAX_RESTARTS_PER_WINDOW \in Nat
    /\ RESTART_WINDOW \in Nat
    /\ RESTART_BACKOFF_BASE \in Nat \ {0}
    /\ RESTART_BACKOFF_MAX \in Nat \ {0}
    /\ MaxGap \in Nat \ {0}

VARIABLES
    alive,          \* the thread of the slot is running
    history,        \* RestartState.history: the ages of the restarts, oldest first
    wait,           \* RestartState.next_eligible: the time left until then
    given_up,       \* RestartState.given_up
    since,          \* time since the last tick
    phase,          \* of the pool: supervised, being terminated, dropped
    sent,           \* TERM is in the channel of the slot's thread
    respawns        \* every restart not older than RESTART_WINDOW, by its age

restart_states == <<history, wait, given_up>>
poolVars == <<alive, restart_states, since, phase, sent, respawns>>

\* ThreadPool::new: every slot gets a worker and a fresh RestartState.
PoolInit ==
    /\ alive = [s \in Slot |-> TRUE]
    /\ history = [s \in Slot |-> <<>>]
    /\ wait = [s \in Slot |-> 0]
    /\ given_up = [s \in Slot |-> FALSE]
    /\ since = 0
    /\ phase = "running"
    /\ sent = [s \in Slot |-> FALSE]
    /\ respawns = [s \in Slot |-> <<>>]

Least(a, b) == IF a < b THEN a ELSE b

restart_backoff(prior_restarts) ==
    LET doubled == <<1, 2, 4, 8, 16, 32>>
        shift == Least(prior_restarts, 5)
    IN  Least(RESTART_BACKOFF_BASE * doubled[shift + 1], RESTART_BACKOFF_MAX)

\* A bug: a restart is forgotten when it is as old as the window.
AgedEarly(age) == age >= RESTART_WINDOW

Aged(age) == age > RESTART_WINDOW

\* What is left when the front has been popped up to the first index in kept.
FromFirst(kept, ages) ==
    IF kept = {} THEN <<>>
                 ELSE SubSeq(ages, CHOOSE i \in kept : \A j \in kept : i <= j, Len(ages))

\* The history after the loop that pops aged restarts off its front.
Recent(ages) == FromFirst({i \in 1..Len(ages) : ~ Aged(ages[i])}, ages)

\* For the record of the restarts: those that are not older than the window.
WithinWindow(ages) == FromFirst({i \in 1..Len(ages) : ages[i] <= RESTART_WINDOW}, ages)

\* A second later every restart is a second older.
Older(ages) == [i \in 1..Len(ages) |-> ages[i] + 1]

\* One unit of time passes.
Pass ==
    /\ since < MaxGap
    /\ phase = "running"
    /\ since' = since + 1
    /\ history' = [s \in Slot |-> Older(history[s])]
    /\ wait' = [s \in Slot |-> IF wait[s] = 0 THEN 0 ELSE wait[s] - 1]
    /\ respawns' = [s \in Slot |-> WithinWindow(Older(respawns[s]))]
    /\ UNCHANGED <<alive, given_up, phase, sent>>

\* A worker's run function returns an error or panics.
Dies(s) ==
    /\ alive[s]
    /\ alive' = [alive EXCEPT ![s] = FALSE]
    /\ UNCHANGED <<restart_states, since, phase, sent, respawns>>

\* A dead slot that this tick leaves alone.
Left(s) == given_up[s] \/ wait[s] > 0

\* A dead slot that this tick gives up, going by its pruned history.
Exhausted(s) == ~ Left(s) /\ Len(Recent(history[s])) >= MAX_RESTARTS_PER_WINDOW

\* A bug: the loop over the slots ends at the first one that is left dead.
RespawnedBreak(s) ==
    /\ ~ alive[s] /\ ~ Left(s) /\ ~ Exhausted(s)
    /\ \A r \in Slot : alive[r] \/ ~ given_up[r]

\* A dead slot that this tick respawns.
Respawned(s) == ~ alive[s] /\ ~ Left(s) /\ ~ Exhausted(s)

\* supervise, for all the slots.
Supervise ==
    /\ phase = "running"
    /\ since' = 0
    /\ alive' = [s \in Slot |-> alive[s] \/ Respawned(s)]
    /\ history' = [s \in Slot |-> IF Respawned(s)
                                    THEN Append(Recent(history[s]), 0)
                                    ELSE Recent(history[s])]
    /\ wait' = [s \in Slot |-> IF Respawned(s)
                                 THEN restart_backoff(Len(Recent(history[s])))
                                 ELSE wait[s]]
    /\ given_up' = [s \in Slot |->
         IF alive[s] THEN given_up[s] /\ Recent(history[s]) # <<>>
                     ELSE given_up[s] \/ Exhausted(s)]
    /\ respawns' = [s \in Slot |-> IF Respawned(s) THEN Append(respawns[s], 0)
                                                   ELSE respawns[s]]
    /\ UNCHANGED <<phase, sent>>

\* Drop: TERM is sent to every worker; it fails for a thread that is gone.
DropPool ==
    /\ phase = "running"
    /\ phase' = "terminating"
    /\ sent' = alive
    /\ UNCHANGED <<alive, restart_states, since, respawns>>

\* A worker comes to should_terminate and leaves its loop.
Leave(s) ==
    /\ alive[s] /\ sent[s]
    /\ alive' = [alive EXCEPT ![s] = FALSE]
    /\ UNCHANGED <<restart_states, since, phase, sent, respawns>>

\* Drop: every thread is joined.
Join ==
    /\ phase = "terminating"
    /\ \A s \in Slot : ~ alive[s]
    /\ phase' = "dropped"
    /\ UNCHANGED <<alive, restart_states, since, sent, respawns>>

PoolNext == \/ Pass
            \/ \E s \in Slot : Dies(s) \/ Leave(s)
            \/ Supervise
            \/ DropPool
            \/ Join

PoolSpec == PoolInit /\ [][PoolNext]_poolVars

----------------------------------------------------------------------------
(* Properties.                                                             *)

\* No slot is restarted more often than MAX_RESTARTS_PER_WINDOW within any
\* interval of RESTART_WINDOW, whenever its worker dies and the ticks come.
RestartsBounded == \A s \in Slot : Len(respawns[s]) <= MAX_RESTARTS_PER_WINDOW

\* A dead worker is replaced or its slot is given up, whatever the other slots
\* do, unless the pool is dropped.
DeadIsHandled ==
    \A s \in Slot : ~ alive[s] ~> alive[s] \/ given_up[s] \/ phase # "running"
============================================================================
