--------------------------- MODULE KafkaConsumer ---------------------------
(***************************************************************************)
(* The threads of one kafka_consumer process (src/src/kafka/base.rs:       *)
(* consume, consumer and what they call): which topics a thread subscribes *)
(* to as the days pass, where it starts to read a partition it has been    *)
(* given, what it commits, and when it pauses because the input list is    *)
(* full.                                                                   *)
(*                                                                         *)
(* Every night has a topic of its own, named by its date.  A message is    *)
(* the day it was produced on, and a partition is the sequence of its      *)
(* messages; offsets count from 1.  The broker, librdkafka's assignment    *)
(* and auto-commit, and the workers that drain the list are external.      *)
(***************************************************************************)
EXTENDS Integers, Sequences, FiniteSets

CONSTANTS
    Consumer,           \* the threads
    Partition,
    TopicDay,           \* TopicDay[p]: the date in the name of p's topic
    None,
    FirstDay, LastDay,  \* bound: the days that pass
    StartDay,           \* the date of --from and --on
    Window,             \* subscription_window_days
    MaxInQueue,
    CheckEvery,         \* messages between two looks at the list (1000)
    MaxLog,             \* bound: MaxLog[p] messages of a partition
    MaxFaults           \* bound: errors, dead threads and killed processes

ASSUME ConsumerAssumption ==
    /\ IsFiniteSet(Consumer) /\ None \notin Consumer
    /\ TopicDay \in [Partition -> Nat]
    /\ FirstDay \in Nat /\ LastDay \in Nat /\ StartDay \in Nat /\ StartDay <= FirstDay
    /\ Window \in Nat
    /\ MaxInQueue \in Nat \ {0} /\ CheckEvery \in Nat \ {0}
    /\ MaxLog \in [Partition -> Nat] /\ MaxFaults \in Nat

VARIABLES
    start,              \* StartDate: "current", "from" or "pinned"
    exitOnEof,
    windowDays,         \* of the StartPlan the process made
    day, log,
    owner,              \* the thread a partition is assigned to
    committed,          \* committed offset of the group, 0 for none
    pos,                \* the offset its owner reads next
    stored,             \* the offset its owner has stored, 0 for none
    held,               \* partitions that are paused
    dirty,              \* the group has a rebalance to do
    queue, pushed,      \* length of the input list, and what was pushed to it
    pc,
    subscribedDate, positionTimestamp, positioned,
    fresh, toResolve,   \* the position pass a thread is in the middle of: its
    resolved,           \* partitions, those without a committed offset, offsets
    total,              \* messages pushed, modulo CheckEvery
    faults,
    late,               \* messages that came in between the two questions a
                        \* position pass asks about their partition
    overtaken           \* was a thread given partitions while it paused

plan == <<start, exitOnEof, windowDays>>
broker == <<day, log>>
group == <<owner, committed, stored, dirty>>
thread == <<pc, subscribedDate, positionTimestamp, positioned, fresh, toResolve,
            resolved, total>>
list == <<queue, pushed>>
history == <<late, overtaken>>
vars == <<plan, broker, group, pos, held, thread, list, faults, history>>

End == 0                \* offsets_for_times found nothing
Replay == start = "pinned"
Alive(c) == pc[c] \notin {"off", "dead", "done"}
Owned(c) == {p \in Partition : owner[p] = c}
Exists(p) == TopicDay[p] <= day
Larger(a, b) == IF a < b THEN b ELSE a

\* subscription_topics: the nights of the window; topic_names on a replay.
Subscribes(c, p) ==
    /\ Alive(c) /\ Exists(p)
    /\ TopicDay[p] <= subscribedDate[c]
    /\ TopicDay[p] >= subscribedDate[c] - (IF Replay THEN 0 ELSE windowDays)

Init ==
    /\ start \in {"current", "from", "pinned"}
    /\ exitOnEof \in {FALSE, Replay}
    /\ windowDays = Window
    /\ day = FirstDay
    /\ log = [p \in Partition |-> <<>>]
    /\ owner = [p \in Partition |-> None]
    /\ committed = [p \in Partition |-> 0]
    /\ pos = [p \in Partition |-> 1]
    /\ stored = [p \in Partition |-> 0]
    /\ held = {}
    /\ dirty = FALSE
    /\ queue = 0 /\ pushed = {}
    /\ pc = [c \in Consumer |-> "off"]
    /\ subscribedDate = [c \in Consumer |-> FirstDay]
    /\ positionTimestamp = [c \in Consumer |-> StartDay]
    /\ positioned = [c \in Consumer |-> {}]
    /\ fresh = [c \in Consumer |-> {}]
    /\ toResolve = [c \in Consumer |-> {}]
    /\ resolved = [c \in Consumer |-> [p \in Partition |-> End]]
    /\ total = [c \in Consumer |-> 0]
    /\ faults = 0
    /\ late = {} /\ overtaken = FALSE

----------------------------------------------------------------------------
\* External: the survey, the clock, the broker, the alert workers.

Produce(p) ==
    /\ Exists(p)
    /\ Len(log[p]) < MaxLog[p]
    /\ log' = [log EXCEPT ![p] = Append(@, day)]
    /\ late' = IF \E c \in Consumer : p \in fresh[c] /\ resolved[c][p] = End
               THEN late \cup {<<p, Len(log[p]) + 1>>} ELSE late
    /\ UNCHANGED <<plan, day, group, pos, held, thread, list, faults, overtaken>>

\* A new date, on which a new topic may appear.
Midnight ==
    /\ day < LastDay
    /\ day' = day + 1
    /\ dirty' = TRUE
    /\ UNCHANGED <<plan, log, owner, committed, stored, pos, held, thread, list,
                   faults, history>>

\* Eager assignment: everything is revoked, what was stored is committed, and the
\* topics are dealt out among the threads that subscribe to them.  A partition
\* is read from the committed offset, or from the earliest.  A position pass that
\* it interrupts fails.
Rebalance ==
    /\ dirty
    /\ dirty' = FALSE
    /\ \E o \in [Partition -> Consumer \cup {None}] :
         /\ \A p \in Partition :
              IF \E c \in Consumer : Subscribes(c, p)
              THEN o[p] # None /\ Subscribes(o[p], p)
              ELSE o[p] = None
         /\ owner' = o
    /\ committed' = [p \in Partition |-> IF Replay THEN 0 ELSE Larger(committed[p], stored[p])]
    /\ stored' = [p \in Partition |-> 0]
    /\ pos' = [p \in Partition |-> Larger(1, committed'[p])]
    /\ held' = {}
    /\ fresh' = [c \in Consumer |-> {}]
    /\ toResolve' = [c \in Consumer |-> {}]
    /\ resolved' = [c \in Consumer |-> [p \in Partition |-> End]]
    /\ pc' = [c \in Consumer |-> CASE pc[c] \in {"first pass", "wait pass"} -> "initial"
                                   [] pc[c] = "loop pass" -> "loop"
                                   [] OTHER -> pc[c]]
    /\ overtaken' = (overtaken \/ \E c \in Consumer : pc[c] = "paused")
    /\ UNCHANGED <<plan, broker, subscribedDate, positionTimestamp, positioned, total,
                   list, faults, late>>

AutoCommit(p) ==
    /\ owner[p] # None /\ Alive(owner[p])
    /\ stored[p] > committed[p]
    /\ committed' = [committed EXCEPT ![p] = stored[p]]
    /\ UNCHANGED <<plan, broker, owner, stored, dirty, pos, held, thread, list,
                   faults, history>>

Drain ==
    /\ queue > 0
    /\ queue' = queue - 1
    /\ UNCHANGED <<plan, broker, group, pos, held, thread, pushed, faults, history>>

----------------------------------------------------------------------------
\* consume: the plan of the start date, made once for all threads.
Boot ==
    /\ \A c \in Consumer : ~Alive(c)
    /\ \E c \in Consumer : pc[c] # "done"
    /\ windowDays' = IF start = "from" THEN Larger(Window, day - StartDay) ELSE Window
    /\ subscribedDate' = [c \in Consumer |-> IF Replay THEN StartDay ELSE day]
    /\ positionTimestamp' = [c \in Consumer |-> IF start = "current" THEN day ELSE StartDay]
    /\ pc' = [c \in Consumer |-> "initial"]
    /\ positioned' = [c \in Consumer |-> {}]
    /\ total' = [c \in Consumer |-> 0]
    /\ dirty' = TRUE
    /\ UNCHANGED <<start, exitOnEof, broker, owner, committed, stored, pos, held, fresh,
                   toResolve, resolved, list, faults, history>>

\* A replay that finds none of its topics with a message, and may exit, does.
NothingToReplay(c) ==
    /\ pc[c] = "initial" /\ Replay /\ exitOnEof
    /\ \A p \in Partition : Subscribes(c, p) => log[p] = <<>>
    /\ pc' = [pc EXCEPT ![c] = "done"]
    /\ dirty' = TRUE
    /\ UNCHANGED <<plan, broker, owner, committed, stored, pos, held, subscribedDate,
                   positionTimestamp, positioned, fresh, toResolve, resolved, total, list, faults, history>>

\* reposition_new_partitions and the first half of position_partitions: the
\* committed offsets, and offsets_for_times of the others.
FirstAtOrAfter(p, t) ==
    LET at == {k \in DOMAIN log[p] : log[p][k] >= t}
    IN  IF at = {} THEN End ELSE CHOOSE k \in at : \A j \in at : k <= j

After(pass) == IF pass = "wait pass" THEN "initial" ELSE "loop"
Retry(pass) == IF pass = "loop pass" THEN "loop" ELSE "initial"

BeginPass(c, pass, t) ==
    LET f == Owned(c) \ positioned[c]
    IN  IF f = {}
        THEN /\ pc' = [pc EXCEPT ![c] = After(pass)]
             /\ UNCHANGED <<fresh, toResolve, resolved>>
        ELSE /\ pc' = [pc EXCEPT ![c] = pass]
             /\ fresh' = [fresh EXCEPT ![c] = f]
             /\ toResolve' = [toResolve EXCEPT ![c] = {p \in f : committed[p] = 0}]
             /\ resolved' = [resolved EXCEPT ![c] = [p \in Partition |->
                  IF p \notin f THEN End
                  ELSE IF committed[p] # 0 THEN committed[p] ELSE FirstAtOrAfter(p, t)]]

\* A bug: everything is skipped to its end.
TargetEnd(c, p) == Len(log[p]) + 1

\* Where a fresh partition is sought to: the end, as fetch_watermarks reports it
\* now, when nothing was found.
Target(c, p) == IF resolved[c][p] = End THEN Len(log[p]) + 1 ELSE resolved[c][p]

\* The second half: seek, and commit what came from the timestamp.
Position(c) ==
    /\ fresh[c] # {}
    /\ pos' = [p \in Partition |-> IF p \in fresh[c] THEN Target(c, p) ELSE pos[p]]
    /\ committed' = [p \in Partition |->
         IF p \in toResolve[c] THEN Target(c, p) ELSE committed[p]]
    /\ positioned' = [positioned EXCEPT ![c] = @ \cup fresh[c]]
    /\ fresh' = [fresh EXCEPT ![c] = {}]
    /\ toResolve' = [toResolve EXCEPT ![c] = {}]
    /\ resolved' = [resolved EXCEPT ![c] = [p \in Partition |-> End]]
    /\ pc' = [pc EXCEPT ![c] = After(@)]
    /\ UNCHANGED <<plan, broker, owner, stored, dirty, held, subscribedDate,
                   positionTimestamp, total, list, faults, history>>

\* position_or_warn: an error of Kafka leaves it to the next pass.
PositionFails(c) ==
    /\ fresh[c] # {}
    /\ faults < MaxFaults
    /\ faults' = faults + 1
    /\ fresh' = [fresh EXCEPT ![c] = {}]
    /\ toResolve' = [toResolve EXCEPT ![c] = {}]
    /\ resolved' = [resolved EXCEPT ![c] = [p \in Partition |-> End]]
    /\ pc' = [pc EXCEPT ![c] = Retry(@)]
    /\ UNCHANGED <<plan, broker, group, pos, held, subscribedDate, positionTimestamp,
                   positioned, total, list, history>>

\* Every 30 seconds, in both loops: roll_subscription_if_needed, then a pass.
Roll(c) ==
    LET rolls == subscribedDate[c] # day
        t == IF rolls /\ start = "current" THEN day ELSE positionTimestamp[c]
    IN  /\ subscribedDate' = [subscribedDate EXCEPT ![c] = day]
        /\ positionTimestamp' = [positionTimestamp EXCEPT ![c] = t]
        /\ dirty' = (dirty \/ rolls)
        /\ BeginPass(c, IF pc[c] = "initial" THEN "wait pass" ELSE "loop pass", t)

\* A bug: the date is watched only once messages flow.
RolloverCheckInLoop(c) ==
    /\ pc[c] = "loop" /\ ~Replay
    /\ Roll(c)
    /\ UNCHANGED <<plan, broker, owner, committed, stored, pos, held, positioned, total,
                   list, faults, history>>

RolloverCheck(c) ==
    /\ pc[c] \in {"initial", "loop"} /\ ~Replay
    /\ Roll(c)
    /\ UNCHANGED <<plan, broker, owner, committed, stored, pos, held, positioned, total,
                   list, faults, history>>

----------------------------------------------------------------------------
\* The initial loop: the first message only shows that there is an assignment.

\* A bug: the message is not sought back to.
FirstMessageLost(c, p) ==
    /\ pc[c] = "initial" /\ ~Replay
    /\ owner[p] = c /\ pos[p] <= Len(log[p])
    /\ pos' = [pos EXCEPT ![p] = @ + 1]
    /\ BeginPass(c, "first pass", positionTimestamp[c])
    /\ UNCHANGED <<plan, broker, group, held, subscribedDate, positionTimestamp, positioned,
                   total, list, faults, history>>

FirstMessage(c, p) ==
    /\ pc[c] = "initial" /\ ~Replay
    /\ owner[p] = c /\ pos[p] <= Len(log[p])
    /\ pos' = IF p \in positioned[c] THEN pos ELSE [pos EXCEPT ![p] = @ + 1]
    /\ BeginPass(c, "first pass", positionTimestamp[c])
    /\ UNCHANGED <<plan, broker, group, held, subscribedDate, positionTimestamp, positioned,
                   total, list, faults, history>>

\* seek_to_timestamp of all that is assigned.
FirstMessageOfReplay(c, p) ==
    /\ pc[c] = "initial" /\ Replay
    /\ owner[p] = c /\ pos[p] <= Len(log[p])
    /\ pos' = [q \in Partition |->
         IF owner[q] # c THEN pos[q]
         ELSE LET k == FirstAtOrAfter(q, StartDay)
              IN  IF k = End THEN Len(log[q]) + 1 ELSE k]
    /\ pc' = [pc EXCEPT ![c] = "loop"]
    /\ UNCHANGED <<plan, broker, group, held, subscribedDate, positionTimestamp, positioned,
                   fresh, toResolve, resolved, total, list, faults, history>>

\* The loop: a look at the list every CheckEvery messages, then a poll.

\* A bug: the limit is reported and not heeded.
CheckQueueIgnored(c) ==
    /\ pc[c] = "loop" /\ total[c] = 0
    /\ pc' = [pc EXCEPT ![c] = "poll"]
    /\ UNCHANGED <<plan, broker, group, pos, held, subscribedDate, positionTimestamp,
                   positioned, fresh, toResolve, resolved, total, list, faults, history>>

CheckQueue(c) ==
    /\ pc[c] = "loop" /\ total[c] = 0
    /\ IF queue < MaxInQueue
       THEN pc' = [pc EXCEPT ![c] = "poll"] /\ UNCHANGED held
       ELSE pc' = [pc EXCEPT ![c] = "paused"] /\ held' = held \cup Owned(c)
    /\ UNCHANGED <<plan, broker, group, pos, subscribedDate, positionTimestamp, positioned,
                   fresh, toResolve, resolved, total, list, faults, history>>

Resume(c) ==
    /\ pc[c] = "paused"
    /\ queue < MaxInQueue
    /\ pc' = [pc EXCEPT ![c] = "poll"]
    /\ held' = held \ Owned(c)
    /\ UNCHANGED <<plan, broker, group, pos, subscribedDate, positionTimestamp, positioned,
                   fresh, toResolve, resolved, total, list, faults, history>>

AtPoll(c) == pc[c] = "poll" \/ (pc[c] = "loop" /\ total[c] # 0)

\* push_to_queue, store_offset_from_message unless it is a replay.
Forward(c, p) ==
    /\ owner[p] = c /\ p \notin held
    /\ pos[p] <= Len(log[p])
    /\ queue' = queue + 1
    /\ pushed' = pushed \cup {<<p, pos[p]>>}
    /\ pos' = [pos EXCEPT ![p] = @ + 1]
    /\ stored' = IF Replay THEN stored ELSE [stored EXCEPT ![p] = pos[p] + 1]
    /\ total' = [total EXCEPT ![c] = (@ + 1) % CheckEvery]
    /\ UNCHANGED <<plan, broker, owner, committed, dirty, held, subscribedDate,
                   positionTimestamp, positioned, fresh, toResolve, resolved, faults,
                   history>>

Consume(c, p) ==
    /\ AtPoll(c)
    /\ Forward(c, p)
    /\ pc' = [pc EXCEPT ![c] = "loop"]

\* While it is paused a thread still polls, and forwards what it is given.
ForwardWhilePaused(c, p) ==
    /\ pc[c] = "paused"
    /\ Forward(c, p)
    /\ UNCHANGED pc

Idle(c) == \A p \in Owned(c) : p \in held \/ pos[p] > Len(log[p])

\* Nothing came: a replay may end here, any other thread takes a position pass.
PollNothing(c) ==
    /\ AtPoll(c) /\ Idle(c)
    /\ IF exitOnEof
       THEN /\ pc' = [pc EXCEPT ![c] = "done"]
            /\ dirty' = TRUE
            /\ UNCHANGED <<fresh, toResolve, resolved>>
       ELSE /\ UNCHANGED dirty
            /\ IF Replay THEN pc' = [pc EXCEPT ![c] = "loop"] /\ UNCHANGED <<fresh, toResolve, resolved>>
                         ELSE BeginPass(c, "loop pass", positionTimestamp[c])
    /\ UNCHANGED <<plan, broker, owner, committed, stored, pos, held, subscribedDate,
                   positionTimestamp, positioned, total, list, faults, history>>

----------------------------------------------------------------------------
\* The thread returns an error of Valkey or Kafka; nobody starts it again.
ThreadFails(c) ==
    /\ Alive(c) /\ faults < MaxFaults
    /\ faults' = faults + 1
    /\ pc' = [pc EXCEPT ![c] = "dead"]
    /\ positioned' = [positioned EXCEPT ![c] = {}]
    /\ total' = [total EXCEPT ![c] = 0]
    /\ fresh' = [fresh EXCEPT ![c] = {}]
    /\ toResolve' = [toResolve EXCEPT ![c] = {}]
    /\ resolved' = [resolved EXCEPT ![c] = [p \in Partition |-> End]]
    /\ dirty' = TRUE
    /\ UNCHANGED <<plan, broker, owner, committed, stored, pos, held, subscribedDate,
                   positionTimestamp, list, history>>

\* The process is killed; what was stored and not committed is gone.
Crash ==
    /\ \E c \in Consumer : Alive(c)
    /\ faults < MaxFaults
    /\ faults' = faults + 1
    /\ pc' = [c \in Consumer |-> "off"]
    /\ positioned' = [c \in Consumer |-> {}]
    /\ total' = [c \in Consumer |-> 0]
    /\ fresh' = [c \in Consumer |-> {}]
    /\ toResolve' = [c \in Consumer |-> {}]
    /\ resolved' = [c \in Consumer |-> [p \in Partition |-> End]]
    /\ owner' = [p \in Partition |-> None]
    /\ stored' = [p \in Partition |-> 0]
    /\ held' = {}
    /\ UNCHANGED <<plan, broker, committed, dirty, pos, subscribedDate, positionTimestamp,
                   list, history>>

Thread(c) ==
    \/ NothingToReplay(c) \/ Position(c) \/ RolloverCheck(c)
    \/ CheckQueue(c) \/ Resume(c) \/ PollNothing(c)
    \/ \E p \in Partition : \/ FirstMessage(c, p) \/ FirstMessageOfReplay(c, p)
                            \/ Consume(c, p) \/ ForwardWhilePaused(c, p)

Next ==
    \/ Midnight \/ Rebalance \/ Drain \/ Boot \/ Crash
    \/ \E p \in Partition : Produce(p) \/ AutoCommit(p)
    \/ \E c \in Consumer : Thread(c) \/ PositionFails(c) \/ ThreadFails(c)

Spec == Init /\ [][Next]_vars

\* The threads are scheduled, the group rebalances, the workers drain the list and
\* the process is started again.  A thread that goes round its loop for 30 seconds
\* looks at the date before anything else: strong fairness.
Fairness ==
    /\ \A c \in Consumer : WF_vars(Thread(c)) /\ SF_vars(RolloverCheck(c))
    /\ WF_vars(Rebalance) /\ WF_vars(Drain) /\ WF_vars(Boot)

FairSpec == Spec /\ Fairness

----------------------------------------------------------------------------

\* Wanted by every thread that has run: at or after the instant each positions to.
Wanted(p, k) == \A c \in Consumer : log[p][k] >= positionTimestamp[c]

\* The group never commits past a message that was not pushed, but for those
\* older than the instant its partition was positioned to ("A partition holding
\* nothing at or after this is skipped to its end") and for those that came while
\* that end was being looked up.
NothingSkipped ==
    \A p \in Partition : \A k \in DOMAIN log[p] :
        k < committed[p] /\ Wanted(p, k) => <<p, k>> \in pushed \cup late

\* max_in_queue: the list outgrows its limit by what every thread may push
\* between two looks at it, unless partitions are dealt out during a pause.
QueueBounded ==
    overtaken \/ queue <= MaxInQueue - 1 + CheckEvery * Cardinality(Consumer)

\* "A consumer started between nights never receives a first message, so it
\* never leaves the initial-assignment loop": it rolls over all the same.
FollowsClock ==
    <>[](Replay \/ \A c \in Consumer : Alive(c) => subscribedDate[c] = day)

\* Every wanted message of a topic in the window comes to the list in the end.
EveryNightConsumed ==
    <>[](\A p \in Partition : \A k \in DOMAIN log[p] :
           /\ Wanted(p, k) /\ \E c \in Consumer : Subscribes(c, p)
           => <<p, k>> \in pushed \cup late)
============================================================================
