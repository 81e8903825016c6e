----------------------------- MODULE FilterLoop -----------------------------
(***************************************************************************)
(* The loop of a filter worker (src/src/filter/base.rs, run_filter_worker, *)
(* with the ZTF worker of src/src/filter/ztf.rs): the refresh of the       *)
(* filters, the check for a command every so many alerts, the batch popped *)
(* from Valkey, and the run of the filters with the permissions they have. *)
(***************************************************************************)
EXTENDS Integers, FiniteSets

CONSTANTS
    Alert,
    Filter,
    Program,                \* programids
    ProgramOf,              \* the programid of an alert
    CommandInterval,        \* command_interval: at least 100 by the configuration
    BatchSize               \* what one RPOP takes: 1000

ASSUME LoopAssumption ==
    /\ IsFiniteSet(Alert)
    /\ ProgramOf \in [Alert -> Program]
    /\ CommandInterval \in Nat \ {0}
    /\ BatchSize \in Nat \ {0}

VARIABLES
    saved,          \* MongoDB: the permissions of the active filters; {} if not active
    filters,        \* the filters the worker has loaded, with their permissions
    by_permission,  \* filters_by_permission: for a programid, the filters allowed it
    due,            \* next_filter_refresh has passed
    countdown,      \* command_check_countdown
    queue,          \* the worker's input list
    batch,          \* what the worker popped
    passed,         \* the alerts that passed, each with the filter
    pc,             \* where the worker is; stopped: by a command, dead: by an error
    term,           \* TERM is in the channel
    taken           \* how many alerts were popped since TERM was sent

vars == <<saved, filters, by_permission, due, countdown, queue, batch, passed, pc,
          term, taken>>

\* A type for every variable.
TypeOK ==
    /\ saved \in [Filter -> SUBSET Program]
    /\ filters \in [Filter -> SUBSET Program]
    /\ by_permission \in [Program -> SUBSET Filter]
    /\ due \in BOOLEAN
    /\ countdown \in 0 .. CommandInterval
    /\ queue \in SUBSET Alert
    /\ batch \in SUBSET Alert
    /\ passed \in SUBSET (Alert \X Filter)
    /\ pc \in {"loop", "command", "pop", "process", "send", "stopped", "dead"}
    /\ term \in BOOLEAN
    /\ taken \in Nat

\* filters_by_permission, for the filters that are loaded.
Index(loaded) == [p \in Program |-> {f \in Filter : p \in loaded[f]}]

\* The worker is created, with the filters that are active then.
Init ==
    /\ saved \in [Filter -> SUBSET Program]
    /\ filters = saved
    /\ by_permission = Index(saved)
    /\ due = FALSE
    /\ countdown = CommandInterval
    /\ queue = {} /\ batch = {} /\ passed = {}
    /\ pc = "loop"
    /\ term = FALSE
    /\ taken = 0

has_filters == \E f \in Filter : filters[f] # {}

----------------------------------------------------------------------------
(* The worker.                                                             *)

\* A bug: the index by permission is not rebuilt with the filters.
RefreshStale ==
    /\ pc = "loop"
    /\ pc' = "command"
    /\ due' = FALSE
    /\ filters' = IF due THEN saved ELSE filters
    /\ UNCHANGED <<saved, by_permission, countdown, queue, batch, passed, term, taken>>

\* A bug: a worker without filters does not come to the refresh.
RefreshOnlyIfAny ==
    /\ pc = "loop"
    /\ pc' = "command"
    /\ due' = FALSE
    /\ filters' = IF due /\ has_filters THEN saved ELSE filters
    /\ by_permission' = IF due /\ has_filters THEN Index(saved) ELSE by_permission
    /\ UNCHANGED <<saved, countdown, queue, batch, passed, term, taken>>

\* The head of the loop: refresh_filters, if it is time.
Refresh ==
    /\ pc = "loop"
    /\ pc' = "command"
    /\ due' = FALSE
    /\ filters' = IF due THEN saved ELSE filters
    /\ by_permission' = IF due THEN Index(saved) ELSE by_permission
    /\ UNCHANGED <<saved, countdown, queue, batch, passed, term, taken>>

\* When the countdown is at zero: should_terminate, and a pause if there is no
\* filter.
CheckCommand ==
    /\ pc = "command"
    /\ \/ /\ countdown > 0
          /\ pc' = "pop"
          /\ UNCHANGED countdown
       \/ /\ countdown = 0 /\ term
          /\ pc' = "stopped"
          /\ UNCHANGED countdown
       \/ /\ countdown = 0 /\ ~ term
          /\ pc' = IF has_filters THEN "pop" ELSE "loop"
          /\ countdown' = CommandInterval
    /\ UNCHANGED <<saved, filters, by_permission, due, queue, batch, passed, term, taken>>

\* A bug: the countdown counts batches.
CountBatches(S) == countdown - 1

\* command_check_countdown after the pop: an empty list calls for a check.
Count(S) == IF S = {} \/ countdown < Cardinality(S) THEN 0 ELSE countdown - Cardinality(S)

\* RPOP of at most BatchSize alerts.
Pop(S) ==
    /\ pc = "pop"
    /\ S \subseteq queue
    /\ Cardinality(S) <= BatchSize
    /\ Cardinality(S) < BatchSize => S = queue
    /\ queue' = queue \ S
    /\ batch' = S
    /\ countdown' = Count(S)
    /\ taken' = IF term THEN taken + Cardinality(S) ELSE taken
    /\ pc' = IF S = {} THEN "loop" ELSE "process"
    /\ UNCHANGED <<saved, filters, by_permission, due, passed, term>>

\* process_alerts: each filter sees the alerts of the programids it has
\* permission for, and some of them pass.
Process(matches) ==
    /\ pc = "process"
    /\ \A m \in matches : /\ m[1] \in batch
                          /\ filters[m[2]] # {}
                          /\ m[2] \in by_permission[ProgramOf[m[1]]]
    /\ passed' = matches
    /\ pc' = "send"
    /\ UNCHANGED <<saved, filters, by_permission, due, countdown, queue, batch, term,
                   taken>>

\* The matches are sent.
Send ==
    /\ pc = "send"
    /\ pc' = "loop"
    /\ batch' = {} /\ passed' = {}
    /\ UNCHANGED <<saved, filters, by_permission, due, countdown, queue, term, taken>>

\* An error of MongoDB, Valkey or the producer ends the thread.
Fail ==
    /\ pc \notin {"stopped", "dead"}
    /\ pc' = "dead"
    /\ batch' = {} /\ passed' = {}
    /\ UNCHANGED <<saved, filters, by_permission, due, countdown, queue, term, taken>>

\* The supervisor spawns a new worker in the slot.
Respawn ==
    /\ pc = "dead"
    /\ ~ term
    /\ pc' = "loop"
    /\ filters' = saved
    /\ by_permission' = Index(saved)
    /\ due' = FALSE
    /\ countdown' = CommandInterval
    /\ UNCHANGED <<saved, queue, batch, passed, term, taken>>

----------------------------------------------------------------------------
(* Its surroundings.                                                       *)

\* Enrichment pushes an alert.
Arrive(a) ==
    /\ a \notin queue
    /\ queue' = queue \cup {a}
    /\ UNCHANGED <<saved, filters, by_permission, due, countdown, batch, passed, pc,
                   term, taken>>

\* A filter is activated, deactivated or given other permissions.
Save(f, permissions) ==
    /\ permissions # saved[f]
    /\ saved' = [saved EXCEPT ![f] = permissions]
    /\ UNCHANGED <<filters, by_permission, due, countdown, queue, batch, passed, pc,
                   term, taken>>

RefreshDue ==
    /\ ~ due
    /\ due' = TRUE
    /\ UNCHANGED <<saved, filters, by_permission, countdown, queue, batch, passed, pc,
                   term, taken>>

\* The pool is dropped.
Terminate ==
    /\ ~ term
    /\ term' = TRUE
    /\ UNCHANGED <<saved, filters, by_permission, due, countdown, queue, batch, passed,
                   pc, taken>>

----------------------------------------------------------------------------
Work == \/ Refresh
        \/ CheckCommand
        \/ \E S \in SUBSET Alert : Pop(S)
        \/ \E matches \in SUBSET (Alert \X Filter) : Process(matches)
        \/ Send

Next == \/ Work
        \/ Fail
        \/ Respawn
        \/ \E a \in Alert : Arrive(a)
        \/ \E f \in Filter : \E permissions \in SUBSET Program : Save(f, permissions)
        \/ RefreshDue
        \/ Terminate

Spec == Init /\ [][Next]_vars

----------------------------------------------------------------------------
(* Properties.                                                             *)

\* An alert only ever passes a filter that has permission for its programid,
\* going by the permissions loaded last, however often they were changed.
PermissionsRespected == \A m \in passed : ProgramOf[m[1]] \in filters[m[2]]

\* After TERM a worker takes less than a command interval and a batch of further
\* alerts, however fast they arrive.
TerminatesSoon == taken < CommandInterval + BatchSize

\* What makes PermissionsRespected and TerminatesSoon inductive: the index agrees
\* with the filters, and every alert taken since TERM was counted down.
IInv == /\ TypeOK
        /\ PermissionsRespected
        /\ TerminatesSoon
        /\ by_permission = Index(filters)
        /\ pc # "send" => passed = {}
        /\ pc = "pop" => countdown > 0
        /\ ~ term => taken = 0
        /\ taken > 0 /\ countdown > 0 => taken + countdown <= CommandInterval

\* A change of the saved filters reaches the worker with a later refresh, also
\* when it has no filter to begin with.
RefreshTakesEffect ==
    filters # saved ~> filters = saved \/ pc \in {"stopped", "dead"}

============================================================================
