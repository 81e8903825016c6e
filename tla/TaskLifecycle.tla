--------------------------- MODULE TaskLifecycle ---------------------------
(***************************************************************************)
(* What the task queue promises about a run, seen from outside: the life   *)
(* of a document of `tasks`, without workers, leases or requests.          *)
(* A run is queued once; it is claimed, and put back on the queue only if  *)
(* its task type is declared idempotent; it ends once.                     *)
(***************************************************************************)
EXTENDS Naturals

CONSTANTS Run, Idempotent

VARIABLES status, attempts

lifecycle == <<status, attempts>>

Ended == {"succeeded", "failed", "canceled"}

Init == /\ status = [r \in Run |-> "absent"]
        /\ attempts = [r \in Run |-> 0]

Submit(r) == /\ status[r] = "absent"
             /\ status' = [status EXCEPT ![r] = "queued"]
             /\ UNCHANGED attempts

Claim(r) == /\ status[r] = "queued"
            /\ status' = [status EXCEPT ![r] = "running"]
            /\ attempts' = [attempts EXCEPT ![r] = @ + 1]

Finish(r) == /\ status[r] = "running"
             /\ \E outcome \in Ended : status' = [status EXCEPT ![r] = outcome]
             /\ UNCHANGED attempts

Cancel(r) == /\ status[r] = "queued"
             /\ status' = [status EXCEPT ![r] = "canceled"]
             /\ UNCHANGED attempts

\* A set of running runs is put back at once, or failed at once.
Move(S, to) == /\ \A r \in S : status[r] = "running"
               /\ status' = [r \in Run |-> IF r \in S THEN to ELSE status[r]]
               /\ UNCHANGED attempts

Next == \/ \E r \in Run : Submit(r) \/ Claim(r) \/ Finish(r) \/ Cancel(r)
        \/ \E S \in SUBSET Idempotent : Move(S, "queued")
        \/ \E S \in SUBSET (Run \ Idempotent) : Move(S, "failed")

Spec == Init /\ [][Next]_lifecycle
============================================================================
