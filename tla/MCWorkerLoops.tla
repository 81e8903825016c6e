--------------------------- MODULE MCWorkerLoops ---------------------------
(***************************************************************************)
(* The loops of the worker threads for TLC: a supervised pool, a filter    *)
(* worker, and the embedding sinks of the enrichment workers.  They share  *)
(* no state, so that their interleavings add nothing: a behaviour moves    *)
(* the loop it has chosen at the start.                                    *)
(***************************************************************************)
EXTENDS Supervisor, FilterLoop, MilvusSink, TLC

CONSTANTS a1, a2, a3, f1, p1, p2, o1, o2, s1, s2, m1, m2

VARIABLE loop

\* Alerts of two programids, more than fit in a batch.
MCProgramOf == (a1 :> p1) @@ (a2 :> p2) @@ (a3 :> p1)

\* An object with two embeddings, and another object.
MCRow == {<<o1, 1>>, <<o1, 2>>, <<o2, 1>>}

all == <<loop, poolVars, vars, sinkVars>>

LoopsInit ==
    /\ loop \in {"pool", "filter", "sink"}
    /\ PoolInit /\ Init /\ SinkInit
    /\ loop # "filter" => \A f \in Filter : saved[f] = {}
    /\ loop # "sink" => useBackup

PoolStep(A) == loop = "pool" /\ A /\ UNCHANGED <<loop, vars, sinkVars>>
FilterStep(A) == loop = "filter" /\ A /\ UNCHANGED <<loop, poolVars, sinkVars>>
SinkStep(A) == loop = "sink" /\ A /\ UNCHANGED <<loop, poolVars, vars>>

LoopsNext == PoolStep(PoolNext) \/ FilterStep(Next) \/ SinkStep(SinkNext)

\* Time passes, the interval of the scheduler's loop ticks, workers come back to the
\* head of their loop and are replaced, and an operation that is issued comes back.
LoopsFairness ==
    /\ WF_all(PoolStep(Pass)) /\ WF_all(PoolStep(since = MaxGap /\ Supervise))
    /\ WF_all(FilterStep(Work)) /\ WF_all(FilterStep(Respawn))
    /\ WF_all(FilterStep(RefreshDue))
    /\ \A s \in Sink : WF_all(SinkStep(Progress(s))) /\ WF_all(SinkStep(PauseEnds(s)))

LoopsSpec == LoopsInit /\ [][LoopsNext]_all /\ LoopsFairness
=============================================================================
