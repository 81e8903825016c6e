-------------------------- MODULE MCAlertPipeline --------------------------
(* Instances of AlertPipeline for TLC.                                     *)
EXTENDS AlertPipeline, TLC

CONSTANTS a1, a2, w1, w2, e1, f1

\* The first alert is in the topic twice.
MCAlertAt == (1 :> a1) @@ (2 :> a2) @@ (3 :> a1)

\* The only alert is in the topic twice.
TwiceTheSame == (1 :> a1) @@ (2 :> a1)

\* The alert workers are interchangeable.
Symmetry == Permutations(AlertWorker)
============================================================================
