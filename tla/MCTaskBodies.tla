---------------------------- MODULE MCTaskBodies ----------------------------
(***************************************************************************)
(* Three bodies of tasks for TLC: the ingestion of a catalog, and the      *)
(* reprocessing of enrichment and of cross-matches.  They share no state:  *)
(* a behaviour moves the body it has chosen at the start.                  *)
(***************************************************************************)
EXTENDS CatalogIngest, EnrichReprocess, CrossmatchReprocess, TLC

CONSTANTS Bodies, o1, o2, o3

VARIABLE body

\* One run of the ingestion that is attempted twice, then another one.
MCRunOf == [a \in 1..NAttempts |-> IF a <= 2 THEN "run1" ELSE "run2"]

MCObject == {o1, o2, o3}
MCOld == {o1, o2}
MCNear == {<<o1, 1>>, <<o1, 2>>, <<o3, 1>>, <<o3, 2>>}

\* The threads of a reprocessing run are interchangeable.
ThreadSymmetry == Permutations(Enricher)

\* A body that does not move stays in one of its initial states.
BodiesInit ==
    /\ body \in Bodies
    /\ Init /\ ReprocessInit /\ CrossmatchInit
    /\ body # "ingest" => \A r \in DOMAIN dropExisting : ~dropExisting[r]
    /\ body # "reprocess" => owned /\ missingOnly
    /\ body # "crossmatch" => \A o \in Object : crossMatches[o] = NoField

BodiesNext ==
    \/ body = "ingest" /\ Next /\ UNCHANGED <<body, reprocessVars, crossmatchVars>>
    \/ body = "reprocess" /\ ReprocessNext /\ UNCHANGED <<body, vars, crossmatchVars>>
    \/ body = "crossmatch" /\ CrossmatchNext /\ UNCHANGED <<body, vars, reprocessVars>>

BodiesSpec == BodiesInit /\ [][BodiesNext]_<<body, vars, reprocessVars, crossmatchVars>>
=============================================================================
