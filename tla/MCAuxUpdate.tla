---------------------------- MODULE MCAuxUpdate ----------------------------
(* Two LSST alerts that share a time, one with a designation, and a DECam   *)
(* alert at the same place.                                                 *)
EXTENDS AuxUpdate, TLC

CONSTANTS w1, w2, l1, l2, d1

MCAlertSurvey == [c \in Alert |-> IF c = d1 THEN "DECAM" ELSE "LSST"]
MCAlertPoints == [c \in Alert |-> [f \in Field |->
    CASE c = l1 -> IF f = "prv_candidates" THEN {1, 3} ELSE {2}
      [] c = l2 -> IF f = "prv_candidates" THEN {2, 3} ELSE {}
      [] OTHER -> IF f = "prv_candidates" THEN {1} ELSE {}]]
MCDesignation == [c \in Alert |-> IF c = l1 THEN "2024 AA" ELSE NoDesignation]
Workers == Permutations(Worker)
============================================================================
