---------------------------- MODULE ObjectStore ----------------------------
(***************************************************************************)
(* What ingestion promises about the objects of the surveys, without       *)
(* workers, versions or fallbacks: the photometry of an alert comes to its *)
(* object whole, in one step, and takes nothing away; and an alert is      *)
(* stored only when its photometry is there.                               *)
(***************************************************************************)
CONSTANTS Alert, Survey, Field, AlertSurvey, AlertPoints

VARIABLES points, stored

store == <<points, stored>>

Merge(c) ==
    /\ points' = [points EXCEPT ![AlertSurvey[c]] =
                    [f \in Field |-> points[AlertSurvey[c]][f]
                                       \cup AlertPoints[c][f]]]
    /\ UNCHANGED stored

Store(c) ==
    /\ \A f \in Field : AlertPoints[c][f] \subseteq points[AlertSurvey[c]][f]
    /\ stored' = stored \cup {c}
    /\ UNCHANGED points

Init == stored = {}

Next == \E c \in Alert : Merge(c) \/ Store(c)

Spec == Init /\ [][Next]_store
============================================================================
