-------------------------- MODULE AuxUpdateProofs --------------------------
(***************************************************************************)
(* Proofs about AuxUpdate, for any workers, alerts, times and documents    *)
(* from before: AInv is inductive; hence no stored alert misses a point,   *)
(* no valid series becomes invalid, and ingestion implements ObjectStore.  *)
(***************************************************************************)
EXTENDS AuxUpdate, TLAPS

\* A step of process_alert by w on the alert c it holds.
LEMMA TypeTake ==
    ASSUME TypeOK, NEW w \in Worker, NEW c \in Alert, Take(w, c)
    PROVE  TypeOK'
<1>1. FirstStep(AlertSurvey[c]) \in {"read", "check"}
  BY DEF FirstStep
<1>2. /\ pc' \in [Worker -> {"idle", "check", "matches", "link ZTF", "link LSST",
                             "read", "update", "fallback", "cutouts", "store"}]
      /\ \A v \in Worker : pc'[v] # "idle" => job'[v] \in Alert
  BY <1>1 DEF TypeOK, Take, Goto
<1>3. job' \in [Worker -> Alert \cup {NoAlert}] /\ tries' \in [Alert -> Nat]
  <2>1. job' \in [Worker -> Alert \cup {NoAlert}]
    BY DEF TypeOK, Take
  <2>2. tries[c] \in Nat
    BY DEF TypeOK
  <2>3. tries[c] + 1 \in Nat
    BY <2>2
  <2>4. QED
    BY <2>1, <2>3 DEF TypeOK, Take
<1>4. QED
  BY <1>2, <1>3 DEF TypeOK, Take, docs, series, reads, repair

\* Finish leaves the worker idle and the other variables of their types.
LEMMA TypeFinish ==
    ASSUME TypeOK, NEW w \in Worker, Finish(w)
    PROVE  /\ pc' \in [Worker -> {"idle", "check", "matches", "link ZTF", "link LSST",
                                  "read", "update", "fallback", "cutouts", "store"}]
           /\ job' \in [Worker -> Alert \cup {NoAlert}]
           /\ \A v \in Worker : pc'[v] # "idle" => job'[v] \in Alert
           /\ found' \in [Worker -> SUBSET Survey]
           /\ seen' \in [Worker -> BOOLEAN]
           /\ seenPts' \in [Worker -> [Field -> SUBSET Jd]]
           /\ seenValid' \in [Worker -> [Field -> BOOLEAN]]
           /\ seenVersion' \in [Worker -> Int]
<1>1. /\ pc' \in [Worker -> {"idle", "check", "matches", "link ZTF", "link LSST",
                             "read", "update", "fallback", "cutouts", "store"}]
      /\ job' \in [Worker -> Alert \cup {NoAlert}]
      /\ \A v \in Worker : pc'[v] # "idle" => job'[v] \in Alert
  BY DEF TypeOK, Finish, Goto
<1>2. found' \in [Worker -> SUBSET Survey] /\ seen' \in [Worker -> BOOLEAN]
  BY DEF TypeOK, Finish
<1>3. seenPts' \in [Worker -> [Field -> SUBSET Jd]]
  BY DEF TypeOK, Finish
<1>4. seenValid' \in [Worker -> [Field -> BOOLEAN]]
  BY DEF TypeOK, Finish
<1>5. seenVersion' \in [Worker -> Int]
  <2>1. NoVersion \in Int
    BY DEF NoVersion
  <2>2. QED
    BY <2>1 DEF TypeOK, Finish
<1>6. QED
  BY <1>1, <1>2, <1>3, <1>4, <1>5

\* The steps that only read, and the worker's moves between them.
LEMMA TypeReads ==
    ASSUME TypeOK, NEW w \in Worker,
           \/ CheckAlertExists(w) \/ GetSurveyMatches(w) \/ LinkCounterparts(w)
           \/ GetExistingAux(w) \/ FastUpdateFails(w) \/ InsertAuxExists(w)
           \/ InsertCutouts(w) \/ InsertAlert(w) \/ Fail(w)
    PROVE  TypeOK'
<1>1. CASE CheckAlertExists(w)
  <2>1. CASE Finish(w)
    BY <1>1, <2>1, TypeFinish DEF TypeOK, CheckAlertExists, docs, series, repair
  <2>2. CASE Goto(w, "matches") /\ UNCHANGED <<job, found, reads>>
    BY <1>1, <2>2 DEF TypeOK, CheckAlertExists, Goto, docs, series, reads, repair
  <2>3. QED
    BY <1>1, <2>1, <2>2 DEF CheckAlertExists
<1>2. CASE GetSurveyMatches(w)
  <2>1. found' \in [Worker -> SUBSET Survey]
    <3>1. Counterparts(AlertSurvey[job[w]]) \subseteq Survey
      BY DEF Counterparts, Survey
    <3>2. QED
      BY <1>2, <3>1, ZenonT(60) DEF TypeOK, GetSurveyMatches
  <2>2. AfterMatches(AlertSurvey[job[w]]) \in {"update", "link ZTF", "read"}
    BY DEF AfterMatches
  <2>3. QED
    BY <1>2, <2>1, <2>2 DEF TypeOK, GetSurveyMatches, Goto, docs, series, reads, repair
<1>3. CASE LinkCounterparts(w)
  <2>1. PICK s \in {"ZTF", "LSST"} :
           /\ pc[w] = (IF s = "ZTF" THEN "link ZTF" ELSE "link LSST")
           /\ aliases' = IF s \in found[w]
                         THEN [aliases EXCEPT ![s] = @ \cup {"DECAM"}] ELSE aliases
           /\ Goto(w, IF s = "ZTF" THEN "link LSST" ELSE "read")
           /\ UNCHANGED <<exists, pts, series, version, designation, cutouts,
                          alerts, job, found, reads, tries, repair>>
    BY <1>3 DEF LinkCounterparts
  <2>2. aliases' \in [Survey -> SUBSET Survey]
    BY <2>1 DEF TypeOK, Survey
  <2>3. QED
    BY <2>1, <2>2 DEF TypeOK, Goto, series, reads, repair
<1>4. CASE GetExistingAux(w)
  <2>1. AlertSurvey[job[w]] \in Survey
    BY <1>4, AlertAssumption DEF TypeOK, GetExistingAux
  <2>2. AfterRead(AlertSurvey[job[w]]) \in {"update", "check"}
    BY DEF AfterRead
  <2>3. seen' \in [Worker -> BOOLEAN] /\ seenVersion' \in [Worker -> Int]
    BY <1>4, <2>1 DEF TypeOK, GetExistingAux
  <2>4. seenPts' \in [Worker -> [Field -> SUBSET Jd]]
    BY <1>4, <2>1 DEF TypeOK, GetExistingAux
  <2>5. seenValid' \in [Worker -> [Field -> BOOLEAN]]
    BY <1>4, <2>1 DEF TypeOK, GetExistingAux, Valid
  <2>6. QED
    BY <1>4, <2>2, <2>3, <2>4, <2>5 DEF TypeOK, GetExistingAux, Goto, docs, series, repair
<1>5. CASE FastUpdateFails(w)
  BY <1>5 DEF TypeOK, FastUpdateFails, Goto, docs, series, reads, repair
<1>6. CASE InsertAuxExists(w)
  BY <1>6 DEF TypeOK, InsertAuxExists, Goto, docs, series, reads, repair
<1>7. CASE InsertCutouts(w)
  BY <1>7 DEF TypeOK, InsertCutouts, Goto, docs, series, reads, repair
<1>8. CASE InsertAlert(w)
  <2>1. alerts' \subseteq Alert
    BY <1>8 DEF TypeOK, InsertAlert
  <2>2. QED
    BY <1>8, <2>1, TypeFinish DEF TypeOK, InsertAlert, docs, series, repair
<1>9. CASE Fail(w)
  BY <1>9, TypeFinish DEF TypeOK, Fail, docs, series, repair
<1>10. QED
  BY <1>1, <1>2, <1>3, <1>4, <1>5, <1>6, <1>7, <1>8, <1>9

\* The flags of a series after a write are Booleans, its times are times.
LEMMA TypeMerged ==
    ASSUME TypeOK, NEW s \in Survey, NEW new \in [Field -> SUBSET Jd], Merged(s, new)
    PROVE  /\ pts' \in [Survey -> [Field -> SUBSET Jd]]
           /\ ascends' \in [Survey -> [Field -> BOOLEAN]]
           /\ repeats' \in [Survey -> [Field -> BOOLEAN]]
           /\ junk' \in [Survey -> [Field -> SUBSET Junk]]
<1>1. pts' \in [Survey -> [Field -> SUBSET Jd]]
  <2>1. pts[s] \in [Field -> SUBSET Jd]
    BY DEF TypeOK
  <2>2. [f \in Field |-> pts[s][f] \cup new[f]] \in [Field -> SUBSET Jd]
    BY <2>1
  <2>3. QED
    BY <2>2 DEF TypeOK, Merged
<1>2. ascends' \in [Survey -> [Field -> BOOLEAN]]
  BY DEF TypeOK, Merged
<1>3. repeats' \in [Survey -> [Field -> BOOLEAN]]
  BY DEF TypeOK, Merged
<1>4. junk' \in [Survey -> [Field -> SUBSET Junk]]
  BY DEF TypeOK, Merged
<1>5. QED
  BY <1>1, <1>2, <1>3, <1>4

\* The fast write of a series keeps the types of the series.
LEMMA TypePush ==
    ASSUME TypeOK, NEW w \in Worker, job[w] \in Alert, NEW s \in Survey, Push(w, s)
    PROVE  /\ pts' \in [Survey -> [Field -> SUBSET Jd]]
           /\ ascends' \in [Survey -> [Field -> BOOLEAN]]
           /\ repeats' \in [Survey -> [Field -> BOOLEAN]]
           /\ junk' \in [Survey -> [Field -> SUBSET Junk]]
<1>1. \A f \in Field : Prepared(w, f) \subseteq Jd
  BY AlertAssumption DEF Prepared
<1>2. pts' \in [Survey -> [Field -> SUBSET Jd]]
  <2>1. pts[s] \in [Field -> SUBSET Jd]
    BY DEF TypeOK
  <2>2. [f \in Field |-> pts[s][f] \cup Prepared(w, f)] \in [Field -> SUBSET Jd]
    BY <1>1, <2>1
  <2>3. QED
    BY <2>2 DEF TypeOK, Push
<1>3. ascends' \in [Survey -> [Field -> BOOLEAN]]
  <2> DEFINE a == [f \in Field |->
                     IF Prepared(w, f) # {} /\ NeedsSort(w, f) THEN TRUE
                     ELSE /\ ascends[s][f]
                          /\ \A p \in pts[s][f], d \in Prepared(w, f) : p <= d]
  <2>1. a \in [Field -> BOOLEAN]
    BY DEF TypeOK
  <2>2. ascends' = [ascends EXCEPT ![s] = a]
    BY DEF Push
  <2>3. QED
    BY <2>1, <2>2 DEF TypeOK
<1>4. repeats' \in [Survey -> [Field -> BOOLEAN]]
  <2> DEFINE r == [f \in Field |-> repeats[s][f] \/ Prepared(w, f) \cap pts[s][f] # {}]
  <2>1. r \in [Field -> BOOLEAN]
    BY DEF TypeOK
  <2>2. repeats' = [repeats EXCEPT ![s] = r]
    BY DEF Push
  <2>3. QED
    BY <2>1, <2>2 DEF TypeOK
<1>5. junk' \in [Survey -> [Field -> SUBSET Junk]]
  BY DEF TypeOK, Push
<1>6. QED
  BY <1>2, <1>3, <1>4, <1>5

\* Each of the three writes to an aux document keeps the types.
LEMMA TypeWrites ==
    ASSUME TypeOK, NEW w \in Worker,
           FastUpdate(w) \/ UpdateAuxFallback(w) \/ InsertAux(w)
    PROVE  TypeOK'
<1> DEFINE s == AlertSurvey[job[w]]
<1>1. job[w] \in Alert /\ s \in Survey
  BY AlertAssumption DEF TypeOK, FastUpdate, UpdateAuxFallback, InsertAux
<1>2. AlertPoints[job[w]] \in [Field -> SUBSET Jd]
  BY <1>1, AlertAssumption
<1>3. \A v \in Int : Bumped(v) \in Int
  BY DEF Bumped, NoVersion
<1>4. /\ pts' \in [Survey -> [Field -> SUBSET Jd]]
      /\ ascends' \in [Survey -> [Field -> BOOLEAN]]
      /\ repeats' \in [Survey -> [Field -> BOOLEAN]]
      /\ junk' \in [Survey -> [Field -> SUBSET Junk]]
  <2>1. CASE FastUpdate(w)
    BY <2>1, <1>1, TypePush DEF FastUpdate
  <2>2. CASE UpdateAuxFallback(w)
    BY <2>2, <1>1, <1>2, TypeMerged DEF UpdateAuxFallback
  <2>3. CASE InsertAux(w)
    <3>1. pts' \in [Survey -> [Field -> SUBSET Jd]]
      BY <2>3, <1>1, <1>2 DEF TypeOK, InsertAux
    <3>2. QED
      BY <2>3, <3>1 DEF TypeOK, InsertAux, series
  <2>4. QED
    BY <2>1, <2>2, <2>3
<1>5. aliases' \in [Survey -> SUBSET Survey]
  BY <1>1 DEF TypeOK, FastUpdate, UpdateAuxFallback, InsertAux, SetAliases
<1>6. version' \in [Survey -> Int]
  <2>1. NoVersion \in Int
    BY DEF NoVersion
  <2>2. Bumped(seenVersion[w]) \in Int /\ Bumped(version[s]) \in Int
    BY <1>1, <1>3 DEF TypeOK
  <2>3. \E v \in Int : version' = [version EXCEPT ![s] = v]
    BY <2>1, <2>2 DEF FastUpdate, UpdateAuxFallback, InsertAux
  <2>4. QED
    BY <1>1, <2>3 DEF TypeOK
<1>7. exists' \in [Survey -> BOOLEAN]
  BY <1>1 DEF TypeOK, FastUpdate, UpdateAuxFallback, InsertAux
<1>8. /\ pc' \in [Worker -> {"idle", "check", "matches", "link ZTF", "link LSST",
                             "read", "update", "fallback", "cutouts", "store"}]
      /\ job' = job /\ \A v \in Worker : pc'[v] # "idle" => job[v] \in Alert
  BY <1>1, ZenonT(60) DEF TypeOK, FastUpdate, UpdateAuxFallback, InsertAux, Goto
<1>9. UNCHANGED <<cutouts, alerts, found, reads, tries, repair>>
  BY DEF FastUpdate, UpdateAuxFallback, InsertAux
<1>10. QED
  BY <1>4, <1>5, <1>6, <1>7, <1>8, <1>9 DEF TypeOK, reads, repair

\* The repair task keeps the types.
LEMMA TypeRepair ==
    ASSUME TypeOK, RepairPhotometry
    PROVE  TypeOK'
<1>1. ASSUME NEW s \in Survey, Scan(s)
      PROVE  TypeOK'
  BY <1>1 DEF TypeOK, Scan, docs, series, reads
<1>2. ASSUME NEW s \in Survey, Repair(s)
      PROVE  TypeOK'
  <2>1. ascends' \in [Survey -> [Field -> BOOLEAN]]
    <3>1. [f \in Field |-> ascends[s][f] \/ f \in broken] \in [Field -> BOOLEAN]
      BY DEF TypeOK
    <3>2. QED
      BY <1>2, <3>1 DEF TypeOK, Repair
  <2>2. repeats' \in [Survey -> [Field -> BOOLEAN]]
    <3>1. [f \in Field |-> repeats[s][f] /\ f \notin broken] \in [Field -> BOOLEAN]
      BY DEF TypeOK
    <3>2. QED
      BY <1>2, <3>1 DEF TypeOK, Repair
  <2>3. junk' \in [Survey -> [Field -> SUBSET Junk]]
    <3>1. junk[s] \in [Field -> SUBSET Junk]
      BY DEF TypeOK
    <3>2. [f \in Field |-> IF f \in broken THEN {} ELSE junk[s][f]] \in [Field -> SUBSET Junk]
      BY <3>1
    <3>3. QED
      BY <1>2, <3>2 DEF TypeOK, Repair
  <2>4. QED
    BY <1>2, <2>1, <2>2, <2>3 DEF TypeOK, Repair, reads
<1>3. CASE RepairStops
  BY <1>3 DEF TypeOK, RepairStops, docs, series, reads
<1>4. QED
  BY <1>1, <1>2, <1>3 DEF RepairPhotometry

\* The initial state is well typed.
LEMMA TypeInit == Init => TypeOK
<1> SUFFICES ASSUME Init PROVE TypeOK
  OBVIOUS
<1>1. exists \in [Survey -> BOOLEAN]
  BY DEF Init
<1>2. pts \in [Survey -> [Field -> SUBSET Jd]]
  <2>1. PICK p \in [Legacy -> [Field -> SUBSET LegacyJd]] :
           pts = [s \in Survey |-> IF exists[s] THEN p[s] ELSE [f \in Field |-> {}]]
    BY DEF Init
  <2>2. \A s \in Survey : exists[s] => s \in Legacy
    BY DEF Init
  <2>3. \A s \in Legacy : p[s] \in [Field -> SUBSET Jd]
    BY JdAssumption
  <2>4. QED
    BY <2>1, <2>2, <2>3
<1>3. ascends \in [Survey -> [Field -> BOOLEAN]]
  BY DEF Init
<1>4. repeats \in [Survey -> [Field -> BOOLEAN]]
  BY DEF Init
<1>5. junk \in [Survey -> [Field -> SUBSET Junk]]
  <2>1. PICK j \in [Legacy -> [Field -> SUBSET Junk]] :
           junk = [s \in Survey |-> [f \in Field |-> IF exists[s] THEN j[s][f] ELSE {}]]
    BY DEF Init
  <2>2. \A s \in Survey : exists[s] => s \in Legacy
    BY DEF Init
  <2>3. QED
    BY <2>1, <2>2
<1>6. version \in [Survey -> Int]
  <2>1. PICK v \in [Legacy -> {NoVersion, 1}] :
           version = [s \in Survey |-> IF exists[s] THEN v[s] ELSE NoVersion]
    BY DEF Init
  <2>2. \A s \in Survey : exists[s] => s \in Legacy
    BY DEF Init
  <2>3. NoVersion \in Int
    BY DEF NoVersion
  <2>4. QED
    BY <2>1, <2>2, <2>3
<1>7. seenVersion \in [Worker -> Int]
  BY DEF Init, NoVersion
<1>8. QED
  BY <1>1, <1>2, <1>3, <1>4, <1>5, <1>6, <1>7 DEF Init, TypeOK

\* Every step keeps the types.
LEMMA TypeNext == TypeOK /\ [Next]_vars => TypeOK'
<1> SUFFICES ASSUME TypeOK, [Next]_vars PROVE TypeOK'
  OBVIOUS
<1>1. ASSUME NEW w \in Worker, ProcessAlert(w)
      PROVE  TypeOK'
  BY <1>1, TypeTake, TypeReads, TypeWrites DEF ProcessAlert
<1>2. CASE RepairPhotometry
  BY <1>2, TypeRepair
<1>3. CASE UNCHANGED vars
  BY <1>3 DEF TypeOK, vars, docs, series, reads, repair
<1>4. QED
  BY <1>1, <1>2, <1>3 DEF Next

\* Type correctness of ingestion into the aux documents.
THEOREM AuxTypes == Spec => []TypeOK
  BY TypeInit, TypeNext, PTL DEF Spec

----------------------------------------------------------------------------
\* The series of the documents, and what a step does to them.

\* What the aux documents hold.
Series == <<exists, pts, ascends, repeats, junk, version>>

\* A step that leaves the series alone leaves alone what is said of them.
LEMMA QuietStep ==
    ASSUME AInv, UNCHANGED Series
    PROVE  /\ Unborn'
           /\ \A w \in Worker, s \in Survey :
                ReadIsCurrent(w, s) /\ UNCHANGED reads => ReadIsCurrent(w, s)'
           /\ \A c \in Alert : IsMerged(c) => IsMerged(c)'
<1>1. Unborn'
  BY DEF AInv, Unborn, Valid, Series
<1>2. ASSUME NEW w \in Worker, NEW s \in Survey, ReadIsCurrent(w, s), UNCHANGED reads
      PROVE  ReadIsCurrent(w, s)'
  BY <1>2 DEF ReadIsCurrent, Valid, Series, reads
<1>3. QED
  BY <1>1, <1>2 DEF IsMerged, Series

\* The step is of worker w: the others keep their place, their alert and what they read.
OthersKept(w) ==
    \A v \in Worker \ {w} : /\ pc'[v] = pc[v] /\ job'[v] = job[v]
                            /\ seen'[v] = seen[v] /\ seenPts'[v] = seenPts[v]
                            /\ seenValid'[v] = seenValid[v]
                            /\ seenVersion'[v] = seenVersion[v]

\* An alert is stored only when its photometry is merged and its cutouts are there.
AlertsKept ==
    \A c \in alerts' : c \in alerts \/ (IsMerged(c) /\ c \in cutouts')

\* The parts of AInv other than the types and Unborn, after a step by w.
LEMMA QuietWorker ==
    ASSUME AInv, NEW w \in Worker, UNCHANGED Series, TypeOK',
           OthersKept(w),
           seen'[w] => /\ job'[w] \in Alert
                       /\ ReadIsCurrent(w, AlertSurvey[job[w]])',
           pc'[w] = "idle" => ~seen'[w],
           pc'[w] \in {"cutouts", "store"} => IsMerged(job[w])',
           pc'[w] = "store" => job'[w] \in cutouts',
           cutouts \subseteq cutouts',
           AlertsKept
    PROVE  AInv'
<1>1. Unborn'
  BY QuietStep
<1>2. ASSUME NEW v \in Worker, v # w, seen'[v]
      PROVE  job'[v] \in Alert /\ ReadIsCurrent(v, AlertSurvey[job[v]])'
  <2>1. job[v] \in Alert /\ ReadIsCurrent(v, AlertSurvey[job[v]])
    BY <1>2 DEF AInv, OthersKept
  <2>2. ReadIsCurrent(v, AlertSurvey[job[v]])'
    BY <1>2, <2>1 DEF ReadIsCurrent, Valid, Series, OthersKept
  <2>3. QED
    BY <1>2, <2>1, <2>2 DEF OthersKept
<1>3. \A c \in Alert : IsMerged(c) => IsMerged(c)'
  BY QuietStep
<1>4. ASSUME NEW v \in Worker, v # w, pc'[v] \in {"cutouts", "store"}
      PROVE  IsMerged(job[v])' /\ (pc'[v] = "store" => job'[v] \in cutouts')
  <2>1. IsMerged(job[v]) /\ job[v] \in Alert
    BY <1>4 DEF AInv, TypeOK, OthersKept
  <2>2. QED
    BY <1>4, <2>1, <1>3 DEF AInv, OthersKept
<1>5. \A c \in alerts' : IsMerged(c)' /\ c \in cutouts'
  BY <1>3 DEF AInv, TypeOK, AlertsKept
<1>6. \A v \in Worker : pc'[v] = "idle" => ~seen'[v]
  BY DEF AInv, OthersKept
<1>7. QED
  BY <1>1, <1>2, <1>4, <1>5, <1>6 DEF AInv

\* The steps of a worker that write no aux document keep the invariant.
LEMMA InvQuiet ==
    ASSUME AInv, TypeOK', NEW w \in Worker,
           \/ \E c \in Alert : Take(w, c)
           \/ CheckAlertExists(w) \/ GetSurveyMatches(w) \/ LinkCounterparts(w)
           \/ FastUpdateFails(w) \/ InsertAuxExists(w)
           \/ InsertCutouts(w) \/ InsertAlert(w) \/ Fail(w)
    PROVE  AInv'
<1>1. UNCHANGED Series
  BY DEF Take, CheckAlertExists, GetSurveyMatches, LinkCounterparts, FastUpdateFails,
         InsertAuxExists, InsertCutouts, InsertAlert, Fail, docs, series, Series
<1>2. TypeOK
  BY DEF AInv
<1>3. ASSUME Finish(w), cutouts' = cutouts,
             AlertsKept
      PROVE  AInv'
  <2>1. pc'[w] = "idle" /\ ~seen'[w]
    BY <1>2, <1>3 DEF Finish, Goto, TypeOK
  <2>2. OthersKept(w)
    BY <1>2, <1>3, ZenonT(60) DEF Finish, Goto, TypeOK, OthersKept
  <2>3. QED
    BY <1>1, <1>3, <2>1, <2>2, QuietWorker
<1>4. ASSUME job' = job, UNCHANGED reads, alerts' = alerts, NEW step, Goto(w, step),
             step \notin {"idle", "cutouts", "store"}, cutouts' = cutouts
      PROVE  AInv'
  <2>1. seen'[w] => job'[w] \in Alert /\ ReadIsCurrent(w, AlertSurvey[job[w]])'
    BY <1>1, <1>4, QuietStep, AlertAssumption DEF AInv, reads
  <2>2. pc'[w] = step /\ OthersKept(w)
    BY <1>2, <1>4 DEF Goto, TypeOK, OthersKept, reads
  <2>3. AlertsKept
    BY <1>4 DEF AlertsKept
  <2>4. QED
    BY <1>1, <1>4, <2>1, <2>2, <2>3, QuietWorker
<1>5. ASSUME NEW c \in Alert, Take(w, c)
      PROVE  AInv'
  <2>1. pc'[w] \in {"read", "check"} /\ ~seen'[w] /\ UNCHANGED <<reads, cutouts, alerts>>
    BY <1>2, <1>5 DEF Take, Goto, FirstStep, AInv, TypeOK, reads
  <2>2. OthersKept(w) /\ AlertsKept
    BY <1>2, <1>5 DEF Take, Goto, TypeOK, OthersKept, AlertsKept, reads
  <2>3. QED
    BY <1>1, <2>1, <2>2, QuietWorker
<1>6. CASE CheckAlertExists(w)
  <2>1. CASE Finish(w)
    BY <1>3, <1>6, <2>1 DEF CheckAlertExists, AlertsKept
  <2>2. CASE Goto(w, "matches") /\ UNCHANGED <<job, found, reads>>
    BY <1>4, <1>6, <2>2 DEF CheckAlertExists
  <2>3. QED
    BY <1>6, <2>1, <2>2 DEF CheckAlertExists
<1>7. CASE GetSurveyMatches(w)
  <2>1. AfterMatches(AlertSurvey[job[w]]) \notin {"idle", "cutouts", "store"}
    BY DEF AfterMatches
  <2>2. QED
    BY <1>4, <1>7, <2>1 DEF GetSurveyMatches
<1>8. CASE LinkCounterparts(w)
  <2>1. Goto(w, "link LSST") \/ Goto(w, "read")
    BY <1>8 DEF LinkCounterparts
  <2>2. job' = job /\ UNCHANGED reads /\ alerts' = alerts /\ cutouts' = cutouts
    BY <1>8 DEF LinkCounterparts
  <2>3. QED
    BY <1>4, <2>1, <2>2
<1>9. CASE FastUpdateFails(w)
  BY <1>4, <1>9 DEF FastUpdateFails
<1>10. CASE InsertAuxExists(w)
  BY <1>4, <1>10 DEF InsertAuxExists
<1>11. CASE InsertCutouts(w)
  <2>1. seen'[w] => job'[w] \in Alert /\ ReadIsCurrent(w, AlertSurvey[job[w]])'
    BY <1>1, <1>11, QuietStep, AlertAssumption DEF AInv, reads, InsertCutouts
  <2>2. /\ pc'[w] = "store" /\ job' = job /\ job[w] \in cutouts'
        /\ OthersKept(w) /\ AlertsKept
    BY <1>2, <1>11 DEF InsertCutouts, Goto, TypeOK, OthersKept, AlertsKept, reads
  <2>3. IsMerged(job[w])'
    BY <1>1, <1>2, <1>11, QuietStep DEF InsertCutouts, AInv, TypeOK
  <2>4. QED
    BY <1>1, <1>11, <2>1, <2>2, <2>3, QuietWorker DEF InsertCutouts
<1>12. CASE InsertAlert(w)
  <2>1. IsMerged(job[w]) /\ job[w] \in cutouts
    BY <1>12 DEF InsertAlert, AInv
  <2>2. QED
    BY <1>3, <1>12, <2>1 DEF InsertAlert, AlertsKept
<1>13. CASE Fail(w)
  BY <1>3, <1>13 DEF Fail, AlertsKept
<1>14. QED
  BY <1>5, <1>6, <1>7, <1>8, <1>9, <1>10, <1>11, <1>12, <1>13

\* So does the read of the document, which is what the later write relies on.
LEMMA InvRead ==
    ASSUME AInv, TypeOK', NEW w \in Worker, GetExistingAux(w)
    PROVE  AInv'
<1> DEFINE s == AlertSurvey[job[w]]
<1>1. TypeOK /\ job[w] \in Alert /\ s \in Survey
  BY AlertAssumption DEF AInv, TypeOK, GetExistingAux
<1>2. UNCHANGED Series /\ job' = job
  BY DEF GetExistingAux, docs, series, Series
<1>3. /\ seen'[w] = exists[s] /\ seenPts'[w] = pts[s] /\ seenVersion'[w] = version[s]
      /\ \A f \in Field : seenValid'[w][f] = Valid(s, f)
  BY <1>1 DEF GetExistingAux, TypeOK
<1>4. seen'[w] => ReadIsCurrent(w, AlertSurvey[job[w]])'
  <2> SUFFICES ASSUME seen'[w] PROVE ReadIsCurrent(w, AlertSurvey[job[w]])'
    OBVIOUS
  <2>1. exists'[s] /\ seenVersion'[w] = version'[s] /\ seenPts'[w] = pts'[s]
    BY <1>2, <1>3 DEF Series
  <2>2. \A f \in Field : seenValid'[w][f] => Valid(s, f)'
    BY <1>2, <1>3 DEF Series, Valid
  <2>3. version'[s] \in Int
    BY <1>1 DEF TypeOK
  <2>4. QED
    BY <1>2, <2>1, <2>2, <2>3 DEF ReadIsCurrent
<1>5. pc'[w] \in {"check", "update"} /\ OthersKept(w) /\ AlertsKept
  BY <1>1 DEF GetExistingAux, Goto, AfterRead, TypeOK, OthersKept, AlertsKept
<1>6. cutouts' = cutouts
  BY DEF GetExistingAux
<1>7. QED
  BY <1>1, <1>2, <1>4, <1>5, <1>6, QuietWorker

\* A write to the document of s: nothing goes, the version moves on, and what
\* the workers have read is still there.
Written(s) ==
    /\ exists' = [exists EXCEPT ![s] = TRUE]
    /\ \A f \in Field : pts[s][f] \subseteq pts'[s][f]
    /\ exists[s] => version'[s] > version[s]
    /\ version'[s] >= NoVersion
    /\ \A o \in Survey \ {s} : /\ pts'[o] = pts[o] /\ version'[o] = version[o]
                               /\ \A f \in Field : Valid(o, f)' <=> Valid(o, f)

\* A write only adds to what the other workers read, and moves the version away from theirs.
LEMMA WriteKeepsReads ==
    ASSUME AInv, TypeOK', NEW s \in Survey, Written(s), UNCHANGED <<job, reads>>
    PROVE  /\ Unborn'
           /\ \A v \in Worker : seen'[v] => /\ job'[v] \in Alert
                                            /\ ReadIsCurrent(v, AlertSurvey[job[v]])'
           /\ \A c \in Alert : IsMerged(c) => IsMerged(c)'
<1>1. TypeOK
  BY DEF AInv
<1>2. Unborn'
  <2> SUFFICES ASSUME NEW o \in Survey
               PROVE  /\ version'[o] >= NoVersion
                      /\ ~exists'[o] => \A f \in Field : pts'[o][f] = {} /\ Valid(o, f)'
    BY DEF Unborn
  <2>1. CASE o = s
    BY <1>1, <2>1 DEF Written, TypeOK
  <2>2. CASE o # s
    <3>1. exists'[o] = exists[o]
      BY <1>1, <2>2 DEF Written, TypeOK
    <3>2. version[o] >= NoVersion /\ (~exists[o] => \A f \in Field : pts[o][f] = {} /\ Valid(o, f))
      BY DEF AInv, Unborn
    <3>3. QED
      BY <2>2, <3>1, <3>2 DEF Written
  <2>3. QED
    BY <2>1, <2>2
<1>3. ASSUME NEW v \in Worker, seen'[v]
      PROVE  job'[v] \in Alert /\ ReadIsCurrent(v, AlertSurvey[job[v]])'
  <2> DEFINE o == AlertSurvey[job[v]]
  <2>1. seen[v] /\ job[v] \in Alert /\ ReadIsCurrent(v, o) /\ o \in Survey
    BY <1>3, AlertAssumption DEF AInv, reads
  <2>2. CASE o = s
    <3>1. exists'[s] /\ version'[s] > version[s]
      BY <1>1, <2>1, <2>2, ZenonT(60) DEF Written, ReadIsCurrent, TypeOK
    <3>2. seenVersion'[v] < version'[s]
      <4>1. seenVersion[v] \in Int /\ version[s] \in Int /\ version'[s] \in Int
        BY <1>1 DEF TypeOK
      <4>2. seenVersion[v] <= version[s] /\ seenVersion'[v] = seenVersion[v]
        BY <2>1, <2>2 DEF ReadIsCurrent, reads
      <4>3. QED
        BY <3>1, <4>1, <4>2
    <3>3. \A f \in Field : seenPts'[v][f] \subseteq pts'[s][f]
      BY <2>1, <2>2 DEF Written, ReadIsCurrent, reads
    <3>4. seenVersion'[v] \in Int /\ version'[s] \in Int
      BY DEF TypeOK
    <3>5. QED
      BY <2>1, <2>2, <3>1, <3>2, <3>3, <3>4 DEF ReadIsCurrent
  <2>3. CASE o # s
    BY <1>1, <2>1, <2>3, ZenonT(60) DEF Written, ReadIsCurrent, reads, TypeOK
  <2>4. QED
    BY <2>2, <2>3
<1>4. ASSUME NEW c \in Alert, IsMerged(c)
      PROVE  IsMerged(c)'
  <2>1. AlertSurvey[c] \in Survey
    BY AlertAssumption
  <2>2. QED
    BY <1>1, <1>4, <2>1 DEF IsMerged, Written, TypeOK
<1>5. QED
  BY <1>2, <1>3, <1>4

\* A write by w of the points of its alert.
LEMMA WriteKeepsInv ==
    ASSUME AInv, TypeOK', NEW w \in Worker, job[w] \in Alert,
           Written(AlertSurvey[job[w]]), UNCHANGED <<job, reads, cutouts, alerts>>,
           pc'[w] \in {"cutouts", "fallback"},
           \A v \in Worker \ {w} : pc'[v] = pc[v],
           IsMerged(job[w])'
    PROVE  AInv'
<1>1. AlertSurvey[job[w]] \in Survey /\ TypeOK
  BY AlertAssumption DEF AInv
<1>2. /\ Unborn'
      /\ \A v \in Worker : seen'[v] => /\ job'[v] \in Alert
                                       /\ ReadIsCurrent(v, AlertSurvey[job[v]])'
      /\ \A c \in Alert : IsMerged(c) => IsMerged(c)'
  BY <1>1, WriteKeepsReads
<1>3. \A v \in Worker : pc'[v] = "idle" => ~seen'[v]
  BY DEF AInv, reads
<1>4. ASSUME NEW v \in Worker, pc'[v] \in {"cutouts", "store"}
      PROVE  IsMerged(job[v])' /\ (pc'[v] = "store" => job'[v] \in cutouts')
  <2>1. CASE v = w
    BY <1>4, <2>1
  <2>2. CASE v # w
    <3>1. IsMerged(job[v]) /\ job[v] \in Alert /\ (pc[v] = "store" => job[v] \in cutouts)
      BY <1>1, <1>4, <2>2 DEF AInv, TypeOK
    <3>2. QED
      BY <1>2, <1>4, <2>2, <3>1 DEF IsMerged
  <2>3. QED
    BY <2>1, <2>2
<1>5. \A c \in alerts' : IsMerged(c)' /\ c \in cutouts'
  BY <1>1, <1>2 DEF AInv, TypeOK
<1>6. QED
  BY <1>2, <1>3, <1>4, <1>5 DEF AInv

\* The version a write leaves is above the one it found.
LEMMA BumpedGrows == \A v \in Int : v >= NoVersion => Bumped(v) > v /\ Bumped(v) >= NoVersion
  BY DEF Bumped, NoVersion

\* What a push leaves, when the worker's read is current.
LEMMA PushIsMerge ==
    ASSUME AInv, NEW w \in Worker, FastUpdate(w)
    PROVE  LET s == AlertSurvey[job[w]]
           IN  /\ job[w] \in Alert /\ s \in Survey /\ exists[s]
               /\ \A f \in Field : seenPts[w][f] = pts[s][f]
               /\ pts' = [pts EXCEPT ![s] = [f \in Field |->
                                pts[s][f] \cup AlertPoints[job[w]][f]]]
               /\ \A f \in Field : Valid(s, f) /\ Valid(s, f)'
<1> DEFINE s == AlertSurvey[job[w]]
<1>1. TypeOK /\ job[w] \in Alert /\ s \in Survey
  BY AlertAssumption DEF AInv, TypeOK, FastUpdate
<1>2. exists[s] /\ \A f \in Field : seenPts[w][f] = pts[s][f] /\ Valid(s, f)
  <2>1. ReadIsCurrent(w, s) /\ version[s] = seenVersion[w] /\ exists[s]
    BY DEF FastUpdate, VersionMatches, AInv
  <2>2. \A f \in Field : seenValid[w][f]
    BY DEF FastUpdate, Accepts
  <2>3. QED
    BY <2>1, <2>2 DEF ReadIsCurrent
<1>3. ASSUME NEW f \in Field
      PROVE  pts[s][f] \cup Prepared(w, f) = pts[s][f] \cup AlertPoints[job[w]][f]
  BY <1>2 DEF Prepared
<1>4. pts' = [pts EXCEPT ![s] = [f \in Field |-> pts[s][f] \cup AlertPoints[job[w]][f]]]
  <2>1. [f \in Field |-> pts[s][f] \cup Prepared(w, f)]
          = [f \in Field |-> pts[s][f] \cup AlertPoints[job[w]][f]]
    BY <1>3
  <2>2. QED
    BY <2>1 DEF FastUpdate, Push
<1>5. ASSUME NEW f \in Field
      PROVE  Valid(s, f)'
  <2>1. pts[s][f] \subseteq Jd /\ Prepared(w, f) \subseteq Jd
    <3>1. pts[s] \in [Field -> SUBSET Jd] /\ AlertPoints[job[w]] \in [Field -> SUBSET Jd]
      BY <1>1, AlertAssumption DEF TypeOK
    <3>2. QED
      BY <3>1 DEF Prepared
  <2>2. ascends'[s][f]
    <3>1. ascends'[s][f] = (IF Prepared(w, f) # {} /\ NeedsSort(w, f) THEN TRUE
                            ELSE /\ ascends[s][f]
                                 /\ \A p \in pts[s][f], d \in Prepared(w, f) : p <= d)
      BY <1>1 DEF FastUpdate, Push, TypeOK
    <3>2. ascends[s][f]
      BY <1>2 DEF Valid
    <3>3. ASSUME ~(Prepared(w, f) # {} /\ NeedsSort(w, f)),
                 NEW p \in pts[s][f], NEW d \in Prepared(w, f)
          PROVE  p <= d
      <4>1. ~(d < p)
        BY <1>2, <3>3 DEF NeedsSort
      <4>2. d \in Int /\ p \in Int
        BY <2>1, JdAssumption
      <4>3. QED
        BY <4>1, <4>2
    <3>4. QED
      BY <3>1, <3>2, <3>3
  <2>3. ~repeats'[s][f]
    <3>1. repeats'[s][f] = (repeats[s][f] \/ Prepared(w, f) \cap pts[s][f] # {})
      BY <1>1 DEF FastUpdate, Push, TypeOK
    <3>2. ~repeats[s][f] /\ Prepared(w, f) \cap pts[s][f] = {}
      BY <1>2 DEF Valid, Prepared
    <3>3. QED
      BY <3>1, <3>2
  <2>4. junk'[s][f] = {}
    BY <1>2 DEF FastUpdate, Push, Valid
  <2>5. job' = job
    BY DEF FastUpdate
  <2>6. QED
    BY <2>2, <2>3, <2>4, <2>5 DEF Valid
<1>6. QED
  BY <1>1, <1>2, <1>4, <1>5

\* The fallback, whose version filter matched, writes the merge of the document as it is now.
LEMMA MergeIsMerge ==
    ASSUME AInv, NEW w \in Worker, UpdateAuxFallback(w)
    PROVE  LET s == AlertSurvey[job[w]]
           IN  /\ job[w] \in Alert /\ s \in Survey /\ exists[s]
               /\ pts' = [pts EXCEPT ![s] = [f \in Field |->
                                pts[s][f] \cup AlertPoints[job[w]][f]]]
               /\ \A f \in Field : Valid(s, f)'
<1> DEFINE s == AlertSurvey[job[w]]
<1>1. TypeOK /\ job[w] \in Alert /\ s \in Survey
  BY AlertAssumption DEF AInv, TypeOK, UpdateAuxFallback
<1>2. \A f \in Field : ascends'[s][f] /\ ~repeats'[s][f] /\ junk'[s][f] = {}
  BY <1>1 DEF UpdateAuxFallback, Merged, TypeOK
<1>3. QED
  BY <1>1, <1>2 DEF UpdateAuxFallback, Merged, Valid

\* An insert writes the merge of the document that is not there yet.
LEMMA InsertIsMerge ==
    ASSUME AInv, NEW w \in Worker, InsertAux(w)
    PROVE  LET s == AlertSurvey[job[w]]
           IN  /\ job[w] \in Alert /\ s \in Survey /\ ~exists[s]
               /\ pts' = [pts EXCEPT ![s] = [f \in Field |->
                                pts[s][f] \cup AlertPoints[job[w]][f]]]
               /\ \A f \in Field : Valid(s, f) /\ Valid(s, f)'
<1> DEFINE s == AlertSurvey[job[w]]
<1>1. TypeOK /\ job[w] \in Alert /\ s \in Survey /\ ~exists[s]
  BY AlertAssumption DEF AInv, TypeOK, InsertAux
<1>2. \A f \in Field : pts[s][f] = {} /\ Valid(s, f)
  BY <1>1 DEF AInv, Unborn
<1>3. AlertPoints[job[w]] = [f \in Field |-> pts[s][f] \cup AlertPoints[job[w]][f]]
  BY <1>1, <1>2, AlertAssumption
<1>4. pts' = [pts EXCEPT ![s] = [f \in Field |-> pts[s][f] \cup AlertPoints[job[w]][f]]]
  BY <1>3 DEF InsertAux
<1>5. \A f \in Field : Valid(s, f)'
  BY <1>2 DEF InsertAux, series, Valid
<1>6. QED
  BY <1>1, <1>2, <1>4, <1>5

\* The writes of a worker keep the invariant.
LEMMA InvWrites ==
    ASSUME AInv, TypeOK', NEW w \in Worker,
           FastUpdate(w) \/ UpdateAuxFallback(w) \/ InsertAux(w)
    PROVE  AInv'
<1> DEFINE s == AlertSurvey[job[w]]
<1>1. TypeOK /\ job[w] \in Alert /\ s \in Survey
  BY AlertAssumption DEF AInv, TypeOK, FastUpdate, UpdateAuxFallback, InsertAux
<1>2. pts' = [pts EXCEPT ![s] = [f \in Field |-> pts[s][f] \cup AlertPoints[job[w]][f]]]
  BY PushIsMerge, MergeIsMerge, InsertIsMerge
<1>3. \A f \in Field : pts'[s][f] = pts[s][f] \cup AlertPoints[job[w]][f]
  BY <1>1, <1>2 DEF TypeOK
<1>4. exists' = [exists EXCEPT ![s] = TRUE]
  <2>1. CASE InsertAux(w)
    BY <2>1 DEF InsertAux
  <2>2. CASE FastUpdate(w) \/ UpdateAuxFallback(w)
    <3>1. exists[s] /\ exists' = exists
      BY <2>2 DEF FastUpdate, UpdateAuxFallback, VersionMatches
    <3>2. QED
      BY <1>1, <3>1 DEF TypeOK
  <2>3. QED
    BY <2>1, <2>2
<1>5. (exists[s] => version'[s] > version[s]) /\ version'[s] >= NoVersion
  <2>1. version[s] \in Int /\ version[s] >= NoVersion
    BY <1>1 DEF AInv, Unborn, TypeOK
  <2>2. CASE FastUpdate(w)
    <3>1. version'[s] = Bumped(version[s])
      BY <1>1, <2>2 DEF FastUpdate, VersionMatches, TypeOK
    <3>2. QED
      BY <2>1, <3>1, BumpedGrows
  <2>3. CASE UpdateAuxFallback(w)
    <3>1. version'[s] = Bumped(version[s])
      BY <1>1, <2>3 DEF UpdateAuxFallback, TypeOK
    <3>2. QED
      BY <2>1, <3>1, BumpedGrows
  <2>4. CASE InsertAux(w)
    <3>1. version'[s] = NoVersion /\ ~exists[s]
      BY <1>1, <2>4 DEF InsertAux, TypeOK
    <3>2. NoVersion >= NoVersion
      BY DEF NoVersion
    <3>3. QED
      BY <3>1, <3>2
  <2>5. QED
    BY <2>2, <2>3, <2>4
<1>6. \A o \in Survey \ {s} : /\ pts'[o] = pts[o] /\ version'[o] = version[o]
                              /\ \A f \in Field : Valid(o, f)' <=> Valid(o, f)
  <2> SUFFICES ASSUME NEW o \in Survey, o # s
               PROVE  /\ pts'[o] = pts[o] /\ version'[o] = version[o]
                      /\ \A f \in Field : Valid(o, f)' <=> Valid(o, f)
    OBVIOUS
  <2>1. pts'[o] = pts[o]
    BY <1>1, <1>2 DEF TypeOK
  <2>2. version'[o] = version[o]
    BY <1>1 DEF TypeOK, FastUpdate, UpdateAuxFallback, InsertAux
  <2>3. ascends'[o] = ascends[o] /\ repeats'[o] = repeats[o] /\ junk'[o] = junk[o]
    BY <1>1 DEF TypeOK, FastUpdate, UpdateAuxFallback, InsertAux, Push, Merged, series
  <2>4. QED
    BY <2>1, <2>2, <2>3 DEF Valid
<1>7. Written(s)
  BY <1>3, <1>4, <1>5, <1>6 DEF Written
<1>8. /\ UNCHANGED <<job, reads, cutouts, alerts>>
      /\ pc'[w] \in {"cutouts", "fallback"}
      /\ \A v \in Worker \ {w} : pc'[v] = pc[v]
  BY <1>1 DEF TypeOK, FastUpdate, UpdateAuxFallback, InsertAux, Goto
<1>9. IsMerged(job[w])'
  <2>1. job'[w] = job[w]
    BY <1>8
  <2>2. exists'[s]
    BY <1>1, <1>4 DEF TypeOK
  <2>3. QED
    BY <1>3, <2>1, <2>2 DEF IsMerged
<1>10. QED
  BY <1>1, <1>7, <1>8, <1>9, WriteKeepsInv

\* The repair task only heals.
LEMMA RepairHeals ==
    ASSUME AInv, NEW s \in Survey, Repair(s)
    PROVE  \A o \in Survey, f \in Field : Valid(o, f) => Valid(o, f)'
<1> SUFFICES ASSUME NEW o \in Survey, NEW f \in Field, Valid(o, f)
             PROVE  Valid(o, f)'
  OBVIOUS
<1>1. TypeOK
  BY DEF AInv
<1>2. CASE o = s
  BY <1>1, <1>2 DEF Repair, Valid, TypeOK
<1>3. CASE o # s
  BY <1>1, <1>3 DEF Repair, Valid, TypeOK
<1>4. QED
  BY <1>2, <1>3

\* The repair task keeps the invariant.
LEMMA InvRepair ==
    ASSUME AInv, TypeOK', RepairPhotometry
    PROVE  AInv'
<1>1. UNCHANGED <<exists, pts, version, cutouts, alerts, pc, job, reads>>
  BY DEF RepairPhotometry, Scan, Repair, RepairStops, docs
<1>2. \A o \in Survey, f \in Field : Valid(o, f) => Valid(o, f)'
  <2>1. ASSUME NEW s \in Survey, Repair(s)
        PROVE  \A o \in Survey, f \in Field : Valid(o, f) => Valid(o, f)'
    BY <2>1, RepairHeals
  <2>2. CASE RepairStops \/ \E s \in Survey : Scan(s)
    BY <2>2 DEF RepairStops, Scan, docs, Valid
  <2>3. QED
    BY <2>1, <2>2 DEF RepairPhotometry
<1>3. Unborn'
  BY <1>1, <1>2 DEF AInv, Unborn
<1>4. ASSUME NEW v \in Worker, seen'[v]
      PROVE  job'[v] \in Alert /\ ReadIsCurrent(v, AlertSurvey[job[v]])'
  <2>1. job[v] \in Alert /\ ReadIsCurrent(v, AlertSurvey[job[v]]) /\ AlertSurvey[job[v]] \in Survey
    BY <1>1, <1>4, AlertAssumption DEF AInv, reads
  <2>2. QED
    BY <1>1, <1>2, <2>1 DEF ReadIsCurrent, reads
<1>5. \A c \in Alert : IsMerged(c) => IsMerged(c)'
  BY <1>1 DEF IsMerged
<1>6. \A v \in Worker : pc'[v] \in {"cutouts", "store"} => IsMerged(job[v])'
  BY <1>1 DEF AInv, IsMerged
<1>7. \A c \in alerts' : IsMerged(c)' /\ c \in cutouts'
  BY <1>1 DEF AInv, IsMerged
<1>8. \A v \in Worker : /\ pc'[v] = "idle" => ~seen'[v]
                        /\ pc'[v] = "store" => job'[v] \in cutouts'
  BY <1>1 DEF AInv, reads
<1>9. QED
  BY <1>3, <1>4, <1>6, <1>7, <1>8 DEF AInv

----------------------------------------------------------------------------
\* The invariant holds initially.
LEMMA AInvInit == Init => AInv
<1> SUFFICES ASSUME Init PROVE AInv
  OBVIOUS
<1>1. TypeOK
  BY TypeInit
<1>2. Unborn
  <2> SUFFICES ASSUME NEW s \in Survey
               PROVE  /\ version[s] >= NoVersion
                      /\ ~exists[s] => \A f \in Field : pts[s][f] = {} /\ Valid(s, f)
    BY DEF Unborn
  <2>1. version[s] >= NoVersion
    <3>1. version[s] \in {NoVersion, 1}
      BY ZenonT(60) DEF Init
    <3>2. QED
      BY <3>1 DEF NoVersion
  <2>2. ASSUME ~exists[s], NEW f \in Field
        PROVE  pts[s][f] = {} /\ Valid(s, f)
    <3>1. pts[s][f] = {}
      BY <2>2 DEF Init
    <3>2. ascends[s][f]
      <4>1. PICK a \in [Legacy -> [Field -> BOOLEAN]] :
                ascends = [t \in Survey |-> [g \in Field |->
                             \/ \A p, q \in pts[t][g] : p = q
                             \/ a[t][g]]]
        BY DEF Init
      <4>2. ascends[s] = [g \in Field |-> \/ \A p, q \in pts[s][g] : p = q
                                         \/ a[s][g]]
        BY <4>1
      <4>3. QED
        BY <3>1, <4>2
    <3>3. ~repeats[s][f]
      <4>1. PICK r \in [Legacy -> [Field -> BOOLEAN]] :
                repeats = [t \in Survey |-> [g \in Field |->
                             pts[t][g] # {} /\ r[t][g]]]
        BY DEF Init
      <4>2. repeats[s] = [g \in Field |-> pts[s][g] # {} /\ r[s][g]]
        BY <4>1
      <4>3. QED
        BY <3>1, <4>2
    <3>4. junk[s][f] = {}
      BY <2>2 DEF Init
    <3>5. QED
      BY <3>1, <3>2, <3>3, <3>4 DEF Valid
  <2>3. QED
    BY <2>1, <2>2
<1>3. QED
  BY <1>1, <1>2 DEF Init, AInv

\* Every step keeps the invariant.
LEMMA AInvNext == AInv /\ [Next]_vars => AInv'
<1> SUFFICES ASSUME AInv, [Next]_vars PROVE AInv'
  OBVIOUS
<1>1. TypeOK'
  BY TypeNext DEF AInv
<1>2. ASSUME NEW w \in Worker, ProcessAlert(w)
      PROVE  AInv'
  BY <1>1, <1>2, InvQuiet, InvRead, InvWrites DEF ProcessAlert
<1>3. CASE RepairPhotometry
  BY <1>1, <1>3, InvRepair
<1>4. CASE UNCHANGED vars
  <2>1. /\ UNCHANGED Series /\ UNCHANGED <<pc, job, reads, cutouts, alerts>>
    BY <1>4 DEF vars, docs, series, Series
  <2>2. Unborn'
    BY <2>1, QuietStep
  <2>3. \A w \in Worker : seen'[w] => /\ job'[w] \in Alert
                                      /\ ReadIsCurrent(w, AlertSurvey[job[w]])'
    BY <2>1 DEF AInv, ReadIsCurrent, Valid, Series, reads
  <2>4. QED
    BY <1>1, <2>1, <2>2, <2>3 DEF AInv, IsMerged, Series, reads
<1>5. QED
  BY <1>2, <1>3, <1>4 DEF Next

\* AInv is an inductive invariant of ingestion into the aux documents.
THEOREM AuxInvariant == Spec => []AInv
  BY AInvInit, AInvNext, PTL DEF Spec

\* A stored alert has all its photometry in its object's document, and its
\* cutouts: "an alert in the database implies its aux and cutouts are there too".
THEOREM NoPointLost == Spec => []StoredIsWhole
<1>1. AInv => StoredIsWhole
  BY DEF AInv, StoredIsWhole, IsMerged
<1>2. QED
  BY <1>1, AuxInvariant, PTL

\* What every step does to the series of the documents.
LEMMA SeriesStep ==
    ASSUME AInv, [Next]_vars
    PROVE  \/ /\ UNCHANGED pts
              /\ \A s \in Survey, f \in Field : Valid(s, f) => Valid(s, f)'
           \/ \E w \in Worker : FastUpdate(w) \/ UpdateAuxFallback(w) \/ InsertAux(w)
<1>1. ASSUME NEW w \in Worker, ProcessAlert(w),
             ~(FastUpdate(w) \/ UpdateAuxFallback(w) \/ InsertAux(w))
      PROVE  UNCHANGED Series
  BY <1>1 DEF ProcessAlert, Take, CheckAlertExists, GetSurveyMatches, LinkCounterparts,
              GetExistingAux, FastUpdateFails, InsertAuxExists, InsertCutouts,
              InsertAlert, Fail, docs, series, Series
<1>2. ASSUME RepairPhotometry
      PROVE  /\ UNCHANGED pts
             /\ \A s \in Survey, f \in Field : Valid(s, f) => Valid(s, f)'
  <2>1. ASSUME NEW s \in Survey, Repair(s)
        PROVE  /\ UNCHANGED pts
               /\ \A o \in Survey, f \in Field : Valid(o, f) => Valid(o, f)'
    BY <2>1, RepairHeals DEF Repair
  <2>2. CASE RepairStops \/ \E s \in Survey : Scan(s)
    BY <2>2 DEF RepairStops, Scan, docs, Valid
  <2>3. QED
    BY <1>2, <2>1, <2>2 DEF RepairPhotometry
<1>3. ASSUME UNCHANGED vars PROVE UNCHANGED Series
  BY <1>3 DEF vars, docs, Series
<1>4. ASSUME UNCHANGED Series
      PROVE  /\ UNCHANGED pts
             /\ \A s \in Survey, f \in Field : Valid(s, f) => Valid(s, f)'
  BY <1>4 DEF Series, Valid
<1>5. QED
  BY <1>1, <1>2, <1>3, <1>4 DEF Next

\* A write leaves every series of its document strictly increasing, and the
\* other documents as they were.
LEMMA WriteStep ==
    ASSUME AInv, NEW w \in Worker, FastUpdate(w) \/ UpdateAuxFallback(w) \/ InsertAux(w)
    PROVE  \A o \in Survey :
              \/ \A f \in Field : Valid(o, f)'
              \/ pts'[o] = pts[o] /\ \A f \in Field : Valid(o, f)' <=> Valid(o, f)
<1> SUFFICES ASSUME NEW o \in Survey
             PROVE  \/ \A f \in Field : Valid(o, f)'
                    \/ /\ pts'[o] = pts[o]
                       /\ \A f \in Field : Valid(o, f)' <=> Valid(o, f)
  OBVIOUS
<1> DEFINE s == AlertSurvey[job[w]]
<1>1. TypeOK /\ job' = job /\ s \in Survey
  BY AlertAssumption DEF AInv, TypeOK, FastUpdate, UpdateAuxFallback, InsertAux
<1>2. \A f \in Field : Valid(s, f)'
  BY PushIsMerge, MergeIsMerge, InsertIsMerge
<1>3. CASE o = s
  BY <1>1, <1>2, <1>3 DEF Valid
<1>4. CASE o # s
  <2>1. pts'[o] = pts[o]
    BY <1>1, <1>4 DEF TypeOK, FastUpdate, UpdateAuxFallback, InsertAux, Push, Merged
  <2>2. ascends'[o] = ascends[o] /\ repeats'[o] = repeats[o] /\ junk'[o] = junk[o]
    BY <1>1, <1>4 DEF TypeOK, FastUpdate, UpdateAuxFallback, InsertAux, Push, Merged, series
  <2>3. QED
    BY <2>1, <2>2 DEF Valid
<1>5. QED
  BY <1>3, <1>4

\* No step, of any worker or of the repair task, makes a strictly increasing
\* series anything else: this is what the version in the filter is for.
THEOREM SeriesStayOrdered == Spec => ValidStaysValid
<1>1. ASSUME AInv, [Next]_vars
      PROVE  \A s \in Survey, f \in Field : Valid(s, f) => Valid(s, f)'
  BY <1>1, SeriesStep, WriteStep
<1>2. QED
  BY <1>1, AuxInvariant, PTL DEF Spec, ValidStaysValid

\* A series that was written to is strictly increasing.
THEOREM SeriesAreHealed == Spec => WrittenIsValid
<1>1. ASSUME AInv, [Next]_vars
      PROVE  \A s \in Survey : pts'[s] # pts[s] => \A f \in Field : Valid(s, f)'
  BY <1>1, SeriesStep, WriteStep
<1>2. QED
  BY <1>1, AuxInvariant, PTL DEF Spec, WrittenIsValid

\* Ingestion implements ObjectStore: every write brings the whole photometry of
\* one alert, and an alert is stored when its photometry is there.
THEOREM ImplementsStore == Spec => StoreSpec
<1>1. Init => Store!Init
  BY DEF Init, Store!Init
<1>2. ASSUME AInv, [Next]_vars
      PROVE  [Store!Next]_(Store!store)
  <2>1. ASSUME NEW w \in Worker, FastUpdate(w) \/ UpdateAuxFallback(w) \/ InsertAux(w)
        PROVE  Store!Next
    <3>1. job[w] \in Alert
      BY <1>2, <2>1 DEF AInv, TypeOK, FastUpdate, UpdateAuxFallback, InsertAux
    <3>2. Store!Merge(job[w])
      <4>1. alerts' = alerts
        BY <2>1 DEF FastUpdate, UpdateAuxFallback, InsertAux
      <4>2. pts' = [pts EXCEPT ![AlertSurvey[job[w]]] = [f \in Field |->
                       pts[AlertSurvey[job[w]]][f] \cup AlertPoints[job[w]][f]]]
        BY <1>2, <2>1, PushIsMerge, MergeIsMerge, InsertIsMerge
      <4>3. QED
        BY <4>1, <4>2 DEF Store!Merge
    <3>3. QED
      BY <3>1, <3>2 DEF Store!Next
  <2>2. ASSUME NEW w \in Worker, InsertAlert(w)
        PROVE  Store!Next
    <3>1. job[w] \in Alert /\ IsMerged(job[w])
      BY <1>2, <2>2 DEF AInv, TypeOK, InsertAlert
    <3>2. alerts' = alerts \cup {job[w]} /\ pts' = pts
      BY <2>2 DEF InsertAlert, docs
    <3>3. QED
      BY <3>1, <3>2 DEF Store!Next, Store!Store, IsMerged
  <2>3. ASSUME NEW w \in Worker, ProcessAlert(w), ~InsertAlert(w),
               ~(FastUpdate(w) \/ UpdateAuxFallback(w) \/ InsertAux(w))
        PROVE  UNCHANGED <<pts, alerts>>
    BY <2>3 DEF ProcessAlert, Take, CheckAlertExists, GetSurveyMatches, LinkCounterparts,
                GetExistingAux, FastUpdateFails, InsertAuxExists, InsertCutouts, Fail, docs
  <2>4. CASE RepairPhotometry
    BY <2>4 DEF RepairPhotometry, Scan, Repair, RepairStops, docs, Store!store
  <2>5. CASE UNCHANGED vars
    BY <2>5 DEF vars, docs, Store!store
  <2>6. QED
    BY <1>2, <2>1, <2>2, <2>3, <2>4, <2>5 DEF Next, Store!store
<1>3. QED
  BY <1>1, <1>2, AuxInvariant, PTL DEF Spec, StoreSpec, Store!Spec
============================================================================
