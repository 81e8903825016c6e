----------------------------- MODULE AuxUpdate -----------------------------
(***************************************************************************)
(* How the alert workers of the four surveys write the documents of        *)
(* <survey>_alerts_aux (process_alert and update_aux in                    *)
(* src/src/alert/{ztf,lsst,decam,winter}.rs, and what they share in        *)
(* src/src/alert/base.rs), next to the repair task that rewrites the same  *)
(* documents (src/src/tasks/repair_photometry.rs).                         *)
(*                                                                         *)
(* Every survey has one object, and the objects lie on one another, so     *)
(* that each survey's worker finds the objects of the others.  A document  *)
(* holds one time series per Field.  Of a series the model keeps the set   *)
(* of its times and what validate_monotonic_increasing asks of it: whether *)
(* they ascend, whether one occurs twice, and whether there are entries    *)
(* with a non-finite or a non-numeric time.                                *)
(***************************************************************************)
EXTENDS Integers, FiniteSets

CONSTANTS
    Worker,
    Alert,
    AlertSurvey,        \* AlertSurvey[c]: the survey of alert c
    AlertPoints,        \* AlertPoints[c][f]: the times alert c brings
    AlertDesignation,   \* AlertDesignation[c]: the MPC designation it names
    Field,
    Jd,                 \* finite times
    Legacy,             \* surveys whose object may have a document from before
    LegacyJd,           \* the times it may hold
    NoDesignation,
    NoAlert,
    MaxTries,           \* bound: how often an alert is taken up
    MaxRepairs          \* bound: how often the repair task looks at a document

Survey == {"ZTF", "LSST", "DECAM", "WINTER"}
Junk == {"non-finite", "non-numeric"}
NoVersion == -1

ASSUME AlertAssumption ==
    /\ AlertSurvey \in [Alert -> Survey]
    /\ AlertPoints \in [Alert -> [Field -> SUBSET Jd]]
    /\ AlertDesignation \in [Alert -> STRING \cup {NoDesignation}]
    /\ NoAlert \notin Alert
ASSUME JdAssumption == Jd \subseteq Int /\ LegacyJd \subseteq Jd
ASSUME BoundAssumption == MaxTries \in Nat /\ MaxRepairs \in Nat

VARIABLES
    \* The aux document of a survey's object: is it there, its series, its
    \* version, the surveys its aliases name.
    exists, pts, ascends, repeats, junk, version, aliases,
    designation,        \* of the LSST object
    cutouts, alerts,    \* candids with stored cutouts, candids stored
    pc, job,            \* the workers and the alert each works on
    found,              \* what a worker's get_survey_matches returned
    seen,               \* was there a document when it read the aux
    seenPts, seenValid, seenVersion,
    tries,
    rpc, broken,        \* the repair task: the document it has scanned, and
                        \* the fields it found broken
    repairs

docs == <<exists, pts, ascends, repeats, junk, version, aliases, designation>>
series == <<ascends, repeats, junk>>
reads == <<seen, seenPts, seenValid, seenVersion>>
repair == <<rpc, broken, repairs>>
vars == <<docs, cutouts, alerts, pc, job, found, reads, tries, repair>>

Valid(s, f) == ascends[s][f] /\ ~repeats[s][f] /\ junk[s][f] = {}

\* The surveys whose objects get_survey_matches looks for.
Counterparts(s) == CASE s = "ZTF" -> {"LSST", "DECAM"}
                     [] s = "LSST" -> {"ZTF", "DECAM"}
                     [] OTHER -> {"ZTF", "LSST"}

\* The order of the reads in process_alert; only LSST reads the aux document
\* before it looks whether the alert exists.
FirstStep(s) == IF s = "LSST" THEN "read" ELSE "check"
AfterRead(s) == IF s = "LSST" THEN "check" ELSE "update"
AfterMatches(s) == CASE s = "LSST" -> "update"
                     [] s = "DECAM" -> "link ZTF"
                     [] OTHER -> "read"

Init ==
    /\ \E old \in SUBSET Legacy : exists = [s \in Survey |-> s \in old]
    /\ \E p \in [Legacy -> [Field -> SUBSET LegacyJd]] :
         pts = [s \in Survey |-> IF exists[s] THEN p[s] ELSE [f \in Field |-> {}]]
    /\ \E a \in [Legacy -> [Field -> BOOLEAN]] :
         ascends = [s \in Survey |-> [f \in Field |->
                      \/ \A p, q \in pts[s][f] : p = q
                      \/ a[s][f]]]
    /\ \E r \in [Legacy -> [Field -> BOOLEAN]] :
         repeats = [s \in Survey |-> [f \in Field |->
                      pts[s][f] # {} /\ r[s][f]]]
    /\ \E j \in [Legacy -> [Field -> SUBSET Junk]] :
         junk = [s \in Survey |-> [f \in Field |->
                   IF exists[s] THEN j[s][f] ELSE {}]]
    /\ \E v \in [Legacy -> {NoVersion, 1}] :
         version = [s \in Survey |-> IF exists[s] THEN v[s] ELSE NoVersion]
    /\ aliases = [s \in Survey |-> {}]
    /\ designation = NoDesignation
    /\ cutouts = {} /\ alerts = {}
    /\ pc = [w \in Worker |-> "idle"]
    /\ job = [w \in Worker |-> NoAlert]
    /\ found = [w \in Worker |-> {}]
    /\ seen = [w \in Worker |-> FALSE]
    /\ seenPts = [w \in Worker |-> [f \in Field |-> {}]]
    /\ seenValid = [w \in Worker |-> [f \in Field |-> TRUE]]
    /\ seenVersion = [w \in Worker |-> NoVersion]
    /\ tries = [c \in Alert |-> 0]
    /\ rpc = "idle" /\ broken = {} /\ repairs = 0

----------------------------------------------------------------------------
\* process_alert: the reads.

Goto(w, step) == pc' = [pc EXCEPT ![w] = step]

\* A packet comes, for the first time or again.
Take(w, c) ==
    /\ pc[w] = "idle"
    /\ tries[c] < MaxTries
    /\ tries' = [tries EXCEPT ![c] = @ + 1]
    /\ job' = [job EXCEPT ![w] = c]
    /\ Goto(w, FirstStep(AlertSurvey[c]))
    /\ UNCHANGED <<docs, cutouts, alerts, found, reads, repair>>

\* process_alert returns, and with it goes what it had read.
Finish(w) == /\ Goto(w, "idle")
             /\ job' = [job EXCEPT ![w] = NoAlert]
             /\ found' = [found EXCEPT ![w] = {}]
             /\ seen' = [seen EXCEPT ![w] = FALSE]
             /\ seenPts' = [seenPts EXCEPT ![w] = [f \in Field |-> {}]]
             /\ seenValid' = [seenValid EXCEPT ![w] = [f \in Field |-> TRUE]]
             /\ seenVersion' = [seenVersion EXCEPT ![w] = NoVersion]

\* Any awaited call returns an error, or the worker dies.
Fail(w) ==
    /\ pc[w] # "idle"
    /\ Finish(w)
    /\ UNCHANGED <<docs, cutouts, alerts, tries, repair>>

CheckAlertExists(w) ==
    /\ pc[w] = "check"
    /\ IF job[w] \in alerts THEN Finish(w)
                            ELSE Goto(w, "matches") /\ UNCHANGED <<job, found, reads>>
    /\ UNCHANGED <<docs, cutouts, alerts, tries, repair>>

\* A query that fails is logged and counts as no match.
GetSurveyMatches(w) ==
    LET s == AlertSurvey[job[w]]
    IN  /\ pc[w] = "matches"
        /\ \E failed \in SUBSET Counterparts(s) :
             found' = [found EXCEPT
                         ![w] = {o \in Counterparts(s) \ failed : exists[o]}]
        /\ Goto(w, AfterMatches(s))
        /\ UNCHANGED <<docs, cutouts, alerts, job, reads, tries, repair>>

\* The counterpart, ZTF's and then LSST's, that has no DECam alias gets this
\* one; the version of its document stays.
LinkCounterparts(w) ==
    \E s \in {"ZTF", "LSST"} :
        /\ pc[w] = (IF s = "ZTF" THEN "link ZTF" ELSE "link LSST")
        /\ aliases' = IF s \in found[w]
                      THEN [aliases EXCEPT ![s] = @ \cup {"DECAM"}] ELSE aliases
        /\ Goto(w, IF s = "ZTF" THEN "link LSST" ELSE "read")
        /\ UNCHANGED <<exists, pts, series, version, designation, cutouts,
                       alerts, job, found, reads, tries, repair>>

\* A document with a non-numeric time does not deserialize: the call fails.
GetExistingAux(w) ==
    LET s == AlertSurvey[job[w]]
    IN  /\ pc[w] = "read"
        /\ \A f \in Field : "non-numeric" \notin junk[s][f]
        /\ seen' = [seen EXCEPT ![w] = exists[s]]
        /\ seenPts' = [seenPts EXCEPT ![w] = pts[s]]
        /\ seenValid' = [seenValid EXCEPT ![w] = [f \in Field |-> Valid(s, f)]]
        /\ seenVersion' = [seenVersion EXCEPT ![w] = version[s]]
        /\ Goto(w, AfterRead(s))
        /\ UNCHANGED <<docs, cutouts, alerts, job, found, tries, repair>>

----------------------------------------------------------------------------
\* process_alert: the writes.

\* A bug: only times after the last one are taken for new.
PreparedNewer(w, f) == {d \in AlertPoints[job[w]][f] : \A p \in seenPts[w][f] : p < d}

\* prepare_timeseries_update, for a series that was valid when it was read: the
\* times to push, and whether the push has to sort.
Prepared(w, f) == AlertPoints[job[w]][f] \ seenPts[w][f]
NeedsSort(w, f) == \E d \in Prepared(w, f), p \in seenPts[w][f] : d < p

\* $push of prepared times to the series as it is now.
Push(w, s) ==
    /\ pts' = [pts EXCEPT ![s] = [f \in Field |-> pts[s][f] \cup Prepared(w, f)]]
    /\ ascends' = [ascends EXCEPT ![s] = [f \in Field |->
                     IF Prepared(w, f) # {} /\ NeedsSort(w, f) THEN TRUE
                     ELSE /\ ascends[s][f]
                          /\ \A p \in pts[s][f], d \in Prepared(w, f) : p <= d]]
    /\ repeats' = [repeats EXCEPT ![s] = [f \in Field |->
                     repeats[s][f] \/ Prepared(w, f) \cap pts[s][f] # {}]]
    /\ UNCHANGED junk

\* update_timeseries_op: concatenate, keep the first of each time, drop what is
\* no finite number, sort.
Merged(s, new) ==
    /\ pts' = [pts EXCEPT ![s] = [f \in Field |-> pts[s][f] \cup new[f]]]
    /\ ascends' = [ascends EXCEPT ![s] = [f \in Field |-> TRUE]]
    /\ repeats' = [repeats EXCEPT ![s] = [f \in Field |-> FALSE]]
    /\ junk' = [junk EXCEPT ![s] = [f \in Field |-> {}]]

\* Only a designation that is there is ever written.
SetDesignation(c) ==
    designation' = IF AlertSurvey[c] = "LSST" /\ AlertDesignation[c] # NoDesignation
                   THEN AlertDesignation[c] ELSE designation

Bumped(v) == (IF v = NoVersion THEN 0 ELSE v) + 1

SetAliases(w, s) == aliases' = [aliases EXCEPT ![s] = found[w]]

\* A bug: the filter names only the document.
VersionUnchecked(w, s) == exists[s]

\* finalize_aux_update: the filter asks for the version that was read.
VersionMatches(w, s) == exists[s] /\ version[s] = seenVersion[w]

\* prepare_timeseries_update accepts only series that were valid when read.
Accepts(w) == \A f \in Field : seenValid[w][f]

\* The write that update_aux_inner ends in.  Its reply may be lost, in which
\* case update_aux takes the fallback although the write was applied.
FastUpdate(w) ==
    LET s == AlertSurvey[job[w]]
    IN  /\ pc[w] = "update" /\ seen[w]
        /\ Accepts(w)
        /\ VersionMatches(w, s)
        /\ Push(w, s)
        /\ version' = [version EXCEPT ![s] = Bumped(seenVersion[w])]
        /\ SetAliases(w, s)
        /\ SetDesignation(job[w])
        /\ \E reply \in {"cutouts", "fallback"} : Goto(w, reply)
        /\ UNCHANGED <<exists, cutouts, alerts, job, found, reads, tries, repair>>

\* InvalidTimeseriesInput, ConcurrentAuxUpdate or another error of the fast path.
FastUpdateFails(w) ==
    /\ pc[w] = "update" /\ seen[w]
    /\ Goto(w, "fallback")
    /\ UNCHANGED <<docs, cutouts, alerts, job, found, reads, tries, repair>>

\* db_only_aux_update: one aggregation update in the database.
UpdateAuxFallback(w) ==
    LET s == AlertSurvey[job[w]]
    IN  /\ pc[w] = "fallback"
        /\ exists[s]
        /\ Merged(s, AlertPoints[job[w]])
        /\ version' = [version EXCEPT ![s] = Bumped(version[s])]
        /\ SetAliases(w, s)
        /\ SetDesignation(job[w])
        /\ Goto(w, "cutouts")
        /\ UNCHANGED <<exists, cutouts, alerts, job, found, reads, tries, repair>>

\* insert_aux of a new document, which carries no version.
InsertAux(w) ==
    LET s == AlertSurvey[job[w]]
    IN  /\ pc[w] = "update" /\ ~seen[w]
        /\ ~exists[s]
        /\ exists' = [exists EXCEPT ![s] = TRUE]
        /\ pts' = [pts EXCEPT ![s] = AlertPoints[job[w]]]
        /\ version' = [version EXCEPT ![s] = NoVersion]
        /\ SetAliases(w, s)
        /\ SetDesignation(job[w])
        /\ Goto(w, "cutouts")
        /\ UNCHANGED <<series, cutouts, alerts, job, found, reads, tries, repair>>

\* A bug: a duplicate key is taken for success.
InsertAuxExistsIgnored(w) ==
    /\ pc[w] = "update" /\ ~seen[w]
    /\ exists[AlertSurvey[job[w]]]
    /\ Goto(w, "cutouts")
    /\ UNCHANGED <<docs, cutouts, alerts, job, found, reads, tries, repair>>

\* insert_aux meets a duplicate key: another worker was first.
InsertAuxExists(w) ==
    /\ pc[w] = "update" /\ ~seen[w]
    /\ exists[AlertSurvey[job[w]]]
    /\ Goto(w, "fallback")
    /\ UNCHANGED <<docs, cutouts, alerts, job, found, reads, tries, repair>>

InsertCutouts(w) ==
    /\ pc[w] = "cutouts"
    /\ cutouts' = cutouts \cup {job[w]}
    /\ Goto(w, "store")
    /\ UNCHANGED <<docs, alerts, job, found, reads, tries, repair>>

\* format_and_insert_alert; a duplicate key is Exists.
InsertAlert(w) ==
    /\ pc[w] = "store"
    /\ alerts' = alerts \cup {job[w]}
    /\ Finish(w)
    /\ UNCHANGED <<docs, cutouts, tries, repair>>

----------------------------------------------------------------------------
\* The repair task.

\* inspect_series on a document the cursor returned; the update waits in a batch.
Scan(s) ==
    /\ rpc = "idle" /\ exists[s]
    /\ repairs < MaxRepairs
    /\ repairs' = repairs + 1
    /\ broken' = {f \in Field : ~Valid(s, f)}
    /\ rpc' = IF broken' = {} THEN "idle" ELSE s
    /\ UNCHANGED <<docs, cutouts, alerts, pc, job, found, reads, tries>>

\* flush_batch: update_timeseries_op with no new points, version untouched.
Repair(s) ==
    /\ rpc = s
    /\ ascends' = [ascends EXCEPT ![s] = [f \in Field |-> ascends[s][f] \/ f \in broken]]
    /\ repeats' = [repeats EXCEPT ![s] = [f \in Field |-> repeats[s][f] /\ f \notin broken]]
    /\ junk' = [junk EXCEPT ![s] = [f \in Field |-> IF f \in broken THEN {} ELSE junk[s][f]]]
    /\ rpc' = "idle" /\ broken' = {}
    /\ UNCHANGED <<exists, pts, version, aliases, designation, cutouts, alerts,
                   pc, job, found, reads, tries, repairs>>

\* dry_run, or a run that is canceled or dies before it flushes its batch.
RepairStops ==
    /\ rpc # "idle"
    /\ rpc' = "idle" /\ broken' = {}
    /\ UNCHANGED <<docs, cutouts, alerts, pc, job, found, reads, tries, repairs>>

ProcessAlert(w) ==
    \/ \E c \in Alert : Take(w, c)
    \/ CheckAlertExists(w) \/ GetSurveyMatches(w) \/ LinkCounterparts(w)
    \/ GetExistingAux(w)
    \/ FastUpdate(w) \/ FastUpdateFails(w) \/ UpdateAuxFallback(w)
    \/ InsertAux(w) \/ InsertAuxExists(w)
    \/ InsertCutouts(w) \/ InsertAlert(w) \/ Fail(w)

RepairPhotometry == (\E s \in Survey : Scan(s) \/ Repair(s)) \/ RepairStops

Next == (\E w \in Worker : ProcessAlert(w)) \/ RepairPhotometry

Spec == Init /\ [][Next]_vars

----------------------------------------------------------------------------
TypeOK ==
    /\ exists \in [Survey -> BOOLEAN]
    /\ pts \in [Survey -> [Field -> SUBSET Jd]]
    /\ ascends \in [Survey -> [Field -> BOOLEAN]]
    /\ repeats \in [Survey -> [Field -> BOOLEAN]]
    /\ junk \in [Survey -> [Field -> SUBSET Junk]]
    /\ version \in [Survey -> Int]
    /\ aliases \in [Survey -> SUBSET Survey]
    /\ cutouts \subseteq Alert /\ alerts \subseteq Alert
    /\ pc \in [Worker -> {"idle", "check", "matches", "link ZTF", "link LSST",
                          "read", "update", "fallback", "cutouts", "store"}]
    /\ job \in [Worker -> Alert \cup {NoAlert}]
    /\ \A w \in Worker : pc[w] # "idle" => job[w] \in Alert
    /\ found \in [Worker -> SUBSET Survey]
    /\ seen \in [Worker -> BOOLEAN]
    /\ seenPts \in [Worker -> [Field -> SUBSET Jd]]
    /\ seenValid \in [Worker -> [Field -> BOOLEAN]]
    /\ seenVersion \in [Worker -> Int]
    /\ tries \in [Alert -> Nat]
    /\ rpc \in Survey \cup {"idle"} /\ broken \subseteq Field

\* "Inserted last: an alert in the database implies its aux and cutouts are
\* there too" (ztf.rs, lsst.rs, decam.rs, winter.rs): every time of every stored
\* alert is in the series of its object, whatever the workers that merged into
\* the same document meanwhile had read.
StoredIsWhole ==
    \A c \in alerts :
        /\ c \in cutouts
        /\ exists[AlertSurvey[c]]
        /\ \A f \in Field : AlertPoints[c][f] \subseteq pts[AlertSurvey[c]][f]

\* A series that is strictly increasing stays so: no push that was prepared
\* against a document that has changed appends out of order or twice
\* (the version in the filter of finalize_aux_update).
ValidStaysValid ==
    [][\A s \in Survey, f \in Field : Valid(s, f) => Valid(s, f)']_vars

\* A series that a worker has written is strictly increasing, also when it was
\* not before: the fallback and the repair task heal, the fast path does not
\* touch a series that is broken.
WrittenIsValid ==
    [][\A s \in Survey : pts'[s] # pts[s] => \A f \in Field : Valid(s, f)']_vars

\* What the workers do with the documents is what ObjectStore promises.
Store == INSTANCE ObjectStore WITH points <- pts, stored <- alerts
StoreSpec == Store!Spec

----------------------------------------------------------------------------
\* The inductive invariant: a document that is not there is empty; what a worker
\* has read is still in the document, and is all of it while the version is the
\* one it read; what a worker has merged is there until it stores the alert.

Unborn == \A s \in Survey : /\ version[s] >= NoVersion
                            /\ ~exists[s] => \A f \in Field : pts[s][f] = {} /\ Valid(s, f)

ReadIsCurrent(w, s) ==
    /\ exists[s]
    /\ seenVersion[w] <= version[s]
    /\ \A f \in Field : seenPts[w][f] \subseteq pts[s][f]
    /\ seenVersion[w] = version[s] =>
         \A f \in Field : /\ seenPts[w][f] = pts[s][f]
                          /\ seenValid[w][f] => Valid(s, f)

IsMerged(c) == /\ exists[AlertSurvey[c]]
               /\ \A f \in Field : AlertPoints[c][f] \subseteq pts[AlertSurvey[c]][f]

AInv ==
    /\ TypeOK
    /\ Unborn
    /\ \A w \in Worker : seen[w] => /\ job[w] \in Alert
                                    /\ ReadIsCurrent(w, AlertSurvey[job[w]])
    /\ \A w \in Worker : pc[w] = "idle" => ~seen[w]
    /\ \A w \in Worker : pc[w] \in {"cutouts", "store"} => IsMerged(job[w])
    /\ \A w \in Worker : pc[w] = "store" => job[w] \in cutouts
    /\ \A c \in alerts : IsMerged(c) /\ c \in cutouts
============================================================================
