------------------------ MODULE CrossmatchReprocess ------------------------
(***************************************************************************)
(* The task that recomputes the cross-matches of a survey's objects with   *)
(* one catalog (src/src/tasks/reprocess_crossmatch.rs), in its three       *)
(* forms: driven by the catalog, which is resumable, driven by the         *)
(* objects, and the removal of a catalog; next to the alert workers that   *)
(* go on inserting objects.                                                *)
(*                                                                         *)
(* A page of catalog rows is one element of Page, in the order of _id;     *)
(* Near says which objects have a row of which page within its radius.     *)
(***************************************************************************)
EXTENDS Integers, FiniteSets

CONSTANTS
    Object,
    Old,                \* objects that are there at first
    NPages,
    Near,               \* Near \subseteq Object \X (1..NPages)
    Worker,
    NoField, NoPage, NotYet,
    MaxRuns,            \* bound: runs of the task
    MaxBreaks           \* bound: errors, kills and deployments

Page == 1..NPages

ASSUME CrossmatchAssumption ==
    /\ Old \subseteq Object /\ NPages \in Nat /\ Near \subseteq Object \X Page
    /\ NoPage \notin Page /\ (\A s \in SUBSET Page : NoField # s) /\ NotYet \notin Nat
    /\ MaxRuns \in Nat /\ MaxBreaks \in Nat

VARIABLES
    declared,           \* does the deployed configuration name the catalog
    created,            \* created_at of an object, by the clock of run starts
    inserted,           \* objects in alerts_aux
    crossMatches,       \* cross_matches.<catalog> of an object
    runStatus, runStart, checkpoint,    \* the state document
    buffer, grouped,    \* the two working collections
    step, canceled, skipEmpty,          \* the run
    startedAt,          \* run_start_jd of the run
    fed, channel,       \* the producer's last_id, the pages on their way,
    tracked,            \* and those the tracker has as done
    holds, found, phase,                \* the workers
    todo,               \* objects the shards of this step have still to do
    clock, runs, breaks,
    partial,            \* was the producer stopped short by a cancelation
    raced,              \* objects stamped before, inserted after the run's start
    restartTorn         \* did a restart end between its drop and its new state

aux == <<declared, created, inserted, crossMatches>>
stateDoc == <<runStatus, runStart, checkpoint>>
working == <<buffer, grouped>>
run == <<step, canceled, skipEmpty, startedAt>>
producer == <<fed, channel, tracked>>
workers == <<holds, found, phase>>
bounds == <<clock, runs, breaks>>
pastOfRun == <<partial, raced, restartTorn>>
crossmatchVars == <<aux, stateDoc, working, run, producer, workers, todo, bounds, pastOfRun>>

Matches(o) == {p \in Page : <<o, p>> \in Near}

CrossmatchInit ==
    /\ declared = TRUE
    /\ created = [o \in Object |-> IF o \in Old THEN 0 ELSE NotYet]
    /\ inserted = Old
    /\ crossMatches \in [Object -> {NoField, {}, Page}]
    /\ \A o \in Object \ Old : crossMatches[o] = NoField
    /\ runStatus = "none" /\ runStart = 0 /\ checkpoint = 0
    /\ buffer = {} /\ grouped = {}
    /\ step = "idle" /\ canceled = FALSE /\ skipEmpty = FALSE /\ startedAt = 0
    /\ fed = 0 /\ channel = {} /\ tracked = {}
    /\ holds = [w \in Worker |-> NoPage]
    /\ found = [w \in Worker |-> {}]
    /\ phase = [w \in Worker |-> "recv"]
    /\ todo = {}
    /\ clock = 0 /\ runs = 0 /\ breaks = 0
    /\ partial = FALSE /\ raced = {} /\ restartTorn = FALSE

----------------------------------------------------------------------------
\* The alert workers: process_alert takes the time, cross-matches, and inserts.

Stamp(o) ==
    /\ created[o] = NotYet
    /\ created' = [created EXCEPT ![o] = clock]
    /\ crossMatches' = [crossMatches EXCEPT ![o] = IF declared THEN Matches(o) ELSE NoField]
    /\ UNCHANGED <<declared, inserted, stateDoc, working, run, producer, workers, todo, bounds,
                   pastOfRun>>

InsertObject(o) ==
    /\ o \notin inserted /\ created[o] # NotYet
    /\ inserted' = inserted \cup {o}
    /\ raced' = IF created[o] < clock THEN raced \cup {o} ELSE raced
    /\ UNCHANGED <<declared, created, crossMatches, stateDoc, working, run, producer, workers,
                   todo, bounds, partial, restartTorn>>

----------------------------------------------------------------------------
\* run_catalog_driven.

ResetRun ==
    /\ channel' = {} /\ tracked' = {}
    /\ holds' = [w \in Worker |-> NoPage]
    /\ found' = [w \in Worker |-> {}]
    /\ phase' = [w \in Worker |-> "recv"]

Resumable == runStatus \in {"matching", "committing"}

\* Without restart, load_catalog_run continues what is there.
BeginResume(skip) ==
    /\ step = "idle" /\ runs < MaxRuns /\ declared /\ Resumable
    /\ runs' = runs + 1
    /\ step' = IF runStatus = "committing" THEN "group" ELSE "match"
    /\ canceled' = FALSE /\ skipEmpty' = skip
    /\ startedAt' = runStart
    /\ fed' = checkpoint
    /\ ResetRun
    /\ UNCHANGED <<aux, stateDoc, working, todo, clock, breaks, pastOfRun>>

\* A fresh run first drops the working collections.
BeginFresh(restart, skip) ==
    /\ step = "idle" /\ runs < MaxRuns /\ declared
    /\ restart \/ ~Resumable
    /\ runs' = runs + 1
    /\ buffer' = {} /\ grouped' = {}
    /\ restartTorn' = (restartTorn \/ Resumable)
    /\ step' = "fresh"
    /\ canceled' = FALSE /\ skipEmpty' = skip
    /\ UNCHANGED <<aux, stateDoc, startedAt, producer, workers, todo, clock, breaks,
                   partial, raced>>

SetFreshState ==
    /\ step = "fresh"
    /\ clock' = clock + 1
    /\ runStatus' = "matching" /\ runStart' = clock' /\ checkpoint' = 0
    /\ startedAt' = clock'
    /\ fed' = 0
    /\ ResetRun
    /\ step' = "match"
    /\ partial' = FALSE /\ restartTorn' = FALSE /\ raced' = {}
    /\ UNCHANGED <<aux, working, canceled, skipEmpty, todo, runs, breaks>>

\* match_catalog: the producer.
Feed ==
    /\ step = "match" /\ ~canceled
    /\ fed < NPages
    /\ fed' = fed + 1
    /\ channel' = channel \cup {fed'}
    /\ UNCHANGED <<aux, stateDoc, working, run, tracked, workers, todo, bounds, pastOfRun>>

\* All pages are fed.
FeedEnds ==
    /\ step = "match" /\ fed = NPages
    /\ step' = "join"
    /\ UNCHANGED <<aux, stateDoc, working, canceled, skipEmpty, startedAt, producer, workers,
                   todo, bounds, pastOfRun>>

\* A canceled run feeds no more, and goes on as one that has fed everything.
FeedCanceled ==
    /\ step = "match" /\ canceled /\ fed < NPages
    /\ step' = "join"
    /\ partial' = TRUE
    /\ UNCHANGED <<aux, stateDoc, working, canceled, skipEmpty, startedAt, producer, workers,
                   todo, bounds, raced, restartTorn>>

\* The workers.
Recv(w) ==
    /\ step \in {"match", "join"} /\ phase[w] = "recv"
    /\ \E p \in channel :
         /\ holds' = [holds EXCEPT ![w] = p]
         /\ channel' = channel \ {p}
    /\ phase' = [phase EXCEPT ![w] = "match"]
    /\ UNCHANGED <<aux, stateDoc, working, run, fed, tracked, found, todo, bounds, pastOfRun>>

\* A bug: objects of any age are matched.
CandidatesAll(p) == {o \in inserted : <<o, p>> \in Near}

\* process_cat_doc: the objects near the rows, older than the run.
Candidates(p) == {o \in inserted : <<o, p>> \in Near /\ created[o] < startedAt}

MatchPage(w) ==
    /\ step \in {"match", "join"} /\ phase[w] = "match"
    /\ found' = [found EXCEPT ![w] = Candidates(holds[w])]
    /\ phase' = [phase EXCEPT ![w] = "insert"]
    /\ UNCHANGED <<aux, stateDoc, working, run, producer, holds, todo, bounds, pastOfRun>>

\* insert_ignoring_duplicates.
InsertMatches(w) ==
    /\ step \in {"match", "join"} /\ phase[w] = "insert"
    /\ buffer' = buffer \cup (found[w] \X {holds[w]})
    /\ found' = [found EXCEPT ![w] = {}]
    /\ phase' = [phase EXCEPT ![w] = "complete"]
    /\ UNCHANGED <<aux, stateDoc, grouped, run, producer, holds, todo, bounds, pastOfRun>>

\* A bug: the checkpoint follows the page that was done last.
DoneUpToLatest(pages) == CHOOSE p \in pages : \A q \in pages : q <= p

\* The tracker gives up the pages at its front that are done.
DoneUpTo(pages) ==
    LET prefix == {p \in pages : \A q \in (checkpoint + 1)..p : q \in pages}
    IN  IF prefix = {} THEN checkpoint ELSE CHOOSE p \in prefix : \A q \in prefix : q <= p

CompletePage(w) ==
    /\ step \in {"match", "join"} /\ phase[w] = "complete"
    /\ tracked' = tracked \cup {holds[w]}
    /\ checkpoint' = DoneUpTo(tracked')
    /\ holds' = [holds EXCEPT ![w] = NoPage]
    /\ phase' = [phase EXCEPT ![w] = "recv"]
    /\ UNCHANGED <<aux, runStatus, runStart, working, run, fed, channel, found, todo, bounds,
                   pastOfRun>>

\* A bug: nobody waits for the workers.
JoinedAtOnce == TRUE

Joined == channel = {} /\ \A w \in Worker : phase[w] = "recv"

\* Every worker has returned: the state says committing.
MatchEnds ==
    /\ step = "join" /\ Joined
    /\ runStatus' = "committing"
    /\ step' = "group"
    /\ UNCHANGED <<aux, runStart, checkpoint, working, canceled, skipEmpty, startedAt, producer,
                   workers, todo, bounds, pastOfRun>>

----------------------------------------------------------------------------
\* commit_catalog.

Group ==
    /\ step = "group"
    /\ grouped' = {<<o, {p \in Page : <<o, p>> \in buffer}>> :
                     o \in {b[1] : b \in buffer}}
    /\ todo' = {g[1] : g \in grouped'}
    /\ step' = "merge"
    /\ UNCHANGED <<aux, stateDoc, buffer, canceled, skipEmpty, startedAt, producer, workers,
                   bounds, pastOfRun>>

\* The shards of the matched, in any order; $merge discards what is not there.
MergeMatched(o) ==
    /\ step = "merge" /\ o \in todo
    /\ crossMatches' = [crossMatches EXCEPT ![o] =
         IF o \in inserted THEN (CHOOSE g \in grouped : g[1] = o)[2] ELSE @]
    /\ todo' = todo \ {o}
    /\ UNCHANGED <<declared, created, inserted, stateDoc, working, run, producer, workers, bounds,
                   pastOfRun>>

MergeEnds ==
    /\ step = "merge" /\ todo = {}
    /\ step' = IF skipEmpty THEN "clean" ELSE "empty"
    /\ todo' = IF skipEmpty THEN {} ELSE Object
    /\ UNCHANGED <<aux, stateDoc, working, canceled, skipEmpty, startedAt, producer, workers,
                   bounds, pastOfRun>>

\* The objects older than the run that no row matched.
EmptyUnmatched(o) ==
    /\ step = "empty" /\ o \in todo
    /\ crossMatches' = [crossMatches EXCEPT ![o] =
         IF o \in inserted /\ created[o] < startedAt /\ ~\E g \in grouped : g[1] = o
         THEN {} ELSE @]
    /\ todo' = todo \ {o}
    /\ UNCHANGED <<declared, created, inserted, stateDoc, working, run, producer, workers, bounds,
                   pastOfRun>>

EmptyEnds ==
    /\ step = "empty" /\ todo = {}
    /\ step' = "clean"
    /\ UNCHANGED <<aux, stateDoc, working, canceled, skipEmpty, startedAt, producer, workers,
                   todo, bounds, pastOfRun>>

\* The run is over in the state document before its collections are dropped.
SetClean ==
    /\ step = "clean"
    /\ runStatus' = "clean"
    /\ step' = "drop"
    /\ UNCHANGED <<aux, runStart, checkpoint, working, canceled, skipEmpty, startedAt, producer,
                   workers, todo, bounds, pastOfRun>>

\* What a run had in memory is gone when it returns, or dies.
EndRun ==
    /\ step' = "idle" /\ canceled' = FALSE
    /\ fed' = 0 /\ todo' = {}
    /\ ResetRun

DropWorking ==
    /\ step = "drop"
    /\ buffer' = {} /\ grouped' = {}
    /\ EndRun
    /\ UNCHANGED <<aux, stateDoc, skipEmpty, startedAt, bounds, pastOfRun>>

----------------------------------------------------------------------------
\* run_objects_driven: every object there is, or those without the field; an
\* object whose cross-match fails three times is skipped.

BeginObjects(skipExisting) ==
    /\ step = "idle" /\ runs < MaxRuns /\ declared
    /\ runs' = runs + 1
    /\ todo' = {o \in inserted : skipExisting => crossMatches[o] = NoField}
    /\ step' = "objects"
    /\ UNCHANGED <<aux, stateDoc, working, canceled, skipEmpty, startedAt, producer, workers,
                   clock, breaks, pastOfRun>>

FlushObject(o) ==
    /\ step = "objects" /\ o \in todo /\ ~canceled
    /\ \E skipped \in BOOLEAN :
         crossMatches' = IF skipped THEN crossMatches
                         ELSE [crossMatches EXCEPT ![o] = Matches(o)]
    /\ todo' = todo \ {o}
    /\ UNCHANGED <<declared, created, inserted, stateDoc, working, run, producer, workers, bounds,
                   pastOfRun>>

ObjectsEnd ==
    /\ step = "objects" /\ (todo = {} \/ canceled)
    /\ EndRun
    /\ UNCHANGED <<aux, stateDoc, working, skipEmpty, startedAt, bounds, pastOfRun>>

----------------------------------------------------------------------------
\* run_remove: once neither the configuration nor an active filter refers to the
\* catalog, the field of every object, then what an earlier run left.

RemovalProblems(read) == declared \/ read

\* read: does an active filter read the catalog.
BeginRemove(read) ==
    /\ step = "idle" /\ runs < MaxRuns
    /\ ~RemovalProblems(read)
    /\ runs' = runs + 1
    /\ step' = "remove"
    /\ todo' = Object
    /\ UNCHANGED <<aux, stateDoc, working, canceled, skipEmpty, startedAt, producer, workers,
                   clock, breaks, pastOfRun>>

RemoveField(o) ==
    /\ step = "remove" /\ o \in todo
    /\ crossMatches' = [crossMatches EXCEPT ![o] = IF o \in inserted THEN NoField ELSE @]
    /\ todo' = todo \ {o}
    /\ UNCHANGED <<declared, created, inserted, stateDoc, working, run, producer, workers, bounds,
                   pastOfRun>>

\* clear_reprocess_state: the document, then the collections.
ClearState ==
    /\ step = "remove" /\ todo = {}
    /\ runStatus' = "none" /\ runStart' = 0 /\ checkpoint' = 0
    /\ step' = "drop"
    /\ UNCHANGED <<aux, working, canceled, skipEmpty, startedAt, producer, workers, todo, bounds,
                   pastOfRun>>

----------------------------------------------------------------------------
Cancel ==
    /\ step \in {"match", "objects"} /\ ~canceled
    /\ canceled' = TRUE
    /\ UNCHANGED <<aux, stateDoc, working, step, skipEmpty, startedAt, producer, workers, todo,
                   bounds, pastOfRun>>

\* An error that the task returns, or the end of its process.
AbortRun ==
    /\ step # "idle" /\ breaks < MaxBreaks
    /\ breaks' = breaks + 1
    /\ EndRun
    /\ UNCHANGED <<aux, stateDoc, working, skipEmpty, startedAt, clock, runs, pastOfRun>>

\* A deployment with the other configuration ends the run, and what the alert
\* workers had in hand is read again later.
Redeploy ==
    /\ breaks < MaxBreaks
    /\ breaks' = breaks + 1
    /\ declared' = ~declared
    /\ created' = [o \in Object |-> IF o \in inserted THEN created[o] ELSE NotYet]
    /\ crossMatches' = [o \in Object |-> IF o \in inserted THEN crossMatches[o] ELSE NoField]
    /\ EndRun
    /\ UNCHANGED <<inserted, stateDoc, working, skipEmpty, startedAt, clock, runs, pastOfRun>>

CatalogDriven ==
    \/ \E skip \in BOOLEAN : BeginResume(skip) \/ \E restart \in BOOLEAN : BeginFresh(restart, skip)
    \/ SetFreshState \/ Feed \/ FeedEnds \/ FeedCanceled \/ MatchEnds
    \/ \E w \in Worker : Recv(w) \/ MatchPage(w) \/ InsertMatches(w) \/ CompletePage(w)
    \/ Group \/ MergeEnds \/ EmptyEnds \/ SetClean \/ DropWorking
    \/ \E o \in Object : MergeMatched(o) \/ EmptyUnmatched(o)

ObjectsDriven ==
    \/ \E skipExisting \in BOOLEAN : BeginObjects(skipExisting)
    \/ \E o \in Object : FlushObject(o)
    \/ ObjectsEnd

RemoveCatalog == (\E read \in BOOLEAN : BeginRemove(read)) \/ ClearState \/ \E o \in Object : RemoveField(o)

CrossmatchNext ==
    \/ CatalogDriven \/ ObjectsDriven \/ RemoveCatalog \/ Cancel \/ AbortRun \/ Redeploy
    \/ \E o \in Object : Stamp(o) \/ InsertObject(o)

CrossmatchSpec == CrossmatchInit /\ [][CrossmatchNext]_crossmatchVars

----------------------------------------------------------------------------

Settled(o) == o \in inserted \ raced /\ created[o] < runStart

\* Every match of a page at or before the checkpoint is in the buffer, whatever the
\* order in which the workers completed the pages and wherever an earlier run was
\* ended: what a resumed run skips it need not match again. Excepted are objects whose
\* alert worker took the time before the run's start and inserted after it, and a
\* restart that was ended between its two drops and its new state document.
CheckpointIsSound ==
    runStatus = "matching" /\ ~restartTorn =>
        \A o \in Object, p \in 1..checkpoint :
            Settled(o) /\ <<o, p>> \in Near => <<o, p>> \in buffer

\* A catalog driven run that ends clean leaves on every object older than it exactly
\* the matches of the whole catalog, over any number of interrupted runs that it took;
\* with skip_empty, on every object that has a match. A run that was canceled while its
\* pages were fed is excepted.
CleanIsExact ==
    step = "drop" /\ runStatus = "clean" /\ ~restartTorn /\ ~partial =>
        \A o \in Object :
            Settled(o) /\ ~(skipEmpty /\ Matches(o) = {}) => crossMatches[o] = Matches(o)

\* No step of a catalog driven run touches an object created since the run began: its
\* alert worker has matched it already, against the catalog as it is now.
NewerIsUntouched ==
    [][(step \in {"match", "join", "group", "merge", "empty"} /\ declared' = declared) =>
         \A o \in inserted : created[o] >= startedAt => crossMatches'[o] = crossMatches[o]]_crossmatchVars

\* A run that a cancelation stopped between two pages leaves the state that the next
\* run resumes from, as match_catalog says where it breaks off.
CancelIsResumable == step = "idle" /\ partial => runStatus = "matching"
============================================================================
