------------------------- MODULE CrossmatchProofs --------------------------
(***************************************************************************)
(* Proofs about CrossmatchReprocess: that the checkpoint of a run is       *)
(* sound, that a clean run leaves exactly the matches of the whole         *)
(* catalog, and that newer objects stay untouched, for every catalog and   *)
(* every number of workers, objects and interruptions.                     *)
(***************************************************************************)
EXTENDS CrossmatchReprocess, WellFoundedInduction, TLAPS

\* Where a run of the task may be.
Steps == {"idle", "fresh", "match", "join", "group", "merge", "empty", "clean", "drop",
          "objects", "remove"}

\* The types of the aux documents, of the state document, of the working collections and of
\* the run.
CrossmatchTypeOK ==
    /\ declared \in BOOLEAN
    /\ created \in [Object -> Nat \cup {NotYet}]
    /\ inserted \subseteq Object
    /\ \A o \in inserted : created[o] \in Nat
    /\ crossMatches \in [Object -> {NoField} \cup SUBSET Page]
    /\ runStatus \in {"none", "matching", "committing", "clean"}
    /\ runStart \in Nat /\ runStart <= clock
    /\ clock \in Nat
    /\ checkpoint \in 0..NPages
    /\ buffer \subseteq Near
    /\ step \in Steps
    /\ canceled \in BOOLEAN /\ skipEmpty \in BOOLEAN
    /\ startedAt \in Nat
    /\ fed \in 0..NPages
    /\ channel \subseteq Page /\ tracked \subseteq Page
    /\ holds \in [Worker -> Page \cup {NoPage}]
    /\ found \in [Worker -> SUBSET Object]
    /\ phase \in [Worker -> {"recv", "match", "insert", "complete"}]
    /\ todo \subseteq Object
    /\ partial \in BOOLEAN /\ restartTorn \in BOOLEAN
    /\ raced \subseteq Object

\* The run is matching pages, or is committing what it has matched.
Matching == step \in {"match", "join"}
Committing == step \in {"group", "merge", "empty", "clean"}

\* The run and the state document agree.
RunFollowsState ==
    /\ Matching => runStatus = "matching" /\ startedAt = runStart
    /\ Committing => runStatus = "committing" /\ startedAt = runStart
    /\ step = "drop" => runStatus \in {"clean", "none"}
    /\ step = "fresh" => buffer = {}
    /\ ~Matching => \A w \in Worker : phase[w] = "recv"
    /\ \A w \in Worker : phase[w] # "recv" => holds[w] \in Page

\* The objects of which the working collection has a match, and the pages of its matches.
Matched == {b[1] : b \in buffer}
PagesOf(o) == {p \in Page : <<o, p>> \in buffer}

\* The working collections hold matches of objects older than the run only.
WorkingIsOlder ==
    /\ \A w \in Worker : \A o \in found[w] :
         phase[w] = "insert" /\ <<o, holds[w]>> \in Near /\ o \in inserted /\ created[o] < startedAt
    /\ Resumable => \A b \in buffer : b[1] \in inserted /\ created[b[1]] < runStart
    /\ step \in {"merge", "empty"} =>
         grouped = {<<o, PagesOf(o)>> : o \in Matched}
    /\ step = "merge" => todo \subseteq Matched

\* All matches of a page are in the working collection.
Whole(p) == \A o \in Object : Settled(o) /\ <<o, p>> \in Near => <<o, p>> \in buffer

\* A page that was fed is on its way, or with a worker, or done.
PagesInHand ==
    /\ Matching /\ ~restartTorn =>
         \A p \in 1..fed : \/ Whole(p) \/ p \in channel
                           \/ \E w \in Worker : holds[w] = p /\ phase[w] # "recv"
    /\ step = "join" /\ ~partial => fed = NPages

\* A page that the tracker has is whole, and so is what a worker has found for its page.
PagesAreWhole ==
    Matching /\ ~restartTorn =>
        /\ \A p \in tracked : Whole(p)
        /\ \A w \in Worker :
             /\ phase[w] = "insert" =>
                  \A o \in Object : Settled(o) /\ <<o, holds[w]>> \in Near => o \in found[w]
             /\ phase[w] = "complete" => Whole(holds[w])

\* When the matches are committed all pages are whole, unless the feed was canceled.
CatalogIsWhole ==
    runStatus = "committing" /\ ~restartTorn /\ ~partial => \A p \in Page : Whole(p)

\* The document of an object has exactly the matches of the whole catalog.
Exact(o) == crossMatches[o] = Matches(o)

\* How far the two passes of the commit have come.
Committed ==
    ~restartTorn /\ ~partial =>
        \A o \in Object : Settled(o) =>
            /\ step = "merge" /\ Matches(o) # {} /\ o \notin todo => Exact(o)
            /\ step = "empty" /\ (Matches(o) # {} \/ o \notin todo) => Exact(o)
            /\ step = "clean" /\ ~(skipEmpty /\ Matches(o) = {}) => Exact(o)

\* The inductive invariant of the reprocessing of cross-matches.
CrossmatchInv ==
    /\ CrossmatchTypeOK /\ RunFollowsState /\ WorkingIsOlder /\ PagesInHand
    /\ PagesAreWhole /\ CheckpointIsSound /\ CatalogIsWhole /\ Committed /\ CleanIsExact

\* A set of naturals that is not empty has a least element.
LEMMA LeastOf ==
  ASSUME NEW T \in SUBSET Nat, T # {}
  PROVE  \E x \in T : \A y \in T : x <= y
<1>1. PICK x \in T : \A y \in T : ~ (<<y, x>> \in OpToRel(<, Nat))
  BY NatLessThanWellFounded, WFMin
<1>2. \A y \in T : ~ (y < x)
  BY <1>1 DEF OpToRel
<1> QED
  BY <1>2

\* A set of naturals that is bounded and not empty has a greatest element.
LEMMA GreatestOf ==
  ASSUME NEW n \in Nat, NEW T \in SUBSET (0 .. n), T # {}
  PROVE  \E x \in T : \A y \in T : y <= x
<1> DEFINE D == {n - x : x \in T}
<1>1. D # {} /\ \A d \in D : d \in Nat
  OBVIOUS
<1>2. PICK d \in D : \A e \in D : d <= e
  BY <1>1, LeastOf, D \in SUBSET Nat
<1>3. PICK x \in T : d = n - x
  OBVIOUS
<1>4. \A y \in T : n - y \in D
  OBVIOUS
<1> QED
  BY <1>2, <1>3, <1>4, SMTT(30)

\* What the tracker gives up: all pages up to there are at or before the checkpoint, or done.
LEMMA DoneUpToProps ==
  ASSUME CrossmatchTypeOK, NEW pages \in SUBSET Page
  PROVE  /\ DoneUpTo(pages) \in 0 .. NPages
         /\ \A p \in 1 .. DoneUpTo(pages) : p \in 1 .. checkpoint \/ p \in pages
<1> DEFINE prefix == {p \in pages : \A q \in (checkpoint + 1) .. p : q \in pages}
<1> USE CrossmatchAssumption DEF Page
<1>0. NPages \in Nat /\ checkpoint \in 0 .. NPages
  BY DEF CrossmatchTypeOK
<1>1. CASE prefix = {}
  BY <1>0, <1>1 DEF DoneUpTo
<1>2. CASE prefix # {}
  <2>1. \A p \in prefix : p \in 0 .. NPages
    BY <1>0
  <2>2. \E p \in prefix : \A q \in prefix : q <= p
    BY <1>0, <1>2, <2>1, prefix \in SUBSET (0 .. NPages), GreatestOf
  <2>3. DoneUpTo(pages) \in prefix
    BY <1>2, <2>2 DEF DoneUpTo
  <2>4. DoneUpTo(pages) \in 1 .. NPages
    BY <2>3
  <2>5. \A q \in (checkpoint + 1) .. DoneUpTo(pages) : q \in pages
    BY <2>3
  <2> QED
    BY <1>0, <2>4, <2>5
<1> QED
  BY <1>1, <1>2

\* The matches of an object are pages.
LEMMA MatchesType == \A o : Matches(o) \in SUBSET Page
  BY DEF Matches

\* What ResetRun leaves has the type of it.
LEMMA ResetRunType ==
  ASSUME ResetRun
  PROVE  /\ channel' = {} /\ tracked' = {}
         /\ holds' \in [Worker -> Page \cup {NoPage}]
         /\ found' \in [Worker -> SUBSET Object]
         /\ phase' \in [Worker -> {"recv", "match", "insert", "complete"}]
         /\ \A w \in Worker : found'[w] = {} /\ phase'[w] = "recv"
  BY DEF ResetRun

\* A matched object has one group, the pages that matched it.
LEMMA GroupOf ==
  ASSUME grouped = {<<x, PagesOf(x)>> : x \in Matched}, NEW o \in Matched
  PROVE  (CHOOSE g \in grouped : g[1] = o)[2] = PagesOf(o)
<1>1. <<o, PagesOf(o)>> \in grouped
  OBVIOUS
<1>2. \A g \in grouped : g[1] = o => g = <<o, PagesOf(o)>>
  OBVIOUS
<1> DEFINE c == CHOOSE g \in grouped : g[1] = o
<1>3. <<o, PagesOf(o)>>[1] = o
  OBVIOUS
<1>4. c \in grouped /\ c[1] = o
  BY <1>1, <1>3
<1>5. c = <<o, PagesOf(o)>>
  BY <1>2, <1>4
<1> QED
  BY <1>5

\* Of a whole catalog, the pages of a settled object are its matches.
LEMMA PagesOfSettled ==
  ASSUME CrossmatchTypeOK, NEW o \in Object, Settled(o), \A p \in Page : Whole(p)
  PROVE  PagesOf(o) = Matches(o) /\ (o \in Matched <=> Matches(o) # {})
<1>1. \A p \in Page : <<o, p>> \in buffer <=> <<o, p>> \in Near
  BY DEF CrossmatchTypeOK, Whole
<1>2. PagesOf(o) = Matches(o)
  BY <1>1 DEF PagesOf, Matches
<1>3. \A b \in buffer : b[1] \in Object /\ b[2] \in Page /\ b = <<b[1], b[2]>>
  BY CrossmatchAssumption DEF CrossmatchTypeOK
<1>4. o \in Matched => Matches(o) # {}
  BY <1>1, <1>3 DEF Matched, Matches
<1>5. Matches(o) # {} => o \in Matched
  <2> SUFFICES ASSUME NEW p \in Matches(o) PROVE o \in Matched
    OBVIOUS
  <2>1. <<o, p>> \in buffer
    BY <1>1 DEF Matches
  <2> QED
    BY <2>1 DEF Matched
<1> QED
  BY <1>2, <1>4, <1>5

\* The alert workers.
LEMMA AlertStep == CrossmatchInv /\ (\E o \in Object : Stamp(o) \/ InsertObject(o)) => CrossmatchInv'
<1> SUFFICES ASSUME CrossmatchInv, (\E o \in Object : Stamp(o) \/ InsertObject(o)) PROVE CrossmatchInv'
  OBVIOUS
<1> USE CrossmatchAssumption DEF CrossmatchInv, aux, stateDoc, working, run, producer, workers,
                                 bounds, pastOfRun
<1>1. ASSUME NEW o \in Object, Stamp(o) PROVE CrossmatchInv'
  <2>1. CrossmatchTypeOK'
    <3>1. /\ created' \in [Object -> Nat \cup {NotYet}]
          /\ \A x \in inserted : created'[x] \in Nat
      BY <1>1 DEF Stamp, CrossmatchTypeOK
    <3>2. crossMatches' \in [Object -> {NoField} \cup SUBSET Page]
      BY <1>1, MatchesType DEF Stamp, CrossmatchTypeOK
    <3> QED
      BY <1>1, <3>1, <3>2 DEF Stamp, CrossmatchTypeOK
  <2>2. WorkingIsOlder'
    BY <1>1 DEF Stamp, CrossmatchTypeOK, WorkingIsOlder, Resumable, Matched, PagesOf
  <2>3. PagesInHand'
    BY <1>1 DEF Stamp, CrossmatchTypeOK, PagesInHand, Matching, Whole, Settled
  <2>4. PagesAreWhole'
    BY <1>1 DEF Stamp, CrossmatchTypeOK, PagesAreWhole, Matching, Whole, Settled
  <2>5. CheckpointIsSound'
    BY <1>1 DEF Stamp, CrossmatchTypeOK, CheckpointIsSound, Settled
  <2>6. CatalogIsWhole'
    BY <1>1 DEF Stamp, CrossmatchTypeOK, CatalogIsWhole, Whole, Settled
  <2>7. Committed'
    BY <1>1 DEF Stamp, CrossmatchTypeOK, Committed, Settled, Exact, Matches
  <2>8. CleanIsExact'
    BY <1>1 DEF Stamp, CrossmatchTypeOK, CleanIsExact, Settled, Matches
  <2>9. RunFollowsState'
    BY <1>1 DEF Stamp, CrossmatchTypeOK, RunFollowsState, Matching, Committing
  <2> QED
    BY <2>1, <2>2, <2>3, <2>4, <2>5, <2>6, <2>7, <2>8, <2>9 DEF CrossmatchInv
<1>2. ASSUME NEW o \in Object, InsertObject(o) PROVE CrossmatchInv'
  <2>1. CrossmatchTypeOK'
    BY <1>2 DEF InsertObject, CrossmatchTypeOK, Steps, Page
  <2>2. WorkingIsOlder'
    BY <1>2 DEF InsertObject, CrossmatchTypeOK, WorkingIsOlder, Resumable, Matched, PagesOf
  <2>3. PagesInHand'
    BY <1>2 DEF InsertObject, CrossmatchTypeOK, PagesInHand, Matching, Whole, Settled
  <2>4. PagesAreWhole'
    BY <1>2 DEF InsertObject, CrossmatchTypeOK, PagesAreWhole, Matching, Whole, Settled
  <2>5. CheckpointIsSound'
    BY <1>2 DEF InsertObject, CrossmatchTypeOK, CheckpointIsSound, Settled
  <2>6. CatalogIsWhole'
    BY <1>2 DEF InsertObject, CrossmatchTypeOK, CatalogIsWhole, Whole, Settled
  <2>7. Committed'
    BY <1>2, SMTT(30) DEF InsertObject, CrossmatchTypeOK, Committed, Settled, Exact, Matches
  <2>8. CleanIsExact'
    BY <1>2 DEF InsertObject, CrossmatchTypeOK, CleanIsExact, Settled, Matches
  <2>9. RunFollowsState'
    BY <1>2 DEF InsertObject, CrossmatchTypeOK, RunFollowsState, Matching, Committing
  <2> QED
    BY <2>1, <2>2, <2>3, <2>4, <2>5, <2>6, <2>7, <2>8, <2>9 DEF CrossmatchInv
<1> QED
  BY <1>1, <1>2

\* The catalog driven run.
LEMMA CatalogStep == CrossmatchInv /\ CatalogDriven => CrossmatchInv'
<1> SUFFICES ASSUME CrossmatchInv, CatalogDriven PROVE CrossmatchInv'
  OBVIOUS
<1> USE CrossmatchAssumption DEF CrossmatchInv, aux, stateDoc, working, run, producer, workers,
                                 bounds, pastOfRun
<1>1. ASSUME NEW skip \in BOOLEAN, BeginResume(skip) PROVE CrossmatchInv'
  <2>1. CrossmatchTypeOK'
    BY <1>1 DEF BeginResume, ResetRun, Resumable, CrossmatchTypeOK, Steps, Page
  <2>2. RunFollowsState'
    BY <1>1 DEF BeginResume, ResetRun, Resumable, CrossmatchTypeOK, RunFollowsState,
        Matching, Committing
  <2>3. PagesInHand'
    BY <1>1 DEF BeginResume, Resumable, CrossmatchTypeOK, PagesInHand, CheckpointIsSound,
       Matching, Whole, Settled
  <2>4. PagesAreWhole'
    BY <1>1 DEF BeginResume, ResetRun, Resumable, CrossmatchTypeOK, PagesAreWhole, Matching,
        Whole, Settled
  <2>5. /\ WorkingIsOlder' /\ CheckpointIsSound' /\ CatalogIsWhole' /\ Committed'
        /\ CleanIsExact'
    BY <1>1 DEF BeginResume, ResetRun, Resumable, CrossmatchTypeOK, WorkingIsOlder, Matched,
        PagesOf, CheckpointIsSound, Settled, CatalogIsWhole, Whole, Committed, Exact,
        Matches, CleanIsExact
  <2> QED
    BY <2>1, <2>2, <2>3, <2>4, <2>5 DEF CrossmatchInv
<1>2. ASSUME NEW restart \in BOOLEAN, NEW skip \in BOOLEAN, BeginFresh(restart, skip) PROVE CrossmatchInv'
  <2>1. CrossmatchTypeOK'
    BY <1>2 DEF BeginFresh, Resumable, CrossmatchTypeOK, Steps, Page
  <2>2. RunFollowsState'
    BY <1>2 DEF BeginFresh, Resumable, CrossmatchTypeOK, RunFollowsState, Matching,
        Committing
  <2>3. WorkingIsOlder'
    BY <1>2 DEF BeginFresh, Resumable, CrossmatchTypeOK, WorkingIsOlder, Matched, PagesOf
  <2>4. CheckpointIsSound'
    BY <1>2 DEF BeginFresh, Resumable, CrossmatchTypeOK, CheckpointIsSound, Settled
  <2>5. CatalogIsWhole'
    BY <1>2 DEF BeginFresh, Resumable, CrossmatchTypeOK, CatalogIsWhole, Whole, Settled
  <2>6. PagesInHand' /\ PagesAreWhole' /\ Committed' /\ CleanIsExact'
    BY <1>2 DEF BeginFresh, Resumable, CrossmatchTypeOK, PagesInHand, Matching, Whole,
        Settled, PagesAreWhole, Committed, Exact, Matches, CleanIsExact
  <2> QED
    BY <2>1, <2>2, <2>3, <2>4, <2>5, <2>6 DEF CrossmatchInv
<1>3. CASE SetFreshState
  <2>1. CrossmatchTypeOK'
    <3>1. ResetRun
      BY <1>3 DEF SetFreshState
    <3>2. /\ channel' = {} /\ tracked' = {}
          /\ holds' \in [Worker -> Page \cup {NoPage}]
          /\ found' \in [Worker -> SUBSET Object]
          /\ phase' \in [Worker -> {"recv", "match", "insert", "complete"}]
      BY <3>1, ResetRunType
    <3>3. canceled' \in BOOLEAN
      BY <1>3 DEF SetFreshState, CrossmatchTypeOK
    <3>4. fed' \in 0 .. NPages
      BY <1>3 DEF SetFreshState, CrossmatchTypeOK
    <3>5. step' \in Steps
      BY <1>3 DEF SetFreshState, Steps
    <3>6. /\ clock' \in Nat /\ runStart' \in Nat /\ runStart' <= clock' /\ startedAt' \in Nat
          /\ checkpoint' \in 0 .. NPages
      BY <1>3 DEF SetFreshState, CrossmatchTypeOK
    <3>7. partial' \in BOOLEAN /\ restartTorn' \in BOOLEAN
      BY <1>3 DEF SetFreshState
    <3> QED
      BY <1>3, <3>2, <3>3, <3>4, <3>5, <3>6, <3>7 DEF SetFreshState, CrossmatchTypeOK
  <2>2. RunFollowsState'
    BY <1>3 DEF SetFreshState, ResetRun, CrossmatchTypeOK, RunFollowsState, Matching,
        Committing
  <2>3. WorkingIsOlder'
    BY <1>3, ResetRunType DEF SetFreshState, WorkingIsOlder, RunFollowsState, Resumable
  <2>4. PagesInHand'
    BY <1>3 DEF SetFreshState, ResetRun, CrossmatchTypeOK, PagesInHand, Matching, Whole,
        Settled
  <2>5. PagesAreWhole'
    BY <1>3 DEF SetFreshState, ResetRun, CrossmatchTypeOK, PagesAreWhole, Matching, Whole,
        Settled
  <2>6. CheckpointIsSound'
    BY <1>3 DEF SetFreshState, ResetRun, CrossmatchTypeOK, CheckpointIsSound, Settled
  <2>7. CatalogIsWhole' /\ Committed' /\ CleanIsExact'
    BY <1>3 DEF SetFreshState, ResetRun, CrossmatchTypeOK, CatalogIsWhole, Whole, Settled,
        Committed, Exact, Matches, CleanIsExact
  <2> QED
    BY <2>1, <2>2, <2>3, <2>4, <2>5, <2>6, <2>7 DEF CrossmatchInv
<1>4. CASE Feed
  <2>1. CrossmatchTypeOK'
    BY <1>4 DEF Feed, CrossmatchTypeOK, Steps, Page
  <2>2. PagesInHand'
    BY <1>4 DEF Feed, CrossmatchTypeOK, PagesInHand, Matching, Whole, Settled
  <2>3. /\ RunFollowsState' /\ WorkingIsOlder' /\ PagesAreWhole' /\ CheckpointIsSound'
        /\ CatalogIsWhole' /\ Committed' /\ CleanIsExact'
    BY <1>4 DEF Feed, CrossmatchTypeOK, RunFollowsState, Matching, Committing,
        WorkingIsOlder, Resumable, Matched, PagesOf, PagesAreWhole, Whole, Settled,
        CheckpointIsSound, CatalogIsWhole, Committed, Exact, Matches, CleanIsExact
  <2> QED
    BY <2>1, <2>2, <2>3 DEF CrossmatchInv
<1>5. CASE FeedEnds
  <2>1. CrossmatchTypeOK'
    BY <1>5 DEF FeedEnds, CrossmatchTypeOK, Steps, Page
  <2>2. PagesInHand'
    BY <1>5 DEF FeedEnds, CrossmatchTypeOK, PagesInHand, Matching, Whole, Settled
  <2>3. /\ RunFollowsState' /\ WorkingIsOlder' /\ PagesAreWhole' /\ CheckpointIsSound'
        /\ CatalogIsWhole' /\ Committed' /\ CleanIsExact'
    BY <1>5 DEF FeedEnds, CrossmatchTypeOK, RunFollowsState, Matching, Committing,
        WorkingIsOlder, Resumable, Matched, PagesOf, PagesAreWhole, Whole, Settled,
        CheckpointIsSound, CatalogIsWhole, Committed, Exact, Matches, CleanIsExact
  <2> QED
    BY <2>1, <2>2, <2>3 DEF CrossmatchInv
<1>6. CASE FeedCanceled
  <2>1. CrossmatchTypeOK'
    BY <1>6 DEF FeedCanceled, CrossmatchTypeOK, Steps, Page
  <2>2. PagesInHand'
    BY <1>6 DEF FeedCanceled, CrossmatchTypeOK, PagesInHand, Matching, Whole, Settled
  <2>3. /\ RunFollowsState' /\ WorkingIsOlder' /\ PagesAreWhole' /\ CheckpointIsSound'
        /\ CatalogIsWhole' /\ Committed' /\ CleanIsExact'
    BY <1>6 DEF FeedCanceled, CrossmatchTypeOK, RunFollowsState, Matching, Committing,
        WorkingIsOlder, Resumable, Matched, PagesOf, PagesAreWhole, Whole, Settled,
        CheckpointIsSound, CatalogIsWhole, Committed, Exact, Matches, CleanIsExact
  <2> QED
    BY <2>1, <2>2, <2>3 DEF CrossmatchInv
<1>7. ASSUME NEW w \in Worker, Recv(w) PROVE CrossmatchInv'
  <2>1. CrossmatchTypeOK'
    BY <1>7 DEF Recv, CrossmatchTypeOK, Steps, Page
  <2>2. RunFollowsState'
    BY <1>7 DEF Recv, CrossmatchTypeOK, RunFollowsState, Matching, Committing
  <2>3. WorkingIsOlder'
    BY <1>7 DEF Recv, CrossmatchTypeOK, WorkingIsOlder, Resumable, Matched, PagesOf
  <2>4. PagesInHand'
    BY <1>7 DEF Recv, CrossmatchTypeOK, PagesInHand, Matching, Whole, Settled
  <2>5. PagesAreWhole'
    BY <1>7 DEF Recv, CrossmatchTypeOK, PagesAreWhole, Matching, Whole, Settled
  <2>6. CheckpointIsSound' /\ CatalogIsWhole' /\ Committed' /\ CleanIsExact'
    BY <1>7 DEF Recv, CrossmatchTypeOK, CheckpointIsSound, Settled, CatalogIsWhole, Whole,
        Committed, Exact, Matches, CleanIsExact
  <2> QED
    BY <2>1, <2>2, <2>3, <2>4, <2>5, <2>6 DEF CrossmatchInv
<1>8. ASSUME NEW w \in Worker, MatchPage(w) PROVE CrossmatchInv'
  <2>1. CrossmatchTypeOK'
    BY <1>8 DEF MatchPage, Candidates, CrossmatchTypeOK, Steps, Page
  <2>2. WorkingIsOlder'
    BY <1>8 DEF MatchPage, Candidates, CrossmatchTypeOK, WorkingIsOlder, Resumable, Matched,
        PagesOf
  <2>3. PagesInHand'
    BY <1>8 DEF MatchPage, Candidates, CrossmatchTypeOK, PagesInHand, Matching, Whole,
        Settled
  <2>4. PagesAreWhole'
    BY <1>8 DEF MatchPage, Candidates, CrossmatchTypeOK, RunFollowsState, PagesAreWhole, Matching,
       Whole, Settled
  <2>5. /\ RunFollowsState' /\ CheckpointIsSound' /\ CatalogIsWhole' /\ Committed'
        /\ CleanIsExact'
    BY <1>8 DEF MatchPage, Candidates, CrossmatchTypeOK, RunFollowsState, Matching,
        Committing, CheckpointIsSound, Settled, CatalogIsWhole, Whole, Committed, Exact,
        Matches, CleanIsExact
  <2> QED
    BY <2>1, <2>2, <2>3, <2>4, <2>5 DEF CrossmatchInv
<1>9. ASSUME NEW w \in Worker, InsertMatches(w) PROVE CrossmatchInv'
  <2>1. CrossmatchTypeOK'
    <3>1. buffer' \subseteq Near
      BY <1>9 DEF InsertMatches, CrossmatchTypeOK, WorkingIsOlder
    <3> QED
      BY <1>9, <3>1 DEF InsertMatches, CrossmatchTypeOK
  <2>2. WorkingIsOlder'
    <3>1. \A b \in buffer' : b \in buffer \/ b[1] \in found[w]
      BY <1>9 DEF InsertMatches
    <3>2. \A x \in found[w] : x \in inserted /\ created[x] < runStart
      BY <1>9 DEF InsertMatches, WorkingIsOlder, RunFollowsState, Matching
    <3> QED
      BY <1>9, <3>1, <3>2 DEF InsertMatches, CrossmatchTypeOK, WorkingIsOlder, Resumable
  <2>3. PagesInHand'
    BY <1>9 DEF InsertMatches, CrossmatchTypeOK, PagesInHand, Matching, Whole, Settled
  <2>4. PagesAreWhole'
    BY <1>9 DEF InsertMatches, CrossmatchTypeOK, PagesAreWhole, Matching, Whole, Settled
  <2>5. CheckpointIsSound'
    BY <1>9 DEF InsertMatches, CrossmatchTypeOK, CheckpointIsSound, Settled
  <2>6. RunFollowsState' /\ CatalogIsWhole' /\ Committed' /\ CleanIsExact'
    BY <1>9 DEF InsertMatches, CrossmatchTypeOK, RunFollowsState, Matching, Committing,
        CatalogIsWhole, Whole, Settled, Committed, Exact, Matches, CleanIsExact
  <2> QED
    BY <2>1, <2>2, <2>3, <2>4, <2>5, <2>6 DEF CrossmatchInv
<1>10. ASSUME NEW w \in Worker, CompletePage(w) PROVE CrossmatchInv'
  <2>1. CrossmatchTypeOK'
    <3>1. tracked' \in SUBSET Page
      BY <1>10 DEF CompletePage, CrossmatchTypeOK, RunFollowsState
    <3>2. checkpoint' \in 0 .. NPages
      BY <1>10, <3>1, DoneUpToProps DEF CompletePage
    <3> QED
      BY <1>10, <3>1, <3>2 DEF CompletePage, CrossmatchTypeOK
  <2>2. RunFollowsState'
    BY <1>10 DEF CompletePage, CrossmatchTypeOK, RunFollowsState, Matching, Committing
  <2>3. WorkingIsOlder'
    BY <1>10 DEF CompletePage, CrossmatchTypeOK, WorkingIsOlder, Resumable, Matched, PagesOf
  <2>4. PagesInHand'
    BY <1>10 DEF CompletePage, CrossmatchTypeOK, PagesInHand, PagesAreWhole, Matching, Whole,
       Settled
  <2>5. PagesAreWhole'
    BY <1>10 DEF CompletePage, CrossmatchTypeOK, PagesAreWhole, Matching, Whole, Settled
  <2>6. CheckpointIsSound'
    <3>1. tracked' \in SUBSET Page
      BY <1>10 DEF CompletePage, CrossmatchTypeOK, RunFollowsState
    <3>2. \A p \in 1 .. checkpoint' : p \in 1 .. checkpoint \/ p \in tracked'
      BY <1>10, <3>1, DoneUpToProps DEF CompletePage
    <3>3. ~restartTorn => \A p \in tracked' : Whole(p)
      BY <1>10 DEF CompletePage, PagesAreWhole, Matching
    <3> QED
      BY <1>10, <3>2, <3>3 DEF CompletePage, CheckpointIsSound, Whole, Settled
  <2>7. CatalogIsWhole' /\ Committed' /\ CleanIsExact'
    BY <1>10 DEF CompletePage, CrossmatchTypeOK, CatalogIsWhole, Whole, Settled, Committed,
        Exact, Matches, CleanIsExact
  <2> QED
    BY <2>1, <2>2, <2>3, <2>4, <2>5, <2>6, <2>7 DEF CrossmatchInv
<1>11. CASE MatchEnds
  <2>1. CrossmatchTypeOK'
    BY <1>11 DEF MatchEnds, Joined, CrossmatchTypeOK, Steps, Page
  <2>2. CatalogIsWhole'
    <3> SUFFICES ASSUME ~restartTorn, ~partial PROVE \A p \in Page : Whole(p)
      BY <1>11 DEF MatchEnds, CatalogIsWhole, Whole, Settled
    <3> QED
      BY <1>11 DEF MatchEnds, Joined, PagesInHand, Matching, Page
  <2>3. /\ RunFollowsState' /\ WorkingIsOlder' /\ PagesInHand' /\ PagesAreWhole'
        /\ CheckpointIsSound' /\ Committed' /\ CleanIsExact'
    BY <1>11 DEF MatchEnds, Joined, CrossmatchTypeOK, RunFollowsState, Matching, Committing,
        WorkingIsOlder, Resumable, Matched, PagesOf, PagesInHand, Whole, Settled,
        PagesAreWhole, CheckpointIsSound, Committed, Exact, Matches, CleanIsExact
  <2> QED
    BY <2>1, <2>2, <2>3 DEF CrossmatchInv
<1>12. CASE Group
  <2>1. CrossmatchTypeOK'
    BY <1>12 DEF Group, CrossmatchTypeOK, Steps, Page
  <2>2. WorkingIsOlder'
    BY <1>12 DEF Group, CrossmatchTypeOK, WorkingIsOlder, Resumable, Matched, PagesOf
  <2>3. Committed'
    <3> SUFFICES ASSUME ~restartTorn, ~partial, NEW o \in Object, Settled(o), Matches(o) # {}
                 PROVE  o \in todo'
      BY <1>12 DEF Group, Committed, Settled, Matches
    <3>1. o \in Matched
      BY <1>12, PagesOfSettled DEF Group, RunFollowsState, Committing, CatalogIsWhole
    <3>2. <<o, PagesOf(o)>> \in grouped'
      BY <1>12, <3>1 DEF Group, Matched, PagesOf
    <3> QED
      BY <1>12, <3>2, <<o, PagesOf(o)>>[1] = o DEF Group
  <2>4. /\ RunFollowsState' /\ PagesInHand' /\ PagesAreWhole' /\ CheckpointIsSound'
        /\ CatalogIsWhole' /\ CleanIsExact'
    BY <1>12 DEF Group, CrossmatchTypeOK, RunFollowsState, Matching, Committing,
        PagesInHand, Whole, Settled, PagesAreWhole, CheckpointIsSound, CatalogIsWhole,
        CleanIsExact, Matches
  <2> QED
    BY <2>1, <2>2, <2>3, <2>4 DEF CrossmatchInv
<1>13. ASSUME NEW o \in Object, MergeMatched(o) PROVE CrossmatchInv'
  <2>1. CrossmatchTypeOK'
    <3>1. (CHOOSE g \in grouped : g[1] = o)[2] \in SUBSET Page
      <4>1. (CHOOSE g \in grouped : g[1] = o)[2] = PagesOf(o)
        BY <1>13, GroupOf DEF MergeMatched, WorkingIsOlder
      <4> QED
        BY <4>1 DEF PagesOf
    <3> QED
      BY <1>13, <3>1 DEF MergeMatched, CrossmatchTypeOK
  <2>2. WorkingIsOlder'
    BY <1>13 DEF MergeMatched, CrossmatchTypeOK, WorkingIsOlder, Resumable, Matched, PagesOf
  <2>3. Committed'
    <3> SUFFICES ASSUME ~restartTorn, ~partial, NEW x \in Object, Settled(x), Matches(x) # {},
                        x \notin todo'
                 PROVE  crossMatches'[x] = Matches(x)
      BY <1>13 DEF MergeMatched, Committed, Settled, Exact, Matches
    <3>1. CASE x = o
      <4>1. PagesOf(x) = Matches(x)
        BY <1>13, PagesOfSettled DEF MergeMatched, RunFollowsState, Committing, CatalogIsWhole
      <4>2. (CHOOSE g \in grouped : g[1] = o)[2] = PagesOf(x)
        BY <1>13, <3>1, GroupOf DEF MergeMatched, WorkingIsOlder
      <4> QED
        BY <1>13, <3>1, <4>1, <4>2 DEF MergeMatched, CrossmatchTypeOK, Settled
    <3>2. CASE x # o
      BY <1>13, <3>2 DEF MergeMatched, CrossmatchTypeOK, Committed, Exact
    <3> QED
      BY <3>1, <3>2
  <2>4. /\ RunFollowsState' /\ PagesInHand' /\ PagesAreWhole' /\ CheckpointIsSound'
        /\ CatalogIsWhole' /\ CleanIsExact'
    BY <1>13 DEF MergeMatched, CrossmatchTypeOK, RunFollowsState, Matching, Committing,
        PagesInHand, Whole, Settled, PagesAreWhole, CheckpointIsSound, CatalogIsWhole,
        CleanIsExact, Matches
  <2> QED
    BY <2>1, <2>2, <2>3, <2>4 DEF CrossmatchInv
<1>14. CASE MergeEnds
  <2>1. CrossmatchTypeOK'
    BY <1>14 DEF MergeEnds, CrossmatchTypeOK, Steps, Page
  <2>2. WorkingIsOlder'
    BY <1>14 DEF MergeEnds, CrossmatchTypeOK, WorkingIsOlder, Resumable, Matched, PagesOf
  <2>3. Committed'
    BY <1>14 DEF MergeEnds, CrossmatchTypeOK, Committed, Settled, Exact, Matches
  <2>4. /\ RunFollowsState' /\ PagesInHand' /\ PagesAreWhole' /\ CheckpointIsSound'
        /\ CatalogIsWhole' /\ CleanIsExact'
    BY <1>14 DEF MergeEnds, CrossmatchTypeOK, RunFollowsState, Matching, Committing,
        PagesInHand, Whole, Settled, PagesAreWhole, CheckpointIsSound, CatalogIsWhole,
        CleanIsExact, Matches
  <2> QED
    BY <2>1, <2>2, <2>3, <2>4 DEF CrossmatchInv
<1>15. ASSUME NEW o \in Object, EmptyUnmatched(o) PROVE CrossmatchInv'
  <2>1. CrossmatchTypeOK'
    BY <1>15 DEF EmptyUnmatched, CrossmatchTypeOK, Steps, Page
  <2>2. Committed'
    <3> SUFFICES ASSUME ~restartTorn, ~partial, NEW x \in Object, Settled(x),
                        Matches(x) # {} \/ x \notin todo'
                 PROVE  crossMatches'[x] = Matches(x)
      BY <1>15 DEF EmptyUnmatched, Committed, Settled, Exact, Matches
    <3>1. CASE x = o
      <4>1. x \in Matched <=> Matches(x) # {}
        BY <1>15, PagesOfSettled DEF EmptyUnmatched, RunFollowsState, Committing, CatalogIsWhole
      <4>2. (\E g \in grouped : g[1] = x) <=> x \in Matched
        <5>1. grouped = {<<y, PagesOf(y)>> : y \in Matched}
          BY <1>15 DEF EmptyUnmatched, WorkingIsOlder
        <5>2. \A y \in Matched : <<y, PagesOf(y)>> \in grouped /\ <<y, PagesOf(y)>>[1] = y
          BY <5>1
        <5>3. \A g \in grouped : \E y \in Matched : g[1] = y
          BY <5>1
        <5> QED
          BY <5>2, <5>3
      <4>3. x \in inserted /\ created[x] < startedAt
        BY <1>15 DEF EmptyUnmatched, Settled, RunFollowsState, Committing
      <4>4. CASE Matches(x) = {}
        BY <1>15, <3>1, <4>1, <4>2, <4>3, <4>4 DEF EmptyUnmatched, CrossmatchTypeOK
      <4>5. CASE Matches(x) # {}
        BY <1>15, <3>1, <4>1, <4>2, <4>5 DEF EmptyUnmatched, CrossmatchTypeOK, Committed, Exact
      <4> QED
        BY <4>4, <4>5
    <3>2. CASE x # o
      BY <1>15, <3>2 DEF EmptyUnmatched, CrossmatchTypeOK, Committed, Exact
    <3> QED
      BY <3>1, <3>2
  <2>3. /\ RunFollowsState' /\ WorkingIsOlder' /\ PagesInHand' /\ PagesAreWhole'
        /\ CheckpointIsSound' /\ CatalogIsWhole' /\ CleanIsExact'
    BY <1>15 DEF EmptyUnmatched, CrossmatchTypeOK, RunFollowsState, Matching, Committing,
        WorkingIsOlder, Resumable, Matched, PagesOf, PagesInHand, Whole, Settled,
        PagesAreWhole, CheckpointIsSound, CatalogIsWhole, CleanIsExact, Matches
  <2> QED
    BY <2>1, <2>2, <2>3 DEF CrossmatchInv
<1>16. CASE EmptyEnds
  <2>1. CrossmatchTypeOK'
    BY <1>16 DEF EmptyEnds, CrossmatchTypeOK, Steps, Page
  <2>2. Committed'
    BY <1>16 DEF EmptyEnds, CrossmatchTypeOK, Committed, Settled, Exact, Matches
  <2>3. /\ RunFollowsState' /\ WorkingIsOlder' /\ PagesInHand' /\ PagesAreWhole'
        /\ CheckpointIsSound' /\ CatalogIsWhole' /\ CleanIsExact'
    BY <1>16 DEF EmptyEnds, CrossmatchTypeOK, RunFollowsState, Matching, Committing,
        WorkingIsOlder, Resumable, Matched, PagesOf, PagesInHand, Whole, Settled,
        PagesAreWhole, CheckpointIsSound, CatalogIsWhole, CleanIsExact, Matches
  <2> QED
    BY <2>1, <2>2, <2>3 DEF CrossmatchInv
<1>17. CASE SetClean
  <2>1. CrossmatchTypeOK'
    BY <1>17 DEF SetClean, CrossmatchTypeOK, Steps, Page
  <2>2. CleanIsExact'
    BY <1>17 DEF SetClean, CleanIsExact, Committed, Settled, Exact, Matches
  <2>3. /\ RunFollowsState' /\ WorkingIsOlder' /\ PagesInHand' /\ PagesAreWhole'
        /\ CheckpointIsSound' /\ CatalogIsWhole' /\ Committed'
    BY <1>17 DEF SetClean, CrossmatchTypeOK, RunFollowsState, Matching, Committing,
        WorkingIsOlder, Resumable, Matched, PagesOf, PagesInHand, Whole, Settled,
        PagesAreWhole, CheckpointIsSound, CatalogIsWhole, Committed, Exact, Matches
  <2> QED
    BY <2>1, <2>2, <2>3 DEF CrossmatchInv
<1>18. CASE DropWorking
  <2>1. CrossmatchTypeOK'
    <3>1. ResetRun
      BY <1>18 DEF DropWorking, EndRun
    <3>2. /\ channel' = {} /\ tracked' = {}
          /\ holds' \in [Worker -> Page \cup {NoPage}]
          /\ found' \in [Worker -> SUBSET Object]
          /\ phase' \in [Worker -> {"recv", "match", "insert", "complete"}]
      BY <3>1, ResetRunType
    <3>3. canceled' \in BOOLEAN
      BY <1>18 DEF DropWorking, EndRun, CrossmatchTypeOK
    <3>4. fed' \in 0 .. NPages
      BY <1>18 DEF DropWorking, EndRun, CrossmatchTypeOK
    <3>5. step' \in Steps
      BY <1>18 DEF DropWorking, EndRun, Steps
    <3> QED
      BY <1>18, <3>2, <3>3, <3>4, <3>5 DEF DropWorking, EndRun, CrossmatchTypeOK
  <2>2. /\ RunFollowsState' /\ WorkingIsOlder' /\ PagesInHand' /\ PagesAreWhole'
        /\ CheckpointIsSound' /\ CatalogIsWhole' /\ Committed' /\ CleanIsExact'
    BY <1>18 DEF DropWorking, EndRun, ResetRun, CrossmatchTypeOK, RunFollowsState, Matching,
        Committing, WorkingIsOlder, Resumable, Matched, PagesOf, PagesInHand, Whole,
        Settled, PagesAreWhole, CheckpointIsSound, CatalogIsWhole, Committed, Exact,
        Matches, CleanIsExact
  <2> QED
    BY <2>1, <2>2 DEF CrossmatchInv
<1> QED
  BY <1>1, <1>2, <1>3, <1>4, <1>5, <1>6, <1>7, <1>8, <1>9, <1>10, <1>11, <1>12, <1>13,
      <1>14, <1>15, <1>16, <1>17, <1>18 DEF CatalogDriven

\* The run driven by the objects.
LEMMA ObjectsStep == CrossmatchInv /\ ObjectsDriven => CrossmatchInv'
<1> SUFFICES ASSUME CrossmatchInv, ObjectsDriven PROVE CrossmatchInv'
  OBVIOUS
<1> USE CrossmatchAssumption DEF CrossmatchInv, aux, stateDoc, working, run, producer, workers,
                                 bounds, pastOfRun
<1>1. ASSUME NEW skipExisting \in BOOLEAN, BeginObjects(skipExisting) PROVE CrossmatchInv'
  <2>1. CrossmatchTypeOK'
    BY <1>1 DEF BeginObjects, CrossmatchTypeOK, Steps, Page
  <2>2. /\ RunFollowsState' /\ WorkingIsOlder' /\ PagesInHand' /\ PagesAreWhole'
        /\ CheckpointIsSound' /\ CatalogIsWhole' /\ Committed' /\ CleanIsExact'
    BY <1>1 DEF BeginObjects, CrossmatchTypeOK, RunFollowsState, Matching, Committing,
        WorkingIsOlder, Resumable, Matched, PagesOf, PagesInHand, Whole, Settled,
        PagesAreWhole, CheckpointIsSound, CatalogIsWhole, Committed, Exact, Matches,
        CleanIsExact
  <2> QED
    BY <2>1, <2>2 DEF CrossmatchInv
<1>2. ASSUME NEW o \in Object, FlushObject(o) PROVE CrossmatchInv'
  <2>1. CrossmatchTypeOK'
    <3>1. crossMatches' \in [Object -> {NoField} \cup SUBSET Page]
      BY <1>2, MatchesType DEF FlushObject, CrossmatchTypeOK
    <3> QED
      BY <1>2, <3>1 DEF FlushObject, CrossmatchTypeOK
  <2>2. /\ RunFollowsState' /\ WorkingIsOlder' /\ PagesInHand' /\ PagesAreWhole'
        /\ CheckpointIsSound' /\ CatalogIsWhole' /\ Committed' /\ CleanIsExact'
    BY <1>2 DEF FlushObject, CrossmatchTypeOK, RunFollowsState, Matching, Committing,
        WorkingIsOlder, Resumable, Matched, PagesOf, PagesInHand, Whole, Settled,
        PagesAreWhole, CheckpointIsSound, CatalogIsWhole, Committed, Exact, Matches,
        CleanIsExact
  <2> QED
    BY <2>1, <2>2 DEF CrossmatchInv
<1>3. CASE ObjectsEnd
  <2>1. CrossmatchTypeOK'
    <3>1. ResetRun
      BY <1>3 DEF ObjectsEnd, EndRun
    <3>2. /\ channel' = {} /\ tracked' = {}
          /\ holds' \in [Worker -> Page \cup {NoPage}]
          /\ found' \in [Worker -> SUBSET Object]
          /\ phase' \in [Worker -> {"recv", "match", "insert", "complete"}]
      BY <3>1, ResetRunType
    <3>3. canceled' \in BOOLEAN
      BY <1>3 DEF ObjectsEnd, EndRun, CrossmatchTypeOK
    <3>4. fed' \in 0 .. NPages
      BY <1>3 DEF ObjectsEnd, EndRun, CrossmatchTypeOK
    <3>5. step' \in Steps
      BY <1>3 DEF ObjectsEnd, EndRun, Steps
    <3> QED
      BY <1>3, <3>2, <3>3, <3>4, <3>5 DEF ObjectsEnd, EndRun, CrossmatchTypeOK
  <2>2. /\ RunFollowsState' /\ WorkingIsOlder' /\ PagesInHand' /\ PagesAreWhole'
        /\ CheckpointIsSound' /\ CatalogIsWhole' /\ Committed' /\ CleanIsExact'
    BY <1>3 DEF ObjectsEnd, EndRun, ResetRun, CrossmatchTypeOK, RunFollowsState, Matching,
        Committing, WorkingIsOlder, Resumable, Matched, PagesOf, PagesInHand, Whole,
        Settled, PagesAreWhole, CheckpointIsSound, CatalogIsWhole, Committed, Exact,
        Matches, CleanIsExact
  <2> QED
    BY <2>1, <2>2 DEF CrossmatchInv
<1> QED
  BY <1>1, <1>2, <1>3 DEF ObjectsDriven

\* The removal.
LEMMA RemoveStep == CrossmatchInv /\ RemoveCatalog => CrossmatchInv'
<1> SUFFICES ASSUME CrossmatchInv, RemoveCatalog PROVE CrossmatchInv'
  OBVIOUS
<1> USE CrossmatchAssumption DEF CrossmatchInv, aux, stateDoc, working, run, producer, workers,
                                 bounds, pastOfRun
<1>1. ASSUME NEW read \in BOOLEAN, BeginRemove(read) PROVE CrossmatchInv'
  <2>1. CrossmatchTypeOK'
    BY <1>1 DEF BeginRemove, CrossmatchTypeOK, Steps, Page
  <2>2. /\ RunFollowsState' /\ WorkingIsOlder' /\ PagesInHand' /\ PagesAreWhole'
        /\ CheckpointIsSound' /\ CatalogIsWhole' /\ Committed' /\ CleanIsExact'
    BY <1>1 DEF BeginRemove, CrossmatchTypeOK, RunFollowsState, Matching, Committing,
        WorkingIsOlder, Resumable, Matched, PagesOf, PagesInHand, Whole, Settled,
        PagesAreWhole, CheckpointIsSound, CatalogIsWhole, Committed, Exact, Matches,
        CleanIsExact
  <2> QED
    BY <2>1, <2>2 DEF CrossmatchInv
<1>2. ASSUME NEW o \in Object, RemoveField(o) PROVE CrossmatchInv'
  <2>1. CrossmatchTypeOK'
    BY <1>2 DEF RemoveField, CrossmatchTypeOK, Steps, Page
  <2>2. /\ RunFollowsState' /\ WorkingIsOlder' /\ PagesInHand' /\ PagesAreWhole'
        /\ CheckpointIsSound' /\ CatalogIsWhole' /\ Committed' /\ CleanIsExact'
    BY <1>2 DEF RemoveField, CrossmatchTypeOK, RunFollowsState, Matching, Committing,
        WorkingIsOlder, Resumable, Matched, PagesOf, PagesInHand, Whole, Settled,
        PagesAreWhole, CheckpointIsSound, CatalogIsWhole, Committed, Exact, Matches,
        CleanIsExact
  <2> QED
    BY <2>1, <2>2 DEF CrossmatchInv
<1>3. CASE ClearState
  <2>1. CrossmatchTypeOK'
    BY <1>3 DEF ClearState, CrossmatchTypeOK, Steps, Page
  <2>2. /\ RunFollowsState' /\ WorkingIsOlder' /\ PagesInHand' /\ PagesAreWhole'
        /\ CheckpointIsSound' /\ CatalogIsWhole' /\ Committed' /\ CleanIsExact'
    BY <1>3 DEF ClearState, CrossmatchTypeOK, RunFollowsState, Matching, Committing,
        WorkingIsOlder, Resumable, Matched, PagesOf, PagesInHand, Whole, Settled,
        PagesAreWhole, CheckpointIsSound, CatalogIsWhole, Committed, Exact, Matches,
        CleanIsExact
  <2> QED
    BY <2>1, <2>2 DEF CrossmatchInv
<1> QED
  BY <1>1, <1>2, <1>3 DEF RemoveCatalog

\* The rest.
LEMMA BreakStep == CrossmatchInv /\ (Cancel \/ AbortRun \/ Redeploy) => CrossmatchInv'
<1> SUFFICES ASSUME CrossmatchInv, (Cancel \/ AbortRun \/ Redeploy) PROVE CrossmatchInv'
  OBVIOUS
<1> USE CrossmatchAssumption DEF CrossmatchInv, aux, stateDoc, working, run, producer, workers,
                                 bounds, pastOfRun
<1>1. CASE Cancel
  <2>1. CrossmatchTypeOK'
    BY <1>1 DEF Cancel, CrossmatchTypeOK, Steps, Page
  <2>2. /\ RunFollowsState' /\ WorkingIsOlder' /\ PagesInHand' /\ PagesAreWhole'
        /\ CheckpointIsSound' /\ CatalogIsWhole' /\ Committed' /\ CleanIsExact'
    BY <1>1 DEF Cancel, CrossmatchTypeOK, RunFollowsState, Matching, Committing,
        WorkingIsOlder, Resumable, Matched, PagesOf, PagesInHand, Whole, Settled,
        PagesAreWhole, CheckpointIsSound, CatalogIsWhole, Committed, Exact, Matches,
        CleanIsExact
  <2> QED
    BY <2>1, <2>2 DEF CrossmatchInv
<1>2. CASE AbortRun
  <2>1. CrossmatchTypeOK'
    <3>1. ResetRun
      BY <1>2 DEF AbortRun, EndRun
    <3>2. /\ channel' = {} /\ tracked' = {}
          /\ holds' \in [Worker -> Page \cup {NoPage}]
          /\ found' \in [Worker -> SUBSET Object]
          /\ phase' \in [Worker -> {"recv", "match", "insert", "complete"}]
      BY <3>1, ResetRunType
    <3>3. canceled' \in BOOLEAN
      BY <1>2 DEF AbortRun, EndRun, CrossmatchTypeOK
    <3>4. fed' \in 0 .. NPages
      BY <1>2 DEF AbortRun, EndRun, CrossmatchTypeOK
    <3>5. step' \in Steps
      BY <1>2 DEF AbortRun, EndRun, Steps
    <3> QED
      BY <1>2, <3>2, <3>3, <3>4, <3>5 DEF AbortRun, EndRun, CrossmatchTypeOK
  <2>2. /\ RunFollowsState' /\ WorkingIsOlder' /\ PagesInHand' /\ PagesAreWhole'
        /\ CheckpointIsSound' /\ CatalogIsWhole' /\ Committed' /\ CleanIsExact'
    BY <1>2 DEF AbortRun, EndRun, ResetRun, CrossmatchTypeOK, RunFollowsState, Matching,
        Committing, WorkingIsOlder, Resumable, Matched, PagesOf, PagesInHand, Whole,
        Settled, PagesAreWhole, CheckpointIsSound, CatalogIsWhole, Committed, Exact,
        Matches, CleanIsExact
  <2> QED
    BY <2>1, <2>2 DEF CrossmatchInv
<1>3. CASE Redeploy
  <2>1. CrossmatchTypeOK'
    <3>1. /\ created' \in [Object -> Nat \cup {NotYet}]
          /\ \A x \in inserted' : created'[x] \in Nat
          /\ crossMatches' \in [Object -> {NoField} \cup SUBSET Page]
      BY <1>3 DEF Redeploy, CrossmatchTypeOK
    <3>2. ResetRun
      BY <1>3 DEF Redeploy, EndRun
    <3>3. /\ channel' = {} /\ tracked' = {}
          /\ holds' \in [Worker -> Page \cup {NoPage}]
          /\ found' \in [Worker -> SUBSET Object]
          /\ phase' \in [Worker -> {"recv", "match", "insert", "complete"}]
      BY <3>2, ResetRunType
    <3>4. declared' \in BOOLEAN /\ canceled' \in BOOLEAN
      BY <1>3 DEF Redeploy, EndRun, CrossmatchTypeOK
    <3>5. fed' \in 0 .. NPages
      BY <1>3 DEF Redeploy, EndRun, CrossmatchTypeOK
    <3>6. step' \in Steps
      BY <1>3 DEF Redeploy, EndRun, Steps
    <3> QED
      BY <1>3, <3>1, <3>3, <3>4, <3>5, <3>6 DEF Redeploy, EndRun, CrossmatchTypeOK
  <2>2. WorkingIsOlder'
    BY <1>3 DEF Redeploy, EndRun, ResetRun, CrossmatchTypeOK, WorkingIsOlder, Resumable,
        Matched, PagesOf
  <2>3. PagesInHand'
    BY <1>3 DEF Redeploy, EndRun, ResetRun, CrossmatchTypeOK, PagesInHand, Matching, Whole,
        Settled
  <2>4. PagesAreWhole'
    BY <1>3 DEF Redeploy, EndRun, ResetRun, CrossmatchTypeOK, PagesAreWhole, Matching,
        Whole, Settled
  <2>5. CheckpointIsSound'
    BY <1>3 DEF Redeploy, EndRun, ResetRun, CrossmatchTypeOK, CheckpointIsSound, Settled
  <2>6. CatalogIsWhole'
    BY <1>3 DEF Redeploy, EndRun, ResetRun, CrossmatchTypeOK, CatalogIsWhole, Whole, Settled
  <2>7. Committed'
    BY <1>3 DEF Redeploy, EndRun, ResetRun, CrossmatchTypeOK, Committed, Settled, Exact,
        Matches
  <2>8. CleanIsExact'
    BY <1>3 DEF Redeploy, EndRun, ResetRun, CrossmatchTypeOK, CleanIsExact, Settled, Matches
  <2>9. RunFollowsState'
    BY <1>3 DEF Redeploy, EndRun, ResetRun, CrossmatchTypeOK, RunFollowsState, Matching,
        Committing
  <2> QED
    BY <2>1, <2>2, <2>3, <2>4, <2>5, <2>6, <2>7, <2>8, <2>9 DEF CrossmatchInv
<1> QED
  BY <1>1, <1>2, <1>3

\* Every step keeps the invariant.
LEMMA CrossmatchStep == CrossmatchInv /\ [CrossmatchNext]_crossmatchVars => CrossmatchInv'
<1> SUFFICES ASSUME CrossmatchInv, [CrossmatchNext]_crossmatchVars PROVE CrossmatchInv'
  OBVIOUS
<1>1. CASE CatalogDriven \/ ObjectsDriven \/ RemoveCatalog
  BY <1>1, CatalogStep, ObjectsStep, RemoveStep
<1>2. CASE Cancel \/ AbortRun \/ Redeploy \/ \E o \in Object : Stamp(o) \/ InsertObject(o)
  BY <1>2, BreakStep, AlertStep
<1>3. CASE UNCHANGED crossmatchVars
  <2> USE DEF crossmatchVars, aux, stateDoc, working, run, producer, workers, bounds, pastOfRun,
             CrossmatchInv
  <2>1. CrossmatchTypeOK' /\ RunFollowsState'
    BY <1>3 DEF CrossmatchTypeOK, RunFollowsState, Matching, Committing
  <2>2. WorkingIsOlder'
    BY <1>3 DEF WorkingIsOlder, Resumable, Matched, PagesOf
  <2>3. PagesInHand' /\ PagesAreWhole' /\ CatalogIsWhole' /\ CheckpointIsSound'
    BY <1>3 DEF PagesInHand, PagesAreWhole, CatalogIsWhole, CheckpointIsSound, Matching, Whole,
       Settled
  <2>4. Committed' /\ CleanIsExact'
    BY <1>3 DEF Committed, CleanIsExact, Settled, Exact, Matches
  <2> QED
    BY <2>1, <2>2, <2>3, <2>4
<1> QED
  BY <1>1, <1>2, <1>3 DEF CrossmatchNext

\* It holds before the first run.
LEMMA CrossmatchStart == CrossmatchInit => CrossmatchInv
<1> SUFFICES ASSUME CrossmatchInit PROVE CrossmatchInv
  OBVIOUS
<1> USE CrossmatchAssumption
<1>1. CrossmatchTypeOK
  <2>1. crossMatches \in [Object -> {NoField} \cup SUBSET Page]
    BY DEF CrossmatchInit
  <2>2. /\ created \in [Object -> Nat \cup {NotYet}] /\ inserted \subseteq Object
        /\ \A o \in inserted : created[o] \in Nat
    BY DEF CrossmatchInit
  <2>3. /\ declared \in BOOLEAN /\ canceled \in BOOLEAN /\ skipEmpty \in BOOLEAN
        /\ partial \in BOOLEAN /\ restartTorn \in BOOLEAN
    BY DEF CrossmatchInit
  <2>4. /\ holds \in [Worker -> Page \cup {NoPage}] /\ found \in [Worker -> SUBSET Object]
        /\ phase \in [Worker -> {"recv", "match", "insert", "complete"}]
    BY DEF CrossmatchInit
  <2>5. step \in Steps /\ runStatus \in {"none", "matching", "committing", "clean"}
    BY DEF CrossmatchInit, Steps
  <2> QED
    BY <2>1, <2>2, <2>3, <2>4, <2>5 DEF CrossmatchInit, CrossmatchTypeOK
<1>2. RunFollowsState /\ WorkingIsOlder /\ PagesInHand /\ PagesAreWhole
  BY DEF CrossmatchInit, RunFollowsState, WorkingIsOlder, PagesInHand, PagesAreWhole, Matching,
     Committing, Resumable
<1>3. CheckpointIsSound /\ CatalogIsWhole /\ Committed /\ CleanIsExact
  BY DEF CrossmatchInit, CheckpointIsSound, CatalogIsWhole, Committed, CleanIsExact
<1> QED
  BY <1>1, <1>2, <1>3 DEF CrossmatchInv

\* CrossmatchInv is an inductive invariant, for every catalog, every number of
\* workers, runs, objects and interruptions.
THEOREM CrossmatchInvariant == CrossmatchSpec => []CrossmatchInv
BY CrossmatchStart, CrossmatchStep, PTL DEF CrossmatchSpec

\* What a resumed run skips, up to last_completed, it need not match again: for every catalog,
\* every order in which the workers complete pages and every point at which runs are ended.
THEOREM CheckpointHolds == CrossmatchSpec => []CheckpointIsSound
<1>1. CrossmatchInv => CheckpointIsSound
  BY DEF CrossmatchInv
<1> QED
  BY <1>1, CrossmatchInvariant, PTL

\* A catalog driven run that ends clean leaves on every older object exactly the matches of
\* the whole catalog, over any number of interrupted runs that it took.
THEOREM CleanRunIsExact == CrossmatchSpec => []CleanIsExact
<1>1. CrossmatchInv => CleanIsExact
  BY DEF CrossmatchInv
<1> QED
  BY <1>1, CrossmatchInvariant, PTL

\* No step of a run changes an object as young as the run.
LEMMA NewerStep ==
  ASSUME CrossmatchInv, [CrossmatchNext]_crossmatchVars,
         step \in {"match", "join", "group", "merge", "empty"}, declared' = declared,
         NEW o \in inserted, created[o] >= startedAt
  PROVE  crossMatches'[o] = crossMatches[o]
<1> USE DEF CrossmatchInv
<1>0. o \in Object /\ created[o] \in Nat /\ startedAt \in Nat
  BY DEF CrossmatchTypeOK
<1>1. ASSUME NEW x \in Object, Stamp(x) PROVE crossMatches'[o] = crossMatches[o]
  <2>1. x # o
    BY <1>0, <1>1, CrossmatchAssumption DEF Stamp
  <2> QED
    BY <1>0, <1>1, <2>1 DEF Stamp, CrossmatchTypeOK
<1>2. ASSUME NEW x \in Object, MergeMatched(x) PROVE crossMatches'[o] = crossMatches[o]
  <2>1. x \in Matched /\ Resumable /\ startedAt = runStart
    BY <1>2 DEF MergeMatched, WorkingIsOlder, RunFollowsState, Committing, Resumable
  <2>2. created[x] < startedAt
    BY <2>1 DEF Matched, WorkingIsOlder
  <2>3. x # o
    BY <1>0, <2>2
  <2> QED
    BY <1>0, <1>2, <2>3 DEF MergeMatched, CrossmatchTypeOK
<1>3. ASSUME NEW x \in Object, EmptyUnmatched(x) PROVE crossMatches'[o] = crossMatches[o]
  BY <1>0, <1>3 DEF EmptyUnmatched, CrossmatchTypeOK
<1>4. CASE Redeploy
  BY <1>4 DEF Redeploy, CrossmatchTypeOK
<1>5. ASSUME NEW x \in Object, InsertObject(x) PROVE crossMatches'[o] = crossMatches[o]
  BY <1>5 DEF InsertObject
<1>6. CASE ObjectsDriven \/ RemoveCatalog
  BY <1>6 DEF ObjectsDriven, RemoveCatalog, BeginObjects, FlushObject, ObjectsEnd, BeginRemove, RemoveField,
     ClearState, aux
<1>7. CASE Cancel \/ AbortRun \/ UNCHANGED crossmatchVars
  BY <1>7 DEF Cancel, AbortRun, crossmatchVars, aux
<1>8. ASSUME CatalogDriven, \A x \in Object : ~MergeMatched(x) /\ ~EmptyUnmatched(x)
      PROVE  crossMatches'[o] = crossMatches[o]
  BY <1>8 DEF CatalogDriven, BeginResume, BeginFresh, SetFreshState, Feed, FeedEnds, FeedCanceled,
     Recv, MatchPage, InsertMatches, CompletePage, MatchEnds, Group, MergeEnds, EmptyEnds, SetClean,
     DropWorking, aux
<1> QED
  BY <1>1, <1>2, <1>3, <1>4, <1>5, <1>6, <1>7, <1>8 DEF CrossmatchNext

\* No step of a run changes the matches of an object created since the run began.
THEOREM NewerStaysUntouched == CrossmatchSpec => NewerIsUntouched
<1>1. CrossmatchInv /\ [CrossmatchNext]_crossmatchVars =>
        [(step \in {"match", "join", "group", "merge", "empty"} /\ declared' = declared) =>
           \A o \in inserted : created[o] >= startedAt => crossMatches'[o] = crossMatches[o]]_crossmatchVars
  BY NewerStep
<1> QED
  BY <1>1, CrossmatchInvariant, PTL DEF CrossmatchSpec, NewerIsUntouched
=============================================================================
