--------------------------- MODULE FilterVersions ---------------------------
(***************************************************************************)
(* The life of a filter (src/src/api/routes/filters.rs, add_filter.rs).  A *)
(* filter is a document with its versions, one of them the active one, its *)
(* permissions, and whether it is active, that is, run by the filter       *)
(* workers.  A filter that would let too many alerts through is not to be  *)
(* activated: the requests check what they find in the document, and then  *)
(* write to it by its _id, whatever has become of it meanwhile.            *)
(*                                                                         *)
(* A version has the name of the request that made it, as each makes a new *)
(* uuid.  What the check counts are the alerts of nights long past.        *)
(***************************************************************************)
EXTENDS Integers, FiniteSets

CONSTANTS
    Editors,            \* requests that change the filter
    Bodies,             \* what a request may carry
    May,                \* the requests of the owner or of an admin
    Pipelines,
    Grants,             \* the permissions that a filter may have
    Lacking,            \* those without an entry for the filter's survey
    Broken,             \* pipelines that fail the test on the latest alert
    Refused,            \* pairs that validate_filter_activation turns away
    First,              \* the version that comes with the filter
    Unposted, Deleted,  \* no document: not yet, or no more
    Absent              \* None

Fid == Editors \union {First}

\* FilterPatch, FilterVersionPost, and a DELETE.
PatchBody == [kind : {"patch"}, active : BOOLEAN \union {Absent}, active_fid : Fid \union {Absent},
              permissions : Grants \union {Absent}, skip_validation : BOOLEAN]
VersionBody == [kind : {"version"}, pipeline : Pipelines, set_as_active : BOOLEAN]
DeleteBody == [kind : {"delete"}]

\* Filter; of a version only its pipeline.
Versions == UNION {[fids -> Pipelines] : fids \in SUBSET Fid}
Document == [active : BOOLEAN, active_fid : Fid, permissions : Grants, fv : Versions]

ASSUME FilterAssumption ==
    /\ Bodies \in [Editors -> SUBSET (PatchBody \union VersionBody \union DeleteBody)]
    /\ May \subseteq Editors /\ Lacking \subseteq Grants /\ Broken \subseteq Pipelines
    /\ Refused \subseteq Pipelines \X Grants
    /\ First \notin Editors /\ Unposted # Deleted
    /\ Unposted \notin Document /\ Deleted \notin Document
    /\ Absent \notin Grants \union Fid \union BOOLEAN

VARIABLES
    filter,     \* the document
    stage,      \* of a request
    body,       \* what it carries
    seen,       \* the document that it has read
    waived,     \* history: what was activated with skip_validation, or added as active
    overtaken   \* history: what was activated by a write to a document that
                \* was no longer the one its request had checked

filterVars == <<filter, stage, body, seen, waived, overtaken>>

FilterInit ==
    /\ filter = Unposted
    /\ stage = [r \in Editors |-> "idle"]
    /\ body = [r \in Editors |-> Absent]
    /\ seen = [r \in Editors |-> Unposted]
    /\ waived = {} /\ overtaken = {}

Stored == filter \notin {Unposted, Deleted}

\* What the filter workers run, when the filter is active.
Executes(f) == <<f.fv[f.active_fid], f.permissions>>

\* build_and_test_filter_version: the pipeline can be run.
Works(p) == p \notin Broken

\* validate_filter_activation: of the alerts of the reference nights that the
\* permissions give access to, and there are some, few enough match.
Validates(execution) == execution \notin Refused

----------------------------------------------------------------------------
NewFilter(on, p, q) ==
    [active |-> on, active_fid |-> First, permissions |-> q, fv |-> [fid \in {First} |-> p]]

\* post_filter: a new filter has one version, and is not active.
PostFilter(p, q) ==
    /\ filter = Unposted
    /\ q \notin Lacking /\ Works(p)
    /\ filter' = NewFilter(FALSE, p, q)
    /\ UNCHANGED <<stage, body, seen, waived, overtaken>>

\* The command line adds one that is active, and tests and checks nothing.
AddFilter(p, q) ==
    /\ filter = Unposted
    /\ q \notin Lacking
    /\ filter' = NewFilter(TRUE, p, q)
    /\ waived' = {<<p, q>>}
    /\ UNCHANGED <<stage, body, seen, overtaken>>

\* A request is answered; it has changed the document, or not.
Return(r, how) ==
    /\ stage' = [stage EXCEPT ![r] = how]
    /\ seen' = [seen EXCEPT ![r] = Unposted]

\* The other requests read the document first,
ReadFilter(r, b) ==
    /\ stage[r] = "idle" /\ b.kind # "delete"
    /\ body' = [body EXCEPT ![r] = b]
    /\ IF Stored /\ r \in May
         THEN seen' = [seen EXCEPT ![r] = filter] /\ stage' = [stage EXCEPT ![r] = "check"]
         ELSE Return(r, "refused")
    /\ UNCHANGED <<filter, waived, overtaken>>

WithDefault(option, default) == IF option = Absent THEN default ELSE option

\* A bug: new permissions are not taken for a change of what is executed.
ExecChangedByFid(b, f) ==
    (b.active = TRUE /\ ~ f.active) \/ b.active_fid # Absent

ExecChanged(b, f) ==
    (b.active = TRUE /\ ~ f.active) \/ b.active_fid # Absent \/ b.permissions # Absent

WillBeActive(b, f) == WithDefault(b.active, f.active)

\* What patch_filter makes of the document.
Patched(b, f) ==
    [f EXCEPT !.active = WithDefault(b.active, @),
              !.active_fid = WithDefault(b.active_fid, @),
              !.permissions = WithDefault(b.permissions, @)]

\* then check what they have read: patch_filter, unless it is told not to,
PatchPasses(b, f) ==
    /\ b.active_fid \in DOMAIN f.fv \union {Absent}
    /\ b.permissions \notin Lacking
    /\ WillBeActive(b, f) /\ ExecChanged(b, f) /\ ~ b.skip_validation =>
         Validates(Executes(Patched(b, f)))

\* post_filter_version for a version that replaces the one in use,
VersionPasses(b, f) ==
    /\ Works(b.pipeline)
    /\ b.set_as_active /\ f.active => Validates(<<b.pipeline, f.permissions>>)

CheckEdit(r) ==
    /\ stage[r] = "check"
    /\ IF \/ body[r].kind = "patch" /\ PatchPasses(body[r], seen[r])
          \/ body[r].kind = "version" /\ VersionPasses(body[r], seen[r])
         THEN stage' = [stage EXCEPT ![r] = "write"] /\ UNCHANGED seen
         ELSE Return(r, "refused")
    /\ UNCHANGED <<filter, body, waived, overtaken>>

\* $push.
Pushed(r) ==
    [fid \in DOMAIN filter.fv \union {r} |-> IF fid = r THEN body[r].pipeline ELSE filter.fv[fid]]

Edited(r) ==
    IF body[r].kind = "patch" THEN Patched(body[r], filter)
    ELSE [filter EXCEPT !.fv = Pushed(r),
                        !.active_fid = IF body[r].set_as_active THEN r ELSE @]

\* Is what the check was about still what the document says.
Fresh(r) ==
    /\ seen[r].active = filter.active
    /\ seen[r].active_fid = filter.active_fid
    /\ seen[r].permissions = filter.permissions

Waives(r) == body[r].kind = "patch" /\ body[r].skip_validation

\* and write, in one update that a document which is gone does not make fail.
WriteEdit(r) ==
    /\ stage[r] = "write"
    /\ Return(r, "done")
    /\ IF Stored
         THEN /\ filter' = Edited(r)
              /\ LET run == IF filter'.active THEN {Executes(filter')} ELSE {} IN
                 /\ waived' = IF Waives(r) THEN waived \union run ELSE waived
                 /\ overtaken' = IF Fresh(r) THEN overtaken ELSE overtaken \union run
         ELSE UNCHANGED <<filter, waived, overtaken>>
    /\ UNCHANGED body

\* A call fails, or the client hangs up.
GiveUp(r) ==
    /\ stage[r] \in {"check", "write"}
    /\ Return(r, "refused")
    /\ UNCHANGED <<filter, body, waived, overtaken>>

\* delete_filter is one call.
DeleteFilter(r, b) ==
    /\ stage[r] = "idle" /\ b.kind = "delete"
    /\ body' = [body EXCEPT ![r] = b]
    /\ IF Stored /\ r \in May
         THEN filter' = Deleted /\ stage' = [stage EXCEPT ![r] = "done"]
         ELSE UNCHANGED filter /\ stage' = [stage EXCEPT ![r] = "refused"]
    /\ UNCHANGED <<seen, waived, overtaken>>

FilterNext ==
    \/ \E p \in Pipelines, q \in Grants : PostFilter(p, q) \/ AddFilter(p, q)
    \/ \E r \in Editors : \E b \in Bodies[r] : ReadFilter(r, b) \/ DeleteFilter(r, b)
    \/ \E r \in Editors : CheckEdit(r) \/ WriteEdit(r) \/ GiveUp(r)

FilterSpec == FilterInit /\ [][FilterNext]_filterVars

----------------------------------------------------------------------------
\* No version that was answered with its fid is ever lost to another request,
\* and the active one is among them: the filter workers find no pipeline, and
\* skip the filter, when it is not.
VersionsStand ==
    Stored =>
        /\ filter.active_fid \in DOMAIN filter.fv
        /\ \A r \in Editors :
             stage[r] = "done" /\ body[r].kind = "version" =>
               r \in DOMAIN filter.fv /\ filter.fv[r] = body[r].pipeline

\* Whatever order versions, switches, permissions and activations come in, an
\* active filter runs a pipeline with permissions that have passed the check,
\* unless they were let through on purpose (skip_validation, the command line)
\* or by a request that was overtaken by another.
OnlyRacesEvade ==
    Stored /\ filter.active =>
        Validates(Executes(filter)) \/ Executes(filter) \in waived \union overtaken

\* What is activated, or changed while it is active, was checked, unless the
\* request asked for skip_validation, as patch_filter says before its check.
ActiveIsChecked ==
    Stored /\ filter.active => Validates(Executes(filter)) \/ Executes(filter) \in waived
=============================================================================
