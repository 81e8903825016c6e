------------------------------- MODULE MCApi -------------------------------
(***************************************************************************)
(* The machines of the API for TLC.  They touch different documents, or    *)
(* different fields of them, so that their interleavings add nothing: a    *)
(* behaviour moves the machine it has chosen at the start.                 *)
(***************************************************************************)
EXTENDS AdminAccess, SignIn, FilterVersions, TLC

CONSTANTS
    r1, r2, r3, u1, u2, e1, e2, i1, i2, s1, s2,
    narrow, wide, broken,       \* pipelines
    few, all, none,             \* permissions
    f1, f2, f3, f4,             \* requests that change a filter, f4 of a stranger
    Skips,                      \* may they ask for skip_validation
    Machines

VARIABLE machine

PatchOf(a, m, g, r) == [admin |-> a, mode |-> m, grant |-> g, revoke |-> r]
Demote == PatchOf("drop", "none", {}, {})
DemoteAndEdit == PatchOf("drop", "delta", {}, {Winter})
Promote == PatchOf("grant", "none", {}, {})
GrantCaltech == PatchOf("keep", "delta", {Caltech}, {})
RevokePartnership == PatchOf("keep", "delta", {Winter}, {Partnership})

\* Two demotions may race, with an edit of the list; so may three edits.
MCSends == (r1 :> {DemoteAndEdit}) @@ (r2 :> {Demote, GrantCaltech})
             @@ (r3 :> {Promote, RevokePartnership})
MCAcls == (u1 :> {}) @@ (u2 :> {Caltech, Partnership})

\* The first attempt gets a ticket, the second a verified address.
MCProvides == (s1 :> {<<i1, Nobody>>})
                @@ (s2 :> {<<i1, e1>>, <<i2, e1>>, <<i2, e2>>})
MCBefore == (e1 :> {}) @@ (e2 :> {i2})

PatchWith(a, fid, q, skip) ==
    [kind |-> "patch", active |-> a, active_fid |-> fid, permissions |-> q, skip_validation |-> skip]
Switch == {PatchWith(a, Absent, Absent, FALSE) : a \in BOOLEAN}
Regrant == {PatchWith(Absent, Absent, q, FALSE) : q \in Grants}
Choose == {PatchWith(a, fid, Absent, FALSE) : a \in {TRUE, Absent}, fid \in {First, f2}}
Skip == IF Skips THEN {PatchWith(TRUE, fid, all, TRUE) : fid \in {f2, Absent}} ELSE {}

\* One request patches, one adds a version, and one does either or deletes.
MCBodies == (f1 :> Switch \union Regrant \union Skip)
              @@ (f2 :> VersionBody)
              @@ (f3 :> Switch \union Choose \union VersionBody \union DeleteBody)
              @@ (f4 :> DeleteBody)

\* The wide pipeline lets too much through, the narrow one only with all
\* permissions.
MCRefused == {<<wide, few>>, <<wide, all>>, <<narrow, all>>}

HandlerSymmetry == Permutations(Handlers)

\* The machine that does not move stays in one of its initial states.
AdminAtRest ==
    /\ admins = {u1}
    /\ target = [r \in Requests |-> u1]
    /\ patch = [r \in Requests |-> CHOOSE p \in Sends[r] : TRUE]

ApiInit ==
    /\ machine \in Machines
    /\ AdminInit /\ SignInInit /\ FilterInit
    /\ machine # "signIn" => registration
    /\ machine # "admin" => AdminAtRest

ApiNext ==
    \/ machine = "admin" /\ AdminNext /\ UNCHANGED <<machine, signInVars, filterVars>>
    \/ machine = "signIn" /\ SignInNext /\ UNCHANGED <<machine, adminVars, filterVars>>
    \/ machine = "filter" /\ FilterNext /\ UNCHANGED <<machine, adminVars, signInVars>>

ApiSpec == ApiInit /\ [][ApiNext]_<<machine, adminVars, signInVars, filterVars>>
=============================================================================
