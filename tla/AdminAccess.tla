---------------------------- MODULE AdminAccess ----------------------------
(***************************************************************************)
(* PATCH /babamul/admin/users/{id} (src/src/api/routes/babamul/admin.rs):  *)
(* admins change each other's admin flag and the ACLs of an account, in    *)
(* requests that interleave at every call to the database.                 *)
(*                                                                         *)
(* That one admin remains spans documents, and the database offers no      *)
(* transaction: a demotion counts the admins under a lock with a lease.    *)
(* What protects an ACL edit is a compare-and-swap on the list it was      *)
(* computed from.                                                          *)
(***************************************************************************)
EXTENDS Integers, FiniteSets

CONSTANTS
    Users,
    Requests,
    Sends,              \* the patches that a request may carry
    Configured,         \* babamul.admin_emails
    InitialAcls,        \* the lists of the accounts at the start
    Legacy,             \* the accounts from before the field acls
    AclWriteAttempts,   \* ACL_WRITE_ATTEMPTS
    Lease,              \* DEMOTION_LOCK_SECONDS
    Deadline,           \* DEMOTION_DEADLINE
    WriteDelay,         \* server selection and QUERY_TIME
    TakeDelay,          \* from the clock read to the answer of a lock request
    Horizon,            \* bound: the end of time
    None

Winter == "winter"
Partnership == "ztf_partnership"
Caltech == "ztf_caltech"
Acl == {Winter, Partnership, Caltech}

\* A patch replaces the list (to the set "grant"), edits it, or leaves it.
Patch == [admin : {"keep", "grant", "drop"}, mode : {"none", "replace", "delta"},
          grant : SUBSET Acl, revoke : SUBSET Acl]

\* ZTF Caltech access comes with ZTF partnership access.
Lawful(list) == Caltech \in list => Partnership \in list

ASSUME AdminAssumption ==
    /\ IsFiniteSet(Users) /\ None \notin Requests
    /\ Sends \in [Requests -> SUBSET Patch] /\ Configured \subseteq Users
    /\ InitialAcls \in [Users -> SUBSET Acl] /\ Legacy \subseteq Users
    /\ \A u \in Users : Lawful(InitialAcls[u]) /\ (u \in Legacy => InitialAcls[u] = {})
    /\ AclWriteAttempts \in Nat \ {0}
    /\ Lease \in Nat /\ Deadline \in Nat /\ WriteDelay \in Nat /\ TakeDelay \in Nat
    /\ Horizon \in Nat

\* The lease outlasts the slowest demotion.  The constants of the code leave
\* 60 - (20 + 30 + 5) seconds for TakeDelay, which no timeout enforces.
ASSUME LeaseAssumption == TakeDelay + Deadline + WriteDelay < Lease

VARIABLES
    now,
    admins,                     \* the accounts with is_admin
    acls,                       \* of an account
    fieldless,                  \* the accounts whose document has no acls
    lockExpires, lockToken,     \* the document of the demotion lock
    pc, target, patch,          \* of a request
    sentAt, lockedAt, writeBy,  \* its times: lock request, lock, latest write
    seenAcls, attempt,          \* current.acls, and the attempt
    answer,
    rivals      \* history: the edits of its target by others since it read it

account == <<admins, acls, fieldless>>
lock == <<lockExpires, lockToken>>
request == <<target, patch>>
times == <<sentAt, lockedAt, writeBy>>
edit == <<seenAcls, attempt, answer, rivals>>
adminVars == <<now, account, lock, pc, request, times, edit>>

AdminInit ==
    /\ now = 1
    /\ admins \in (SUBSET Users) \ {{}}
    /\ acls = InitialAcls /\ fieldless = Legacy
    /\ lockExpires = 0 /\ lockToken = None
    /\ pc = [r \in Requests |-> "idle"]
    /\ target \in [Requests -> Users]
    /\ patch \in {p \in [Requests -> UNION {Sends[r] : r \in Requests}] :
                     \A r \in Requests : p[r] \in Sends[r]}
    /\ sentAt = [r \in Requests |-> 0]
    /\ lockedAt = [r \in Requests |-> 0]
    /\ writeBy = [r \in Requests |-> 0]
    /\ seenAcls = [r \in Requests |-> {}]
    /\ attempt = [r \in Requests |-> 1]
    /\ answer = [r \in Requests |-> "none"]
    /\ rivals = [r \in Requests |-> 0]

GoTo(r, place) == pc' = [pc EXCEPT ![r] = place]

\* A bug: the lock and the count are for promotions.
IsDemotionSwapped(r) == patch[r].admin = "grant"

IsDemotion(r) == patch[r].admin = "drop"

\* The request is answered; it releases the lock that it was made under.
\* What it no longer needs is forgotten here and where it ends.
Answer(r, what) ==
    /\ answer' = [answer EXCEPT ![r] = what]
    /\ seenAcls' = [seenAcls EXCEPT ![r] = {}]
    /\ attempt' = [attempt EXCEPT ![r] = 1]
    /\ writeBy' = [writeBy EXCEPT ![r] = 0]
    /\ GoTo(r, IF IsDemotion(r) THEN "release" ELSE "ended")

End(r) ==
    /\ sentAt' = [sentAt EXCEPT ![r] = 0]
    /\ lockedAt' = [lockedAt EXCEPT ![r] = 0]
    /\ GoTo(r, "ended")

----------------------------------------------------------------------------
\* patch_admin_user: the sender is an admin when the middleware looks, and
\* does not demote themselves.  Only a demotion needs the lock.
Arrive(r) ==
    /\ pc[r] = "idle"
    /\ \E a \in admins : ~ (IsDemotion(r) /\ a = target[r])
    /\ GoTo(r, IF IsDemotion(r) THEN "take" ELSE "read")
    /\ UNCHANGED <<now, account, lock, request, times, edit>>

\* take_demotion_lock: the clock is read, and the upsert is sent.
TakeSend(r) ==
    /\ pc[r] = "take"
    /\ sentAt' = [sentAt EXCEPT ![r] = now]
    /\ GoTo(r, "taking")
    /\ UNCHANGED <<now, account, lock, request, lockedAt, writeBy, edit>>

Free(r) == lockExpires < sentAt[r]

\* The upsert runs at the server.  It collides with the document of a holder.
TakeLands(r) ==
    /\ pc[r] = "taking"
    /\ IF Free(r)
         THEN /\ lockExpires' = sentAt[r] + Lease /\ lockToken' = r
              /\ GoTo(r, "locked")
         ELSE UNCHANGED lock /\ GoTo(r, "refused")
    /\ UNCHANGED <<now, account, request, times, edit>>

TakeReturns(r) ==
    /\ pc[r] = "locked"
    /\ lockedAt' = [lockedAt EXCEPT ![r] = now]
    /\ GoTo(r, "read")
    /\ UNCHANGED <<now, account, lock, request, sentAt, writeBy, edit>>

\* wait_for_demotion_lock: again in a while, until DEMOTION_LOCK_WAIT is over.
TakeAgain(r) ==
    /\ pc[r] = "refused"
    /\ GoTo(r, "take")
    /\ UNCHANGED <<now, account, lock, request, times, edit>>

TakeGivenUp(r) ==
    /\ pc[r] = "refused"
    /\ answer' = [answer EXCEPT ![r] = "busy"]
    /\ End(r)
    /\ UNCHANGED <<now, account, lock, request, writeBy, seenAcls, attempt, rivals>>

----------------------------------------------------------------------------
\* apply_patch reads its target.  A demotion of an admin counts the admins.
Read(r) ==
    /\ pc[r] = "read"
    /\ seenAcls' = [seenAcls EXCEPT ![r] = acls[target[r]]]
    /\ GoTo(r, IF IsDemotion(r) /\ target[r] \in admins THEN "count" ELSE "write")
    /\ UNCHANGED <<now, account, lock, request, times, attempt, answer, rivals>>

\* would_orphan, of an admin that the patch demotes.
WouldOrphan(count) == count <= 1

Count(r) ==
    /\ pc[r] = "count"
    /\ IF WouldOrphan(Cardinality(admins))
         THEN Answer(r, "last_admin")
         ELSE GoTo(r, "write") /\ UNCHANGED <<answer, seenAcls, attempt, writeBy>>
    /\ UNCHANGED <<now, account, lock, request, sentAt, lockedAt, rivals>>

\* apply_acl_delta, of a delta that is not rejected.
ApplyDelta(current, grant, revoke) ==
    LET next == ((current \union grant) \ revoke)
                  \ (IF Partnership \in revoke THEN {Caltech} ELSE {}) IN
    IF Caltech \in next THEN next \union {Partnership} ELSE next

\* What normalize_acls and apply_acl_delta do not reject.
Acceptable(p) ==
    CASE p.mode = "none" -> TRUE
      [] p.mode = "replace" -> Lawful(p.grant)
      [] p.mode = "delta" -> /\ p.grant \intersect p.revoke = {}
                             /\ ~ (Caltech \in p.grant /\ Partnership \in p.revoke)

\* DEMOTION_DEADLINE.
TooLate(r) == IsDemotion(r) /\ now > lockedAt[r] + Deadline

\* The head of the loop: the deadline, the new list, and the write is sent.
Prepare(r) ==
    /\ pc[r] = "write"
    /\ CASE TooLate(r) -> Answer(r, "timeout")
         [] ~ TooLate(r) /\ ~ Acceptable(patch[r]) -> Answer(r, "bad")
         [] ~ TooLate(r) /\ Acceptable(patch[r]) ->
              /\ writeBy' = [writeBy EXCEPT ![r] = IF IsDemotion(r) THEN now + WriteDelay ELSE 0]
              /\ GoTo(r, "writing") /\ UNCHANGED <<answer, seenAcls, attempt>>
    /\ UNCHANGED <<now, account, lock, request, sentAt, lockedAt, rivals>>

NextAcls(r, current) ==
    CASE patch[r].mode = "none" -> current
      [] patch[r].mode = "replace" -> patch[r].grant
      [] patch[r].mode = "delta" -> ApplyDelta(current, patch[r].grant, patch[r].revoke)

\* A bug: an empty list is compared with the field itself.
MatchesField(r) ==
    patch[r].mode = "delta" => /\ acls[target[r]] = seenAcls[r]
                               /\ target[r] \notin fieldless

\* A bug: an edit is written over whatever is there.
MatchesAny(r) == TRUE

\* matching_acls: an account without the field matches the empty list.
Matches(r) == patch[r].mode = "delta" => acls[target[r]] = seenAcls[r]

Editing == {"count", "write", "writing", "reread"}

\* The requests whose idea of the list of account u is now out of date.
Outdated(r, u) == {s \in Requests \ {r} : target[s] = u /\ pc[s] \in Editing}

\* find_one_and_update, at the server.
WriteLands(r) ==
    /\ pc[r] = "writing"
    /\ LET u == target[r]
           next == NextAcls(r, seenAcls[r]) IN
       IF Matches(r)
         THEN /\ admins' = CASE patch[r].admin = "keep" -> admins
                             [] patch[r].admin = "grant" -> admins \union {u}
                             [] patch[r].admin = "drop" -> admins \ {u}
              /\ IF patch[r].mode = "none"
                   THEN UNCHANGED <<acls, fieldless, rivals>>
                   ELSE /\ acls' = [acls EXCEPT ![u] = next]
                        /\ fieldless' = fieldless \ {u}
                        /\ rivals' = [s \in Requests |->
                             IF s \in Outdated(r, u) /\ next # acls[u]
                                /\ rivals[s] < AclWriteAttempts
                               THEN rivals[s] + 1 ELSE rivals[s]]
              /\ Answer(r, "ok")
         ELSE /\ UNCHANGED <<account, rivals>>
              /\ IF attempt[r] < AclWriteAttempts
                   THEN /\ writeBy' = [writeBy EXCEPT ![r] = 0]
                        /\ GoTo(r, "reread") /\ UNCHANGED <<answer, seenAcls, attempt>>
                   ELSE Answer(r, "contended")
    /\ UNCHANGED <<now, lock, request, sentAt, lockedAt>>

WriteFails(r) ==
    /\ pc[r] = "writing"
    /\ Answer(r, "error")
    /\ UNCHANGED <<now, account, lock, request, sentAt, lockedAt, rivals>>

Reread(r) ==
    /\ pc[r] = "reread"
    /\ seenAcls' = [seenAcls EXCEPT ![r] = acls[target[r]]]
    /\ attempt' = [attempt EXCEPT ![r] = @ + 1]
    /\ GoTo(r, "write")
    /\ UNCHANGED <<now, account, lock, request, times, answer, rivals>>

----------------------------------------------------------------------------
\* release_demotion_lock matches the token.
Release(r) ==
    /\ pc[r] = "release"
    /\ lockExpires' = IF lockToken = r THEN 0 ELSE lockExpires
    /\ End(r)
    /\ UNCHANGED <<now, account, lockToken, request, writeBy, edit>>

\* A query fails, the client hangs up or the process dies: the lock stays.
\* What has been sent to the database still lands.
Abandon(r) ==
    /\ pc[r] \in {"take", "locked", "refused", "read", "count", "write", "reread", "release"}
    /\ End(r)
    /\ seenAcls' = [seenAcls EXCEPT ![r] = {}]
    /\ attempt' = [attempt EXCEPT ![r] = 1]
    /\ UNCHANGED <<now, account, lock, request, writeBy, answer, rivals>>

\* reconcile_babamul_admins, at the start of the API.
Reconcile ==
    /\ admins' = admins \union Configured
    /\ UNCHANGED <<now, acls, fieldless, lock, pc, request, times, edit>>

\* Time passes; what a demotion has sent lands, or fails, within its delay.
Tick ==
    /\ now < Horizon
    /\ \A r \in Requests :
         /\ pc[r] \in {"taking", "locked"} => now < sentAt[r] + TakeDelay
         /\ pc[r] = "writing" /\ IsDemotion(r) => now < writeBy[r]
    /\ now' = now + 1
    /\ UNCHANGED <<account, lock, pc, request, times, edit>>

PatchAdminUser(r) ==
    \/ Arrive(r)
    \/ TakeSend(r) \/ TakeLands(r) \/ TakeReturns(r) \/ TakeAgain(r) \/ TakeGivenUp(r)
    \/ Read(r) \/ Count(r) \/ Prepare(r) \/ WriteLands(r) \/ WriteFails(r) \/ Reread(r)
    \/ Release(r) \/ Abandon(r)

AdminNext == (\E r \in Requests : PatchAdminUser(r)) \/ Reconcile \/ Tick

AdminSpec == AdminInit /\ [][AdminNext]_adminVars

----------------------------------------------------------------------------
\* The demotions that have the lock, and those whose lease has not run out.
Holding(r) ==
    \/ pc[r] = "locked"
    \/ /\ IsDemotion(r)
       /\ pc[r] \in {"read", "count", "write", "writing", "reread", "release"}

Within(r) == now <= sentAt[r] + Lease

\* The inductive invariant behind LastAdminStays: the document of the lock is
\* that of the demotion whose lease runs, every write lands within its lease,
\* and until it lands some admin other than its target remains.
AdminTypeOK ==
    /\ now \in Nat /\ admins \subseteq Users /\ lockExpires \in Nat
    /\ pc \in [Requests -> {"idle", "take", "taking", "locked", "refused", "read", "count",
                            "write", "writing", "reread", "release", "ended"}]
    /\ target \in [Requests -> Users] /\ patch \in [Requests -> Patch]
    /\ sentAt \in [Requests -> Nat] /\ lockedAt \in [Requests -> Nat]
    /\ writeBy \in [Requests -> Nat]

LockIsHeld ==
    \A r \in Requests : Holding(r) /\ Within(r) =>
        lockToken = r /\ lockExpires = sentAt[r] + Lease

InTime ==
    \A r \in Requests :
        /\ sentAt[r] <= now
        /\ pc[r] \in {"taking", "locked"} => now <= sentAt[r] + TakeDelay
        /\ Holding(r) /\ pc[r] # "locked" => lockedAt[r] <= sentAt[r] + TakeDelay
        /\ pc[r] = "writing" /\ IsDemotion(r) =>
             now <= writeBy[r] /\ writeBy[r] <= lockedAt[r] + Deadline + WriteDelay

AnotherStays ==
    \A r \in Requests :
        IsDemotion(r) /\ pc[r] \in {"write", "writing", "reread"} /\ Within(r) =>
            \E u \in admins : u # target[r]

\* However the demotions interleave, hang, are cut off and outlive their
\* lease, the deployment keeps an admin (would_orphan under the lock).
LastAdminStays == admins # {}

AdminInv == AdminTypeOK /\ LockIsHeld /\ InTime /\ AnotherStays /\ LastAdminStays

\* An edit is applied to the list that is there when it lands: it keeps what
\* others have granted since, it takes all that it revokes, and it leaves the
\* combination that normalize_acls promises.
DeltaIsExact ==
    [][\A r \in Requests :
         (pc[r] = "writing" /\ answer'[r] = "ok" /\ patch[r].mode = "delta") =>
           LET before == acls[target[r]]
               after == acls'[target[r]] IN
             /\ patch[r].grant \subseteq after
             /\ patch[r].revoke \intersect after = {}
             /\ (before \ (patch[r].revoke \union {Caltech})) \subseteq after
             /\ after \subseteq (before \union patch[r].grant \union {Partnership})
             /\ Lawful(after)]_adminVars

\* An edit is refused as contended only when others have changed the list
\* under every one of its attempts, never for how an old account is stored.
ContendedIsContended ==
    \A r \in Requests : answer[r] = "contended" => rivals[r] >= AclWriteAttempts
============================================================================
