----------------------------- MODULE ApiProofs -----------------------------
(***************************************************************************)
(* Proofs about the machines of the API, which share no state:             *)
(* AdminAccess, that an admin stays, that edits of the lists are exact and *)
(* that contention is real; SignIn, that what is linked was proved and     *)
(* that a ticket grants a bounded number of guesses; and FilterVersions,   *)
(* that a filter keeps its versions and that only races and                *)
(* skip_validation evade the activation check.  For all accounts,          *)
(* requests, patches, handlers and limits, and for delays with which the   *)
(* lease outlasts a demotion.                                              *)
(***************************************************************************)
EXTENDS AdminAccess, SignIn, FilterVersions, FiniteSetTheorems, TLAPS

----------------------------------------------------------------------------
(* Admins.                                                                 *)

\* An admin who is not the only one leaves another behind.
LEMMA NotTheOnlyOne ==
  ASSUME admins \subseteq Users, ~ WouldOrphan(Cardinality(admins)), NEW u
  PROVE  \E v \in admins : v # u
<1>1. IsFiniteSet(admins)
  BY AdminAssumption, FS_Subset
<1>2. SUFFICES ASSUME \A v \in admins : v = u PROVE FALSE
  OBVIOUS
<1>3. admins \in SUBSET {u}
  BY <1>2
<1>4. Cardinality(admins) <= 1
  <2>1. IsFiniteSet({u}) /\ Cardinality({u}) = 1
    BY FS_Singleton
  <2> QED
    BY <1>3, <2>1, FS_Subset
<1> QED
  BY <1>1, <1>4 DEF WouldOrphan

\* Every step of a request keeps the invariant.
LEMMA RequestStep ==
  ASSUME AdminInv, NEW r \in Requests, PatchAdminUser(r)
  PROVE  AdminInv'
<1> USE AdminAssumption, LeaseAssumption
<1> USE DEF AdminInv, account, lock, request, times, edit, GoTo
<1>1. CASE Arrive(r)
  <2>1. AdminTypeOK'
    BY <1>1 DEF Arrive, AdminTypeOK
  <2>2. LockIsHeld'
    BY <1>1 DEF Arrive, AdminTypeOK, LockIsHeld, InTime, Holding, Within, IsDemotion
  <2>3. InTime'
    BY <1>1 DEF Arrive, AdminTypeOK, InTime, Holding, IsDemotion
  <2>4. AnotherStays'
    BY <1>1 DEF Arrive, AdminTypeOK, LockIsHeld, InTime, AnotherStays, LastAdminStays, Holding, Within, IsDemotion
  <2>5. LastAdminStays'
    BY <1>1 DEF Arrive, AdminTypeOK, LastAdminStays
  <2> QED
    BY <2>1, <2>2, <2>3, <2>4, <2>5
<1>2. CASE TakeSend(r)
  <2>1. AdminTypeOK'
    BY <1>2 DEF TakeSend, AdminTypeOK
  <2>2. LockIsHeld'
    BY <1>2 DEF TakeSend, AdminTypeOK, LockIsHeld, InTime, Holding, Within, IsDemotion
  <2>3. InTime'
    BY <1>2 DEF TakeSend, AdminTypeOK, InTime, Holding, IsDemotion
  <2>4. AnotherStays'
    BY <1>2 DEF TakeSend, AdminTypeOK, LockIsHeld, InTime, AnotherStays, LastAdminStays, Holding, Within, IsDemotion
  <2>5. LastAdminStays'
    BY <1>2 DEF TakeSend, AdminTypeOK, LastAdminStays
  <2> QED
    BY <2>1, <2>2, <2>3, <2>4, <2>5
<1>3. CASE TakeLands(r)
  <2>1. AdminTypeOK'
    BY <1>3 DEF TakeLands, Free, AdminTypeOK
  <2>2. LockIsHeld'
    BY <1>3 DEF TakeLands, Free, AdminTypeOK, LockIsHeld, InTime, Holding, Within, IsDemotion
  <2>3. InTime'
    BY <1>3 DEF TakeLands, Free, AdminTypeOK, InTime, Holding, IsDemotion
  <2>4. AnotherStays'
    BY <1>3 DEF TakeLands, Free, AdminTypeOK, LockIsHeld, InTime, AnotherStays, LastAdminStays, Holding, Within, IsDemotion
  <2>5. LastAdminStays'
    BY <1>3 DEF TakeLands, Free, AdminTypeOK, LastAdminStays
  <2> QED
    BY <2>1, <2>2, <2>3, <2>4, <2>5
<1>4. CASE TakeReturns(r)
  <2>1. AdminTypeOK'
    BY <1>4 DEF TakeReturns, AdminTypeOK
  <2>2. LockIsHeld'
    BY <1>4 DEF TakeReturns, AdminTypeOK, LockIsHeld, InTime, Holding, Within, IsDemotion
  <2>3. InTime'
    BY <1>4 DEF TakeReturns, AdminTypeOK, InTime, Holding, IsDemotion
  <2>4. AnotherStays'
    BY <1>4 DEF TakeReturns, AdminTypeOK, LockIsHeld, InTime, AnotherStays, LastAdminStays, Holding, Within, IsDemotion
  <2>5. LastAdminStays'
    BY <1>4 DEF TakeReturns, AdminTypeOK, LastAdminStays
  <2> QED
    BY <2>1, <2>2, <2>3, <2>4, <2>5
<1>5. CASE TakeAgain(r)
  <2>1. AdminTypeOK'
    BY <1>5 DEF TakeAgain, AdminTypeOK
  <2>2. LockIsHeld'
    BY <1>5 DEF TakeAgain, AdminTypeOK, LockIsHeld, InTime, Holding, Within, IsDemotion
  <2>3. InTime'
    BY <1>5 DEF TakeAgain, AdminTypeOK, InTime, Holding, IsDemotion
  <2>4. AnotherStays'
    BY <1>5 DEF TakeAgain, AdminTypeOK, LockIsHeld, InTime, AnotherStays, LastAdminStays, Holding, Within, IsDemotion
  <2>5. LastAdminStays'
    BY <1>5 DEF TakeAgain, AdminTypeOK, LastAdminStays
  <2> QED
    BY <2>1, <2>2, <2>3, <2>4, <2>5
<1>6. CASE TakeGivenUp(r)
  <2>1. AdminTypeOK'
    BY <1>6 DEF TakeGivenUp, End, AdminTypeOK
  <2>2. LockIsHeld'
    BY <1>6 DEF TakeGivenUp, End, AdminTypeOK, LockIsHeld, InTime, Holding, Within, IsDemotion
  <2>3. InTime'
    BY <1>6 DEF TakeGivenUp, End, AdminTypeOK, InTime, Holding, IsDemotion
  <2>4. AnotherStays'
    BY <1>6 DEF TakeGivenUp, End, AdminTypeOK, LockIsHeld, InTime, AnotherStays, LastAdminStays, Holding, Within, IsDemotion
  <2>5. LastAdminStays'
    BY <1>6 DEF TakeGivenUp, End, AdminTypeOK, LastAdminStays
  <2> QED
    BY <2>1, <2>2, <2>3, <2>4, <2>5
<1>7. CASE Read(r)
  <2>1. AdminTypeOK'
    BY <1>7 DEF Read, AdminTypeOK
  <2>2. LockIsHeld'
    BY <1>7 DEF Read, AdminTypeOK, LockIsHeld, InTime, Holding, Within, IsDemotion
  <2>3. InTime'
    BY <1>7 DEF Read, AdminTypeOK, InTime, Holding, IsDemotion
  <2>4. AnotherStays'
    BY <1>7 DEF Read, AdminTypeOK, LockIsHeld, InTime, AnotherStays, LastAdminStays, Holding, Within, IsDemotion
  <2>5. LastAdminStays'
    BY <1>7 DEF Read, AdminTypeOK, LastAdminStays
  <2> QED
    BY <2>1, <2>2, <2>3, <2>4, <2>5
<1>8. CASE Count(r)
  <2>1. AdminTypeOK'
    BY <1>8 DEF Count, Answer, WouldOrphan, IsDemotion, AdminTypeOK
  <2>2. LockIsHeld'
    BY <1>8 DEF Count, Answer, WouldOrphan, AdminTypeOK, LockIsHeld, InTime, Holding, Within, IsDemotion
  <2>3. InTime'
    BY <1>8 DEF Count, Answer, WouldOrphan, AdminTypeOK, InTime, Holding, IsDemotion
  <2>4. AnotherStays'
    <3>1. pc'[r] = "write" => \E u \in admins : u # target[r]
      BY <1>8, NotTheOnlyOne DEF Count, Answer, AdminTypeOK, IsDemotion
    <3>2. /\ \A s \in Requests : s # r => pc'[s] = pc[s]
          /\ pc'[r] \in {"write", "release", "ended"}
          /\ UNCHANGED <<now, admins, target, patch, sentAt>>
      BY <1>8 DEF Count, Answer, AdminTypeOK
    <3> QED
      BY <3>1, <3>2 DEF AnotherStays, Within, IsDemotion
  <2>5. LastAdminStays'
    BY <1>8 DEF Count, Answer, WouldOrphan, IsDemotion, AdminTypeOK, LastAdminStays
  <2> QED
    BY <2>1, <2>2, <2>3, <2>4, <2>5
<1>9. CASE Prepare(r)
  <2>0. /\ UNCHANGED <<now, admins, lockExpires, lockToken, target, patch, sentAt, lockedAt>>
        /\ \/ /\ ~ TooLate(r) /\ pc' = [pc EXCEPT ![r] = "writing"]
              /\ writeBy' = [writeBy EXCEPT ![r] =
                               IF IsDemotion(r) THEN now + WriteDelay ELSE 0]
           \/ /\ pc' = [pc EXCEPT ![r] = IF IsDemotion(r) THEN "release" ELSE "ended"]
              /\ writeBy' = [writeBy EXCEPT ![r] = 0]
    <3>1. CASE TooLate(r)
      BY <1>9, <3>1 DEF Prepare, Answer
    <3>2. CASE ~ TooLate(r) /\ ~ Acceptable(patch[r])
      BY <1>9, <3>2 DEF Prepare, Answer
    <3>3. CASE ~ TooLate(r) /\ Acceptable(patch[r])
      BY <1>9, <3>3 DEF Prepare
    <3> QED
      BY <3>1, <3>2, <3>3
  <2>a. pc[r] = "write"
    BY <1>9 DEF Prepare
  <2>1. AdminTypeOK'
    BY <2>0 DEF AdminTypeOK
  <2>2. LockIsHeld'
    BY <2>0, <2>a DEF AdminTypeOK, LockIsHeld, Holding, Within, IsDemotion
  <2>3. InTime'
    BY <2>0, <2>a DEF AdminTypeOK, InTime, Holding, IsDemotion, TooLate
  <2>4. AnotherStays'
    BY <2>0, <2>a DEF AdminTypeOK, AnotherStays, Within, IsDemotion
  <2>5. LastAdminStays'
    BY <2>0 DEF LastAdminStays
  <2> QED
    BY <2>1, <2>2, <2>3, <2>4, <2>5
<1>10. CASE WriteLands(r)
  <2>0. /\ pc[r] = "writing"
        /\ UNCHANGED <<now, lockExpires, lockToken, target, patch, sentAt, lockedAt>>
        /\ writeBy' = [writeBy EXCEPT ![r] = 0]
        /\ \/ pc' = [pc EXCEPT ![r] = "reread"]
           \/ pc' = [pc EXCEPT ![r] = IF IsDemotion(r) THEN "release" ELSE "ended"]
    BY <1>10 DEF WriteLands, Answer
  <2>1. \/ admins' = admins
        \/ admins' = admins \union {target[r]}
        \/ admins' = admins \ {target[r]} /\ IsDemotion(r) /\ pc'[r] # "reread"
    <3>1. CASE Matches(r)
      <4>1. patch[r].admin \in {"keep", "grant", "drop"}
        BY DEF AdminTypeOK, Patch
      <4>2. pc'[r] # "reread"
        BY <1>10, <3>1 DEF WriteLands, Answer, AdminTypeOK
      <4>3. CASE patch[r].admin = "keep"
        BY <1>10, <3>1, <4>3 DEF WriteLands
      <4>4. CASE patch[r].admin = "grant"
        BY <1>10, <3>1, <4>4 DEF WriteLands
      <4>5. CASE patch[r].admin = "drop"
        BY <1>10, <3>1, <4>2, <4>5 DEF WriteLands, IsDemotion
      <4> QED
        BY <4>1, <4>3, <4>4, <4>5
    <3>2. CASE ~ Matches(r)
      BY <1>10, <3>2 DEF WriteLands
    <3> QED
      BY <3>1, <3>2
  <2>2. AdminTypeOK'
    BY <2>0, <2>1 DEF AdminTypeOK
  <2>3. LockIsHeld'
    BY <2>0 DEF AdminTypeOK, LockIsHeld, Holding, Within, IsDemotion
  <2>4. InTime'
    BY <2>0 DEF AdminTypeOK, InTime, Holding, IsDemotion
  <2>5. IsDemotion(r) => Holding(r) /\ Within(r)
    BY <2>0 DEF AdminTypeOK, InTime, Holding, Within, IsDemotion
  <2>6. IsDemotion(r) => \E u \in admins : u # target[r]
    BY <2>0, <2>5 DEF AnotherStays
  <2>7. LastAdminStays'
    BY <2>0, <2>1, <2>6 DEF LastAdminStays
  \* While r holds the lock nobody else is past the count.
  <2>8. AnotherStays'
    <3> SUFFICES ASSUME NEW s \in Requests, IsDemotion(s)',
                        pc'[s] \in {"write", "writing", "reread"}, Within(s)'
                 PROVE  \E u \in admins' : u # target'[s]
      BY DEF AnotherStays
    <3>1. IsDemotion(s) /\ Within(s) /\ pc[s] \in {"write", "writing", "reread"}
      BY <2>0 DEF AdminTypeOK, IsDemotion, Within
    <3>2. \E u \in admins : u # target[s]
      BY <3>1 DEF AnotherStays
    <3>3. CASE admins' = admins \/ admins' = admins \union {target[r]}
      BY <2>0, <3>2, <3>3
    <3>4. CASE IsDemotion(r) /\ pc'[r] # "reread"
      <4>1. s # r
        BY <2>0, <3>4 DEF AdminTypeOK
      <4>2. lockToken = s /\ lockToken = r
        BY <2>5, <3>1, <3>4 DEF LockIsHeld, Holding
      <4> QED
        BY <4>1, <4>2
    <3> QED
      BY <2>1, <3>3, <3>4
  <2> QED
    BY <2>2, <2>3, <2>4, <2>7, <2>8
<1>11. CASE WriteFails(r)
  <2>1. AdminTypeOK'
    BY <1>11 DEF WriteFails, Answer, IsDemotion, AdminTypeOK
  <2>2. LockIsHeld'
    BY <1>11 DEF WriteFails, Answer, AdminTypeOK, LockIsHeld, InTime, Holding, Within, IsDemotion
  <2>3. InTime'
    BY <1>11 DEF WriteFails, Answer, AdminTypeOK, InTime, Holding, IsDemotion
  <2>4. AnotherStays'
    BY <1>11 DEF WriteFails, Answer, AdminTypeOK, LockIsHeld, InTime, AnotherStays, LastAdminStays, Holding, Within, IsDemotion
  <2>5. LastAdminStays'
    BY <1>11 DEF WriteFails, Answer, IsDemotion, AdminTypeOK, LastAdminStays
  <2> QED
    BY <2>1, <2>2, <2>3, <2>4, <2>5
<1>12. CASE Reread(r)
  <2>1. AdminTypeOK'
    BY <1>12 DEF Reread, AdminTypeOK
  <2>2. LockIsHeld'
    BY <1>12 DEF Reread, AdminTypeOK, LockIsHeld, InTime, Holding, Within, IsDemotion
  <2>3. InTime'
    BY <1>12 DEF Reread, AdminTypeOK, InTime, Holding, IsDemotion
  <2>4. AnotherStays'
    BY <1>12 DEF Reread, AdminTypeOK, LockIsHeld, InTime, AnotherStays, LastAdminStays, Holding, Within, IsDemotion
  <2>5. LastAdminStays'
    BY <1>12 DEF Reread, AdminTypeOK, LastAdminStays
  <2> QED
    BY <2>1, <2>2, <2>3, <2>4, <2>5
<1>13. CASE Release(r)
  <2>1. AdminTypeOK'
    BY <1>13 DEF Release, End, AdminTypeOK
  <2>2. LockIsHeld'
    BY <1>13 DEF Release, End, AdminTypeOK, LockIsHeld, InTime, Holding, Within, IsDemotion
  <2>3. InTime'
    BY <1>13 DEF Release, End, AdminTypeOK, InTime, Holding, IsDemotion
  <2>4. AnotherStays'
    BY <1>13 DEF Release, End, AdminTypeOK, LockIsHeld, InTime, AnotherStays, LastAdminStays, Holding, Within, IsDemotion
  <2>5. LastAdminStays'
    BY <1>13 DEF Release, End, AdminTypeOK, LastAdminStays
  <2> QED
    BY <2>1, <2>2, <2>3, <2>4, <2>5
<1>14. CASE Abandon(r)
  <2>1. AdminTypeOK'
    BY <1>14 DEF Abandon, End, AdminTypeOK
  <2>2. LockIsHeld'
    BY <1>14 DEF Abandon, End, AdminTypeOK, LockIsHeld, InTime, Holding, Within, IsDemotion
  <2>3. InTime'
    BY <1>14 DEF Abandon, End, AdminTypeOK, InTime, Holding, IsDemotion
  <2>4. AnotherStays'
    BY <1>14 DEF Abandon, End, AdminTypeOK, LockIsHeld, InTime, AnotherStays, LastAdminStays, Holding, Within, IsDemotion
  <2>5. LastAdminStays'
    BY <1>14 DEF Abandon, End, AdminTypeOK, LastAdminStays
  <2> QED
    BY <2>1, <2>2, <2>3, <2>4, <2>5
<1> QED
  BY <1>1, <1>2, <1>3, <1>4, <1>5, <1>6, <1>7, <1>8, <1>9, <1>10, <1>11, <1>12, <1>13, <1>14 DEF PatchAdminUser

\* Time, and the start of the API, keep it too.
LEMMA AdminStep == AdminInv /\ [AdminNext]_adminVars => AdminInv'
<1> SUFFICES ASSUME AdminInv, [AdminNext]_adminVars PROVE AdminInv'
  OBVIOUS
<1> USE AdminAssumption, LeaseAssumption
<1>1. ASSUME NEW r \in Requests, PatchAdminUser(r) PROVE AdminInv'
  BY <1>1, RequestStep
<1>2. CASE Reconcile
  BY <1>2 DEF Reconcile, AdminInv, AdminTypeOK, LockIsHeld, InTime, AnotherStays, LastAdminStays,
              Holding, Within, IsDemotion, lock, request, times, edit
<1>3. CASE Tick
  <2>1. AdminTypeOK' /\ LastAdminStays'
    BY <1>3 DEF Tick, AdminInv, AdminTypeOK, LastAdminStays, account, lock, request, times
  <2>2. LockIsHeld'
    BY <1>3 DEF Tick, AdminInv, AdminTypeOK, LockIsHeld, Holding, Within, IsDemotion, lock,
                request, times
  <2>3. InTime'
    BY <1>3 DEF Tick, AdminInv, AdminTypeOK, InTime, Holding, IsDemotion, request, times
  <2>4. AnotherStays'
    BY <1>3 DEF Tick, AdminInv, AdminTypeOK, AnotherStays, Within, IsDemotion, account,
                request, times
  <2> QED
    BY <2>1, <2>2, <2>3, <2>4 DEF AdminInv
<1>4. CASE UNCHANGED adminVars
  BY <1>4 DEF adminVars, account, lock, request, times, AdminInv, AdminTypeOK, LockIsHeld, InTime,
              AnotherStays, LastAdminStays, Holding, Within, IsDemotion
<1> QED
  BY <1>1, <1>2, <1>3, <1>4 DEF AdminNext

\* Initially there is an admin, and no request.
LEMMA AdminStart == AdminInit => AdminInv
<1> SUFFICES ASSUME AdminInit PROVE AdminInv
  OBVIOUS
<1>1. AdminTypeOK
  BY AdminAssumption DEF AdminInit, AdminTypeOK
<1> QED
  BY <1>1, AdminAssumption DEF AdminInit, AdminInv, LockIsHeld, InTime, AnotherStays,
     LastAdminStays, Holding

\* For every number of accounts and of requests, whatever they patch, and for
\* all delays with TakeDelay + Deadline + WriteDelay < Lease: demotions that
\* race, hang or are cut off never take the last admin away.
THEOREM KeepsAnAdmin == AdminSpec => []LastAdminStays
<1>1. AdminInv => LastAdminStays
  BY DEF AdminInv
<1> QED
  BY <1>1, AdminStart, AdminStep, PTL DEF AdminSpec

----------------------------------------------------------------------------
(* The edits of the lists.                                                 *)

\* The types of the lists and of the requests that edit them.
EditTypeOK ==
    /\ acls \in [Users -> SUBSET Acl] /\ seenAcls \in [Requests -> SUBSET Acl]
    /\ attempt \in [Requests -> Nat] /\ rivals \in [Requests -> Nat]
    /\ answer \in [Requests -> {"none", "busy", "last_admin", "timeout", "bad", "ok", "contended",
                                "error"}]

\* A request that is not answered is still at it, and a write that is on its way carries
\* what normalize_acls or apply_acl_delta has let through.
OpenRequests ==
    \A r \in Requests : /\ pc[r] \notin {"release", "ended"} => answer[r] = "none"
                        /\ pc[r] = "writing" => Acceptable(patch[r])

\* Every attempt of an edit but the last was spoiled by a rival, and so is this one when
\* the list is not the one that it has read.
Spoiled(r) ==
    /\ attempt[r] <= AclWriteAttempts
    /\ pc[r] \notin Editing => attempt[r] = 1
    /\ pc[r] \in Editing => attempt[r] <= rivals[r] + 1
    /\ pc[r] = "reread" => attempt[r] < AclWriteAttempts /\ attempt[r] <= rivals[r]
    /\ pc[r] \in {"count", "write", "writing"} /\ seenAcls[r] # acls[target[r]]
         => attempt[r] <= rivals[r]

\* The inductive invariant of the edits, next to AdminInv.
EditInv ==
    EditTypeOK /\ OpenRequests /\ (\A r \in Requests : Spoiled(r)) /\ ContendedIsContended

\* What apply_acl_delta makes of a list, when it accepts the delta.
LEMMA DeltaProps ==
  ASSUME NEW current \in SUBSET Acl, NEW p \in Patch
  PROVE  LET after == ApplyDelta(current, p.grant, p.revoke) IN
           /\ after \in SUBSET Acl
           /\ p.mode = "delta" /\ Acceptable(p) =>
                /\ p.grant \subseteq after
                /\ p.revoke \intersect after = {}
                /\ (current \ (p.revoke \union {Caltech})) \subseteq after
                /\ after \subseteq (current \union p.grant \union {Partnership})
                /\ Lawful(after)
<1> DEFINE next == ((current \union p.grant) \ p.revoke)
                     \ (IF Partnership \in p.revoke THEN {Caltech} ELSE {})
           after == ApplyDelta(current, p.grant, p.revoke)
<1>1. p.grant \in SUBSET Acl /\ p.revoke \in SUBSET Acl
  BY DEF Patch
<1>2. after = IF Caltech \in next THEN next \union {Partnership} ELSE next
  BY DEF ApplyDelta
<1>3. Caltech \in Acl /\ Partnership \in Acl /\ Caltech # Partnership
  BY DEF Acl, Caltech, Partnership
<1>4. next \in SUBSET Acl
  BY <1>1
<1>5. after \in SUBSET Acl
  BY <1>2, <1>3, <1>4
<1>6. ASSUME p.mode = "delta", Acceptable(p)
      PROVE  p.grant \intersect p.revoke = {} /\ ~ (Caltech \in p.grant /\ Partnership \in p.revoke)
  BY <1>6 DEF Acceptable
<1>7. ASSUME p.mode = "delta", Acceptable(p)
      PROVE  /\ p.grant \subseteq after
             /\ p.revoke \intersect after = {}
             /\ (current \ (p.revoke \union {Caltech})) \subseteq after
             /\ after \subseteq (current \union p.grant \union {Partnership})
  BY <1>2, <1>3, <1>6, <1>7
<1>8. Lawful(after)
  BY <1>2, <1>3 DEF Lawful
<1> QED
  BY <1>5, <1>7, <1>8

\* A step of one request does not move the others.
LEMMA OthersStay ==
  ASSUME AdminInv, EditInv, NEW r \in Requests, PatchAdminUser(r)
  PROVE  /\ UNCHANGED <<target, patch>>
         /\ \A s \in Requests \ {r} : /\ pc'[s] = pc[s] /\ answer'[s] = answer[s]
                                      /\ seenAcls'[s] = seenAcls[s] /\ attempt'[s] = attempt[s]
         /\ UNCHANGED <<acls, rivals>> \/ WriteLands(r)
<1> USE DEF account, request, times, edit, AdminInv, EditInv, AdminTypeOK, EditTypeOK
<1>1. UNCHANGED <<target, patch>>
  BY DEF PatchAdminUser, Arrive, TakeSend, TakeLands, TakeReturns, TakeAgain, TakeGivenUp, Read,
         Count, Prepare, WriteLands, WriteFails, Reread, Release, Abandon
<1>2. UNCHANGED <<acls, rivals>> \/ WriteLands(r)
  BY DEF PatchAdminUser, Arrive, TakeSend, TakeLands, TakeReturns, TakeAgain, TakeGivenUp, Read,
         Count, Prepare, WriteFails, Reread, Release, Abandon
<1>3. \A s \in Requests \ {r} : pc'[s] = pc[s]
  BY DEF PatchAdminUser, Arrive, TakeSend, TakeLands, TakeReturns, TakeAgain, TakeGivenUp, Read,
         Count, Prepare, WriteLands, WriteFails, Reread, Release, Abandon, Answer, End, GoTo
<1>4. \A s \in Requests \ {r} : answer'[s] = answer[s]
  <2>1. CASE \/ Arrive(r) \/ TakeSend(r) \/ TakeLands(r) \/ TakeReturns(r) \/ TakeAgain(r) \/ Read(r)
             \/ Reread(r) \/ Release(r) \/ Abandon(r)
    BY <2>1 DEF Arrive, TakeSend, TakeLands, TakeReturns, TakeAgain, Read, Reread, Release, Abandon
  <2>2. CASE TakeGivenUp(r)
    BY <2>2 DEF TakeGivenUp
  <2>3. CASE Count(r) \/ Prepare(r)
    <3>1. UNCHANGED answer \/ \E what : Answer(r, what)
      BY <2>3 DEF Count, Prepare
    <3> QED
      BY <3>1 DEF Answer
  <2>4. CASE WriteLands(r) \/ WriteFails(r)
    BY <2>4 DEF WriteLands, WriteFails, Answer
  <2> QED
    BY <2>1, <2>2, <2>3, <2>4 DEF PatchAdminUser
<1>5. \A s \in Requests \ {r} : seenAcls'[s] = seenAcls[s]
  BY DEF PatchAdminUser, Arrive, TakeSend, TakeLands, TakeReturns, TakeAgain, TakeGivenUp, Read,
         Count, Prepare, WriteLands, WriteFails, Reread, Release, Abandon, Answer
<1>6. \A s \in Requests \ {r} : attempt'[s] = attempt[s]
  BY DEF PatchAdminUser, Arrive, TakeSend, TakeLands, TakeReturns, TakeAgain, TakeGivenUp, Read,
         Count, Prepare, WriteLands, WriteFails, Reread, Release, Abandon, Answer
<1> QED
  BY <1>1, <1>2, <1>3, <1>4, <1>5, <1>6

\* A write that lands: what it does to the lists and to the counts of rivals.
LEMMA LandProps ==
  ASSUME AdminInv, EditInv, NEW r \in Requests, WriteLands(r)
  PROVE  /\ acls' \in [Users -> SUBSET Acl] /\ rivals' \in [Requests -> Nat]
         /\ Matches(r) /\ patch[r].mode = "delta" =>
              acls'[target[r]] = ApplyDelta(acls[target[r]], patch[r].grant, patch[r].revoke)
         /\ ~Matches(r) => UNCHANGED <<acls, rivals>>
         /\ rivals'[r] = rivals[r]
         /\ \A s \in Requests : rivals'[s] >= rivals[s]
         /\ \A s \in Requests \ {r} :
              acls'[target[s]] # acls[target[s]] /\ pc[s] \in Editing =>
                rivals'[s] = rivals[s] + 1 \/ rivals[s] >= AclWriteAttempts
<1> DEFINE u == target[r]
           next == NextAcls(r, seenAcls[r])
<1>1. /\ u \in Users /\ patch[r] \in Patch /\ seenAcls[r] \in SUBSET Acl /\ pc[r] = "writing"
      /\ acls \in [Users -> SUBSET Acl] /\ rivals \in [Requests -> Nat] /\ target \in [Requests -> Users]
  BY DEF WriteLands, AdminInv, AdminTypeOK, EditInv, EditTypeOK
<1>2. patch[r].mode \in {"none", "replace", "delta"} /\ patch[r].grant \in SUBSET Acl
  BY <1>1 DEF Patch
<1>3. patch[r].mode = "delta" => next = ApplyDelta(seenAcls[r], patch[r].grant, patch[r].revoke)
  BY DEF NextAcls
<1>4. patch[r].mode # "none" => next \in SUBSET Acl
  BY <1>1, <1>2, <1>3, DeltaProps DEF NextAcls
<1>5. CASE ~Matches(r) \/ patch[r].mode = "none"
  <2>1. UNCHANGED <<acls, rivals>>
    BY <1>5 DEF WriteLands, account
  <2> QED
    BY <1>1, <1>5, <2>1
<1>6. CASE Matches(r) /\ patch[r].mode # "none"
  <2>1. /\ acls' = [acls EXCEPT ![u] = next]
        /\ rivals' = [s \in Requests |->
                        IF s \in Outdated(r, u) /\ next # acls[u] /\ rivals[s] < AclWriteAttempts
                          THEN rivals[s] + 1 ELSE rivals[s]]
    BY <1>6 DEF WriteLands
  <2>2. acls' \in [Users -> SUBSET Acl] /\ acls'[u] = next /\ \A x \in Users \ {u} : acls'[x] = acls[x]
    BY <1>1, <1>4, <1>6, <2>1
  <2>3. rivals' \in [Requests -> Nat] /\ rivals'[r] = rivals[r] /\ \A s \in Requests : rivals'[s] >= rivals[s]
    BY <1>1, <2>1 DEF Outdated
  <2>4. ASSUME NEW s \in Requests \ {r}, acls'[target[s]] # acls[target[s]], pc[s] \in Editing
        PROVE  rivals'[s] = rivals[s] + 1 \/ rivals[s] >= AclWriteAttempts
    <3>1. target[s] = u /\ next # acls[u]
      BY <1>1, <2>2, <2>4
    <3>2. s \in Outdated(r, u)
      BY <2>4, <3>1 DEF Outdated
    <3>3. rivals[s] \in Nat /\ AclWriteAttempts \in Nat
      BY <1>1, AdminAssumption
    <3> QED
      BY <2>1, <3>1, <3>2, <3>3
  <2>5. patch[r].mode = "delta" => acls[u] = seenAcls[r]
    BY <1>6 DEF Matches
  <2> QED
    BY <1>3, <1>6, <2>2, <2>3, <2>4, <2>5
<1> QED
  BY <1>5, <1>6

\* What a step does to the request that makes it.
LEMMA OwnStep ==
  ASSUME AdminInv, EditInv, NEW r \in Requests, PatchAdminUser(r)
  PROVE  /\ EditTypeOK'
         /\ pc'[r] \notin {"release", "ended"} => answer'[r] = answer[r]
         /\ pc'[r] = "writing" => Acceptable(patch[r])
         /\ Spoiled(r)'
         /\ answer'[r] = "contended" => answer[r] = "contended" \/ rivals'[r] >= AclWriteAttempts
         /\ pc[r] = "writing" /\ answer'[r] = "ok" => (WriteLands(r) /\ Matches(r)) \/ answer[r] = "ok"
<1> DEFINE Goal == /\ EditTypeOK'
                   /\ pc'[r] \notin {"release", "ended"} => answer'[r] = answer[r]
                   /\ pc'[r] = "writing" => Acceptable(patch[r])
                   /\ Spoiled(r)'
                   /\ answer'[r] = "contended" =>
                        answer[r] = "contended" \/ rivals'[r] >= AclWriteAttempts
                   /\ pc[r] = "writing" /\ answer'[r] = "ok" =>
                        (WriteLands(r) /\ Matches(r)) \/ answer[r] = "ok"
<1>1. /\ pc[r] \in {"idle", "take", "taking", "locked", "refused", "read", "count",
                    "write", "writing", "reread", "release", "ended"}
      /\ pc \in [Requests -> {"idle", "take", "taking", "locked", "refused", "read", "count",
                              "write", "writing", "reread", "release", "ended"}]
      /\ target \in [Requests -> Users] /\ target[r] \in Users
  BY DEF AdminInv, AdminTypeOK
<1>2. /\ acls \in [Users -> SUBSET Acl] /\ seenAcls \in [Requests -> SUBSET Acl]
      /\ attempt \in [Requests -> Nat] /\ rivals \in [Requests -> Nat]
      /\ answer \in [Requests -> {"none", "busy", "last_admin", "timeout", "bad", "ok", "contended",
                                  "error"}]
      /\ attempt[r] \in Nat /\ rivals[r] \in Nat
  BY DEF EditInv, EditTypeOK
<1>3. AclWriteAttempts \in Nat /\ AclWriteAttempts >= 1
  BY AdminAssumption
<1>4. Spoiled(r)
  BY DEF EditInv
<1>5. UNCHANGED <<target, patch>>
  BY OthersStay
<1>6. ASSUME NEW what \in {"busy", "last_admin", "timeout", "bad", "ok", "contended", "error"},
             Answer(r, what)
      PROVE  /\ answer' \in [Requests -> {"none", "busy", "last_admin", "timeout", "bad", "ok",
                                          "contended", "error"}]
             /\ seenAcls' \in [Requests -> SUBSET Acl] /\ attempt' \in [Requests -> Nat]
             /\ attempt'[r] = 1 /\ pc'[r] \in {"release", "ended"} /\ answer'[r] = what
  BY <1>1, <1>2, <1>6 DEF Answer, GoTo
<1>7. ASSUME UNCHANGED <<acls, rivals>>, NEW what \in {"last_admin", "timeout", "bad", "error"},
             Answer(r, what)
      PROVE  Goal
  <2>1. EditTypeOK'
    BY <1>2, <1>6, <1>7 DEF EditTypeOK
  <2>2. Spoiled(r)'
    BY <1>3, <1>6, <1>7 DEF Spoiled, Editing
  <2> QED
    BY <1>6, <1>7, <2>1, <2>2
<1>8. ASSUME UNCHANGED <<acls, rivals, seenAcls, attempt, answer>>,
             \/ pc[r] \notin Editing /\ pc'[r] \notin Editing
             \/ pc[r] \in {"count", "write"} /\ pc'[r] \in {"write", "writing"},
             pc'[r] = "writing" => Acceptable(patch[r])
      PROVE  Goal
  <2>1. EditTypeOK'
    BY <1>2, <1>8 DEF EditTypeOK
  <2>2. Spoiled(r)'
    BY <1>4, <1>5, <1>8 DEF Spoiled, Editing
  <2> QED
    BY <1>8, <2>1, <2>2
<1> USE DEF account, request, times, edit
<1>9. CASE Arrive(r) \/ TakeSend(r) \/ TakeLands(r) \/ TakeReturns(r) \/ TakeAgain(r) \/ Release(r)
  <2>1. UNCHANGED <<acls, rivals, seenAcls, attempt, answer>>
    BY <1>9 DEF Arrive, TakeSend, TakeLands, TakeReturns, TakeAgain, Release
  <2>2. pc[r] \notin Editing /\ pc'[r] \notin Editing
    BY <1>1, <1>9 DEF Arrive, TakeSend, TakeLands, TakeReturns, TakeAgain, Release, End, GoTo, Editing
  <2> QED
    BY <1>8, <2>1, <2>2 DEF Editing
<1>10. CASE TakeGivenUp(r)
  <2>1. /\ UNCHANGED <<acls, rivals, seenAcls, attempt>>
        /\ answer' = [answer EXCEPT ![r] = "busy"] /\ pc[r] = "refused" /\ pc'[r] = "ended"
    BY <1>1, <1>10 DEF TakeGivenUp, End, GoTo
  <2>2. EditTypeOK'
    BY <1>2, <2>1 DEF EditTypeOK
  <2>3. Spoiled(r)'
    BY <1>4, <1>5, <2>1 DEF Spoiled, Editing
  <2> QED
    BY <1>2, <2>1, <2>2, <2>3
<1>11. CASE Read(r)
  <2>1. /\ UNCHANGED <<acls, rivals, attempt, answer>> /\ pc[r] = "read" /\ pc'[r] \in {"count", "write"}
        /\ seenAcls' = [seenAcls EXCEPT ![r] = acls[target[r]]]
    BY <1>1, <1>11 DEF Read, GoTo
  <2>2. EditTypeOK' /\ seenAcls'[r] = acls'[target'[r]]
    BY <1>1, <1>2, <1>5, <2>1 DEF EditTypeOK
  <2>3. attempt[r] = 1
    BY <1>4, <2>1 DEF Spoiled, Editing
  <2>4. Spoiled(r)'
    BY <1>2, <1>3, <2>1, <2>2, <2>3 DEF Spoiled, Editing
  <2> QED
    BY <2>1, <2>2, <2>4
<1>12. CASE Count(r)
  <2>1. UNCHANGED <<acls, rivals>> /\ pc[r] = "count"
    BY <1>12 DEF Count
  <2>2. Answer(r, "last_admin") \/ (pc'[r] = "write" /\ UNCHANGED <<answer, seenAcls, attempt>>)
    BY <1>1, <1>12 DEF Count, GoTo
  <2> QED
    BY <1>7, <1>8, <2>1, <2>2
<1>13. CASE Prepare(r)
  <2>1. UNCHANGED <<acls, rivals>> /\ pc[r] = "write"
    BY <1>13 DEF Prepare
  <2>2. \/ Answer(r, "timeout") \/ Answer(r, "bad")
        \/ pc'[r] = "writing" /\ Acceptable(patch[r]) /\ UNCHANGED <<answer, seenAcls, attempt>>
    BY <1>1, <1>13 DEF Prepare, GoTo
  <2> QED
    BY <1>7, <1>8, <2>1, <2>2
<1>14. CASE WriteLands(r)
  <2>1. /\ acls' \in [Users -> SUBSET Acl] /\ rivals' \in [Requests -> Nat]
        /\ ~Matches(r) => UNCHANGED <<acls, rivals>>
        /\ rivals'[r] = rivals[r]
    BY <1>14, LandProps
  <2>2. pc[r] = "writing"
    BY <1>14 DEF WriteLands
  <2>3. CASE Matches(r)
    <3>1. Answer(r, "ok")
      BY <1>14, <2>3 DEF WriteLands
    <3>2. EditTypeOK'
      BY <1>6, <2>1, <3>1 DEF EditTypeOK
    <3>3. Spoiled(r)'
      BY <1>3, <1>6, <3>1 DEF Spoiled, Editing
    <3> QED
      BY <1>6, <1>14, <2>3, <3>1, <3>2, <3>3
  <2>4. CASE ~Matches(r)
    <3>1. attempt[r] <= rivals[r]
      BY <1>4, <2>2, <2>4 DEF Spoiled, Matches
    <3>2. CASE attempt[r] < AclWriteAttempts
      <4>1. pc'[r] = "reread" /\ UNCHANGED <<answer, seenAcls, attempt>>
        BY <1>1, <1>14, <2>4, <3>2 DEF WriteLands, GoTo
      <4>2. EditTypeOK'
        BY <1>2, <2>1, <4>1 DEF EditTypeOK
      <4>3. Spoiled(r)'
        BY <1>2, <1>3, <2>1, <3>1, <3>2, <4>1 DEF Spoiled, Editing
      <4> QED
        BY <4>1, <4>2, <4>3
    <3>3. CASE ~(attempt[r] < AclWriteAttempts)
      <4>1. Answer(r, "contended")
        BY <1>14, <2>4, <3>3 DEF WriteLands
      <4>2. EditTypeOK'
        BY <1>6, <2>1, <4>1 DEF EditTypeOK
      <4>3. Spoiled(r)'
        BY <1>3, <1>6, <4>1 DEF Spoiled, Editing
      <4>4. rivals'[r] >= AclWriteAttempts
        BY <1>2, <1>3, <2>1, <3>1, <3>3
      <4> QED
        BY <1>6, <4>1, <4>2, <4>3, <4>4
    <3> QED
      BY <3>2, <3>3
  <2> QED
    BY <2>3, <2>4
<1>15. CASE WriteFails(r)
  <2>1. UNCHANGED <<acls, rivals>> /\ Answer(r, "error")
    BY <1>15 DEF WriteFails
  <2> QED
    BY <1>7, <2>1
<1>16. CASE Reread(r)
  <2>1. /\ UNCHANGED <<acls, rivals, answer>> /\ pc[r] = "reread" /\ pc'[r] = "write"
        /\ seenAcls' = [seenAcls EXCEPT ![r] = acls[target[r]]]
        /\ attempt' = [attempt EXCEPT ![r] = @ + 1]
    BY <1>1, <1>16 DEF Reread, GoTo
  <2>2. EditTypeOK' /\ seenAcls'[r] = acls'[target'[r]] /\ attempt'[r] = attempt[r] + 1
    BY <1>1, <1>2, <1>5, <2>1 DEF EditTypeOK
  <2>3. attempt[r] < AclWriteAttempts /\ attempt[r] <= rivals[r]
    BY <1>4, <2>1 DEF Spoiled
  <2>4. Spoiled(r)'
    BY <1>2, <1>3, <2>1, <2>2, <2>3 DEF Spoiled, Editing
  <2> QED
    BY <2>1, <2>2, <2>4
<1>17. CASE Abandon(r)
  <2>1. /\ UNCHANGED <<acls, rivals, answer>> /\ pc[r] # "writing" /\ pc'[r] = "ended"
        /\ seenAcls' = [seenAcls EXCEPT ![r] = {}]
        /\ attempt' = [attempt EXCEPT ![r] = 1]
    BY <1>1, <1>17 DEF Abandon, End, GoTo
  <2>2. EditTypeOK' /\ attempt'[r] = 1
    BY <1>2, <2>1 DEF EditTypeOK
  <2>3. Spoiled(r)'
    BY <1>3, <2>1, <2>2 DEF Spoiled, Editing
  <2> QED
    BY <2>1, <2>2, <2>3
<1> QED
  BY <1>9, <1>10, <1>11, <1>12, <1>13, <1>14, <1>15, <1>16, <1>17 DEF PatchAdminUser

\* Every step keeps EditInv.
LEMMA EditStep == AdminInv /\ EditInv /\ [AdminNext]_adminVars => EditInv'
<1> SUFFICES ASSUME AdminInv, EditInv, [AdminNext]_adminVars PROVE EditInv'
  OBVIOUS
<1>1. ASSUME NEW r \in Requests, PatchAdminUser(r) PROVE EditInv'
  <2>1. /\ UNCHANGED <<target, patch>>
        /\ \A s \in Requests \ {r} : /\ pc'[s] = pc[s] /\ answer'[s] = answer[s]
                                     /\ seenAcls'[s] = seenAcls[s] /\ attempt'[s] = attempt[s]
        /\ UNCHANGED <<acls, rivals>> \/ WriteLands(r)
    BY <1>1, OthersStay
  <2>2. /\ EditTypeOK'
        /\ pc'[r] \notin {"release", "ended"} => answer'[r] = answer[r]
        /\ pc'[r] = "writing" => Acceptable(patch[r])
        /\ Spoiled(r)'
        /\ answer'[r] = "contended" => answer[r] = "contended" \/ rivals'[r] >= AclWriteAttempts
    BY <1>1, OwnStep
  <2>3. /\ \A s \in Requests : rivals[s] \in Nat /\ rivals'[s] \in Nat /\ rivals'[s] >= rivals[s]
        /\ \A s \in Requests \ {r} :
             acls'[target[s]] # acls[target[s]] /\ pc[s] \in Editing =>
               rivals'[s] = rivals[s] + 1 \/ rivals[s] >= AclWriteAttempts
    BY <1>1, <2>1, <2>2, LandProps DEF EditInv, EditTypeOK
  <2>4. AclWriteAttempts \in Nat
    BY AdminAssumption
  <2>5. ASSUME NEW s \in Requests \ {r} PROVE Spoiled(s)'
    <3>1. Spoiled(s) /\ attempt[s] \in Nat
      BY DEF EditInv, EditTypeOK
    <3>2. pc'[s] = pc[s] /\ seenAcls'[s] = seenAcls[s] /\ attempt'[s] = attempt[s]
      BY <2>1
    <3>3. CASE acls'[target[s]] = acls[target[s]]
      BY <2>1, <2>3, <3>1, <3>2, <3>3 DEF Spoiled
    <3>4. CASE acls'[target[s]] # acls[target[s]] /\ pc[s] \in Editing
      <4>1. attempt[s] <= rivals'[s]
        BY <2>3, <2>4, <3>1, <3>4 DEF Spoiled
      <4> QED
        BY <2>1, <2>3, <2>4, <3>1, <3>2, <4>1 DEF Spoiled
    <3>5. CASE pc[s] \notin Editing
      BY <2>1, <3>1, <3>2, <3>5 DEF Spoiled, Editing
    <3> QED
      BY <3>3, <3>4, <3>5
  <2>6. \A s \in Requests : Spoiled(s)'
    BY <2>2, <2>5
  <2>7. OpenRequests'
    <3> SUFFICES ASSUME NEW s \in Requests
                 PROVE  /\ pc'[s] \notin {"release", "ended"} => answer'[s] = "none"
                        /\ pc'[s] = "writing" => Acceptable(patch'[s])
      BY DEF OpenRequests
    <3>1. CASE s # r
      BY <2>1, <3>1 DEF EditInv, OpenRequests
    <3>2. CASE s = r
      <4>1. pc'[r] \notin {"release", "ended"} => pc[r] \notin {"release", "ended"}
        BY <1>1 DEF AdminInv, AdminTypeOK, PatchAdminUser, Arrive, TakeSend, TakeLands, TakeReturns,
           TakeAgain, TakeGivenUp, Read, Count, Prepare, WriteLands, WriteFails, Reread, Release,
           Abandon, End, GoTo
      <4> QED
        BY <2>1, <2>2, <3>2, <4>1 DEF EditInv, OpenRequests
    <3> QED
      BY <3>1, <3>2
  <2>8. ContendedIsContended'
    BY <2>1, <2>2, <2>3, <2>4 DEF EditInv, ContendedIsContended
  <2> QED
    BY <2>2, <2>6, <2>7, <2>8 DEF EditInv
<1>2. CASE Reconcile \/ Tick \/ UNCHANGED adminVars
  <2>1. UNCHANGED <<acls, pc, target, patch, seenAcls, attempt, answer, rivals>>
    BY <1>2 DEF Reconcile, Tick, adminVars, account, request, edit
  <2> QED
    BY <2>1 DEF EditInv, EditTypeOK, OpenRequests, Spoiled, ContendedIsContended
<1> QED
  BY <1>1, <1>2 DEF AdminNext

\* It holds before the first request.
LEMMA EditStart == AdminInit => EditInv
<1> SUFFICES ASSUME AdminInit PROVE EditInv
  OBVIOUS
<1>1. EditTypeOK
  BY AdminAssumption DEF AdminInit, EditTypeOK
<1>2. OpenRequests /\ ContendedIsContended
  BY DEF AdminInit, OpenRequests, ContendedIsContended
<1>3. \A r \in Requests : Spoiled(r)
  BY AdminAssumption DEF AdminInit, Spoiled, Editing
<1> QED
  BY <1>1, <1>2, <1>3 DEF EditInv

\* A step that answers an edit with ok is its write, on the list that it was made for.
LEMMA OkIsLanded ==
  ASSUME AdminInv, EditInv, [AdminNext]_adminVars, NEW r \in Requests, pc[r] = "writing",
         answer'[r] = "ok"
  PROVE  WriteLands(r) /\ Matches(r)
<1>1. answer[r] = "none"
  BY DEF EditInv, OpenRequests
<1>2. CASE Reconcile \/ Tick \/ UNCHANGED adminVars
  BY <1>1, <1>2 DEF Reconcile, Tick, adminVars, edit
<1>3. ASSUME NEW s \in Requests, PatchAdminUser(s), s # r PROVE FALSE
  BY <1>1, <1>3, OthersStay
<1>4. CASE PatchAdminUser(r)
  BY <1>1, <1>4, OwnStep
<1> QED
  BY <1>2, <1>3, <1>4 DEF AdminNext

\* For all lists, patches and numbers of requests: an edit is applied to the list that is
\* there when it lands, whatever others have written since it was read.
THEOREM EditsAreExact == AdminSpec => DeltaIsExact
<1>1. ASSUME AdminInv, EditInv, [AdminNext]_adminVars, NEW r \in Requests, pc[r] = "writing",
             answer'[r] = "ok", patch[r].mode = "delta"
      PROVE  /\ patch[r].grant \subseteq acls'[target[r]]
             /\ patch[r].revoke \intersect acls'[target[r]] = {}
             /\ (acls[target[r]] \ (patch[r].revoke \union {Caltech})) \subseteq acls'[target[r]]
             /\ acls'[target[r]] \subseteq (acls[target[r]] \union patch[r].grant \union {Partnership})
             /\ Lawful(acls'[target[r]])
  <2>1. WriteLands(r) /\ Matches(r)
    BY <1>1, OkIsLanded
  <2>2. acls'[target[r]] = ApplyDelta(acls[target[r]], patch[r].grant, patch[r].revoke)
    BY <1>1, <2>1, LandProps
  <2>3. patch[r] \in Patch /\ acls[target[r]] \in SUBSET Acl /\ Acceptable(patch[r])
    BY <1>1 DEF AdminInv, AdminTypeOK, EditInv, EditTypeOK, OpenRequests
  <2> DEFINE after == ApplyDelta(acls[target[r]], patch[r].grant, patch[r].revoke)
  <2>4. /\ patch[r].grant \subseteq after
        /\ patch[r].revoke \intersect after = {}
        /\ (acls[target[r]] \ (patch[r].revoke \union {Caltech})) \subseteq after
        /\ after \subseteq (acls[target[r]] \union patch[r].grant \union {Partnership})
        /\ Lawful(after)
    BY <1>1, <2>3, DeltaProps
  <2> QED
    BY <2>2, <2>4
<1>2. AdminInv /\ EditInv /\ [AdminNext]_adminVars =>
        [\A r \in Requests :
           (pc[r] = "writing" /\ answer'[r] = "ok" /\ patch[r].mode = "delta") =>
             LET before == acls[target[r]]
                 after == acls'[target[r]] IN
               /\ patch[r].grant \subseteq after
               /\ patch[r].revoke \intersect after = {}
               /\ (before \ (patch[r].revoke \union {Caltech})) \subseteq after
               /\ after \subseteq (before \union patch[r].grant \union {Partnership})
               /\ Lawful(after)]_adminVars
  BY <1>1
<1> QED
  BY <1>2, AdminStart, AdminStep, EditStart, EditStep, PTL DEF AdminSpec, DeltaIsExact

\* An edit gives up with contended only after others have changed the list under each of
\* its attempts: for every number of attempts, accounts and requests.
THEOREM ContentionIsReal == AdminSpec => []ContendedIsContended
<1>1. EditInv => ContendedIsContended
  BY DEF EditInv
<1> QED
  BY <1>1, AdminStart, AdminStep, EditStart, EditStep, PTL DEF AdminSpec

----------------------------------------------------------------------------
(* Sign-up and social sign-in.                                             *)

\* Where a handler may be.
SignInPlaces == {"idle", "resolve", "confirm", "park", "byEmail", "link", "insert", "send", "mail",
                 "check", "burn", "refuse", "exhaust", "create", "activate"}

\* The types of the handlers' variables.
HandlerTypeOK ==
    /\ at \in [Handlers -> SignInPlaces]
    /\ doing \in [Handlers -> Attempts \union {Nobody}]
    /\ who \in [Handlers -> Identities \union {Nobody}]
    /\ email \in [Handlers -> Emails \union {Nobody}]
    /\ given \in [Handlers -> 0..MaxCodeSends]
    /\ expected \in [Handlers -> 0..MaxCodeSends]

\* The types of the identities, of the attempts and of their tickets.
TicketTypeOK ==
    /\ linked \in [Emails -> SUBSET Identities]
    /\ state \in [Attempts -> {"none", "pending", "lapsed", "gone"}]
    /\ ticket \in [Attempts -> {"none", "alive", "lapsed", "gone"}]
    /\ holder \in [Attempts -> Identities \union {Nobody}]
    /\ mailTo \in [Attempts -> Emails \union {Nobody}]
    /\ code \in [Attempts -> 0..MaxCodeSends]
    /\ attempts \in [Attempts -> 0..MaxVerificationAttempts]
    /\ sends \in [Attempts -> 0..MaxCodeSends]
    /\ mailed \in [Attempts -> [Code -> Emails \union {Nobody}]]
    /\ guessed \in [Attempts -> [Code -> Nat]]
    /\ burned \in [Attempts -> {0, 1}]
    /\ proofs \subseteq Identities \X Emails

\* The ticket is stored, though its time may be over.
Live(s) == ticket[s] \in {"alive", "lapsed"}

\* A handler that may store a ticket, one whose identity may become linked, one that works
\* on a ticket, and one that knows a code of a ticket that is there.
Parking(h) == at[h] = "park" \/ (at[h] = "resolve" /\ email[h] = Nobody)
Proving(h) == at[h] \in {"byEmail", "link", "insert"} \/ (at[h] = "resolve" /\ email[h] # Nobody)
AtTicket(h) == at[h] \in {"send", "mail", "check", "burn", "refuse", "exhaust"}
HasCode(h) == at[h] \in {"mail", "check", "burn"} /\ expected[h] # 0 /\ Live(doing[h])

\* The handlers that are about to compare a guess of a code.
Checking(s, n) == {h \in Handlers : at[h] = "check" /\ doing[h] = s /\ expected[h] = n}

\* What a handler knows of its attempt: a ticket is stored once only, an identity was proved,
\* a code entered was mailed, and the code it knows goes with the address it has.
HandlerOK(h) ==
    /\ AtTicket(h) => doing[h] \in Attempts /\ ticket[doing[h]] # "none"
    /\ Parking(h) => /\ doing[h] \in Attempts /\ who[h] \in Identities
                     /\ ticket[doing[h]] = "none" /\ state[doing[h]] = "gone"
    /\ Proving(h) => <<who[h], email[h]>> \in proofs
    /\ at[h] \in {"send", "mail"} => email[h] \in Emails
    /\ at[h] = "mail" => expected[h] # 0
    /\ at[h] = "burn" => given[h] = expected[h] /\ given[h] # 0
    /\ at[h] \in {"check", "burn"} =>
         /\ who[h] \in Identities
         /\ given[h] # 0 /\ Live(doing[h]) => mailed[doing[h]][given[h]] # Nobody
    /\ HasCode(h) => /\ email[h] \in Emails /\ expected[h] <= sends[doing[h]]
                     /\ code[doing[h]] = expected[h] => mailTo[doing[h]] = email[h]
                     /\ mailed[doing[h]][expected[h]] \in {Nobody, email[h]}

\* Two handlers do not store the same ticket, and agree on the address of a code.
PairOK(g, h) ==
    /\ ~(Parking(g) /\ Parking(h) /\ doing[g] = doing[h])
    /\ HasCode(g) /\ HasCode(h) /\ doing[g] = doing[h] /\ expected[g] = expected[h]
         => email[g] = email[h]

\* A ticket that is not there yet is blank, one that is there is not burned and its codes
\* are those that were sent, and one that is gone has no code.
TicketOK(s) ==
    /\ state[s] # "gone" => ticket[s] = "none"
    /\ ticket[s] = "none" => /\ code[s] = 0 /\ sends[s] = 0 /\ burned[s] = 0
                             /\ \A n \in Code : mailed[s][n] = Nobody
    /\ Live(s) => /\ burned[s] = 0 /\ holder[s] \in Identities /\ code[s] <= sends[s]
                  /\ code[s] # 0 => mailTo[s] \in Emails
                  /\ \A n \in Code : mailed[s][n] # Nobody =>
                        n <= sends[s] /\ (code[s] = n => mailed[s][n] = mailTo[s])
    /\ ticket[s] = "gone" => code[s] = 0

\* The guesses of a code, made and on their way, are within the limit, within the count for
\* the present code, and none for a code that is yet to be sent.
GuessOK(s, n) ==
    LET guesses == guessed[s][n] + Cardinality(Checking(s, n)) IN
    /\ guesses <= MaxVerificationAttempts
    /\ code[s] = n => guesses <= attempts[s]
    /\ ticket[s] # "gone" /\ n > sends[s] => guesses = 0

\* The inductive invariant of sign-in.
SignInInv ==
    /\ HandlerTypeOK /\ TicketTypeOK /\ LinkedIsProved
    /\ \A h \in Handlers : HandlerOK(h)
    /\ \A g, h \in Handlers : g # h => PairOK(g, h)
    /\ \A s \in Attempts : TicketOK(s)
    /\ \A s \in Attempts, n \in Code : GuessOK(s, n)

\* The variables of a handler stay as they are.
Stays(h) == UNCHANGED <<at[h], doing[h], who[h], email[h], given[h], expected[h]>>

\* Fewer handlers about to compare a guess are a smaller number.
LEMMA FewerGuesses ==
  ASSUME NEW s, NEW n, Checking(s, n)' \subseteq Checking(s, n)
  PROVE  /\ Cardinality(Checking(s, n)) \in Nat /\ Cardinality(Checking(s, n))' \in Nat
         /\ Cardinality(Checking(s, n))' <= Cardinality(Checking(s, n))
<1> DEFINE before == Checking(s, n)
           after == Checking(s, n)'
<1>1. before \in SUBSET Handlers /\ after \in SUBSET before
  BY DEF Checking
<1>2. IsFiniteSet(Handlers)
  BY SignInAssumption
<1>3. IsFiniteSet(before)
  BY <1>1, <1>2, FS_Subset
<1>4. IsFiniteSet(after) /\ Cardinality(after) <= Cardinality(before)
  BY <1>1, <1>3, FS_Subset
<1>5. Cardinality(before) \in Nat /\ Cardinality(after) \in Nat
  BY <1>3, <1>4, FS_CardinalityType
<1> QED
  BY <1>4, <1>5

\* The documents of the tickets, and the history of their codes, stay as they are.
TicketsStay == UNCHANGED <<ticket, holder, mailTo, code, attempts, sends, mailed, guessed, burned>>

\* A step of one handler which leaves the tickets alone, neither claims a guess nor is about
\* to store a ticket or to use a code when it was not before.
LEMMA HandlerMoves ==
  ASSUME SignInInv, NEW h \in Handlers, TicketsStay, UNCHANGED state, HandlerTypeOK',
         \A g \in Handlers \ {h} : Stays(g),
         HandlerOK(h)', at'[h] # "check",
         Parking(h)' => Parking(h) /\ doing'[h] = doing[h],
         HasCode(h)' => HasCode(h) /\ doing'[h] = doing[h] /\ email'[h] = email[h]
                        /\ expected'[h] = expected[h],
         proofs \subseteq proofs', proofs' \subseteq Identities \X Emails,
         linked' \in [Emails -> SUBSET Identities], LinkedIsProved'
  PROVE  SignInInv'
<1>1. TicketTypeOK'
  BY DEF SignInInv, TicketTypeOK, TicketsStay
<1>2. ASSUME NEW g \in Handlers PROVE HandlerOK(g)'
  <2>1. CASE g = h
    BY <2>1
  <2>2. CASE g # h
    <3>1. HandlerOK(g)
      BY DEF SignInInv
    <3> QED
      BY <2>2, <3>1 DEF TicketsStay, Stays, HandlerOK, AtTicket, Parking, Proving, HasCode, Live
  <2> QED
    BY <2>1, <2>2
<1>3. ASSUME NEW g \in Handlers
      PROVE  /\ Parking(g)' => Parking(g) /\ doing'[g] = doing[g]
             /\ HasCode(g)' => HasCode(g) /\ doing'[g] = doing[g] /\ email'[g] = email[g]
                               /\ expected'[g] = expected[g]
  BY DEF Stays, Parking, HasCode, Live, TicketsStay
<1>4. ASSUME NEW f \in Handlers, NEW g \in Handlers, f # g PROVE PairOK(f, g)'
  <2>1. PairOK(f, g)
    BY <1>4 DEF SignInInv
  <2> QED
    BY <1>3, <2>1 DEF PairOK
<1>5. ASSUME NEW s \in Attempts PROVE TicketOK(s)'
  <2>1. TicketOK(s)
    BY DEF SignInInv
  <2> QED
    BY <2>1 DEF TicketOK, Live, TicketsStay
<1>6. ASSUME NEW s \in Attempts, NEW n \in Code PROVE GuessOK(s, n)'
  <2>1. Checking(s, n)' \subseteq Checking(s, n)
    BY DEF Checking, Stays
  <2>2. /\ Cardinality(Checking(s, n)) \in Nat /\ Cardinality(Checking(s, n))' \in Nat
        /\ Cardinality(Checking(s, n))' <= Cardinality(Checking(s, n))
    BY <2>1, FewerGuesses
  <2>3. /\ GuessOK(s, n) /\ guessed[s][n] \in Nat /\ attempts[s] \in Nat
    BY DEF SignInInv, TicketTypeOK
  <2> HIDE DEF Checking
  <2> QED
    BY <2>2, <2>3, SignInAssumption DEF GuessOK, TicketsStay
<1> QED
  BY <1>1, <1>2, <1>4, <1>5, <1>6 DEF SignInInv

\* A handler that has finished knows nothing.
LEMMA FinishProps ==
  ASSUME HandlerTypeOK, NEW h \in Handlers, Finish(h)
  PROVE  /\ HandlerTypeOK' /\ \A g \in Handlers \ {h} : Stays(g)
         /\ at'[h] = "idle" /\ HandlerOK(h)' /\ ~Parking(h)' /\ ~HasCode(h)'
<1>1. HandlerTypeOK'
  BY SignInAssumption DEF HandlerTypeOK, Finish, Move, SignInPlaces
<1>2. \A g \in Handlers \ {h} : Stays(g)
  BY DEF HandlerTypeOK, Finish, Move, Stays
<1>3. at'[h] = "idle"
  BY DEF HandlerTypeOK, Finish, Move
<1> QED
  BY <1>1, <1>2, <1>3 DEF HandlerOK, AtTicket, Parking, Proving, HasCode

\* A handler that has moved on and is otherwise as before.
LEMMA MoveProps ==
  ASSUME HandlerTypeOK, NEW h \in Handlers, NEW place \in SignInPlaces, Move(h, place), UNCHANGED local
  PROVE  HandlerTypeOK' /\ at'[h] = place /\ \A g \in Handlers \ {h} : Stays(g)
  BY DEF HandlerTypeOK, Move, Stays, local

\* Steps after which the handler has finished, and which leave tickets and identities alone.
LEMMA FinishStep ==
  ASSUME SignInInv, NEW h \in Handlers, Finish(h), TicketsStay, UNCHANGED <<state, linked, proofs>>
  PROVE  SignInInv'
<1>1. HandlerTypeOK /\ proofs \subseteq Identities \X Emails /\ linked \in [Emails -> SUBSET Identities]
      /\ LinkedIsProved
  BY DEF SignInInv, TicketTypeOK
<1>2. /\ HandlerTypeOK' /\ \A g \in Handlers \ {h} : Stays(g)
      /\ at'[h] = "idle" /\ HandlerOK(h)' /\ ~Parking(h)' /\ ~HasCode(h)'
  BY <1>1, FinishProps
<1>3. LinkedIsProved'
  BY <1>1 DEF LinkedIsProved
<1> QED
  BY <1>1, <1>2, <1>3, HandlerMoves

\* A handler moves on, with what it knows, from a place to a next one that asks no more of it.
LEMMA MoveStep ==
  ASSUME SignInInv, NEW h \in Handlers, NEW place \in SignInPlaces, Move(h, place), UNCHANGED local,
         TicketsStay, UNCHANGED <<state, linked, proofs>>,
         \/ place = "confirm"
         \/ place = "park" /\ Parking(h)
         \/ place \in {"byEmail", "link", "insert"} /\ Proving(h)
         \/ place = "exhaust" /\ AtTicket(h)
         \/ place = "burn" /\ at[h] = "check" /\ given[h] = expected[h] /\ given[h] # 0
  PROVE  SignInInv'
<1>1. /\ HandlerTypeOK /\ HandlerOK(h) /\ LinkedIsProved
      /\ proofs \subseteq Identities \X Emails /\ linked \in [Emails -> SUBSET Identities]
  BY DEF SignInInv, TicketTypeOK
<1>2. HandlerTypeOK' /\ at'[h] = place /\ \A g \in Handlers \ {h} : Stays(g)
  BY <1>1, MoveProps
<1>3. UNCHANGED <<doing, who, email, given, expected, linked, proofs, state>>
  BY DEF local
<1>4. HandlerOK(h)'
  <2>1. CASE place \in {"confirm", "park", "exhaust"}
    BY <1>1, <1>2, <1>3, <2>1 DEF TicketsStay, HandlerOK, AtTicket, Parking, Proving, HasCode, Live
  <2>2. CASE place \in {"byEmail", "link", "insert"}
    BY <1>1, <1>2, <1>3, <2>2 DEF TicketsStay, HandlerOK, AtTicket, Parking, Proving, HasCode, Live
  <2>3. CASE place = "burn"
    BY <1>1, <1>2, <1>3, <2>3 DEF TicketsStay, HandlerOK, AtTicket, Parking, Proving, HasCode, Live
  <2> QED
    BY <2>1, <2>2, <2>3
<1>5. /\ at'[h] # "check"
      /\ Parking(h)' => Parking(h) /\ doing'[h] = doing[h]
      /\ HasCode(h)' => HasCode(h) /\ doing'[h] = doing[h] /\ email'[h] = email[h]
                        /\ expected'[h] = expected[h]
  BY <1>2, <1>3 DEF TicketsStay, Parking, HasCode, Live
<1>6. LinkedIsProved'
  BY <1>1, <1>3 DEF LinkedIsProved
<1> QED
  BY <1>1, <1>2, <1>3, <1>4, <1>5, <1>6, HandlerMoves

\* resolve_identity, and the handlers that write no more than an account.
LEMMA ResolveSteps ==
  ASSUME SignInInv, NEW h \in Handlers,
         \/ Drop(h) \/ Resolve(h) \/ Confirm(h) \/ ByEmail(h) \/ Create(h) \/ ActivateWrites(h)
         \/ Refuse(h)
  PROVE  SignInInv'
<1>1. TicketsStay /\ UNCHANGED <<state, linked, proofs>>
  BY DEF Drop, Resolve, Confirm, ByEmail, Create, ActivateWrites, Refuse, accounts, parked, record,
     TicketsStay
<1>2. \/ Finish(h)
      \/ \E place \in SignInPlaces :
           /\ Move(h, place) /\ UNCHANGED local
           /\ \/ place = "confirm"
              \/ place = "park" /\ Parking(h)
              \/ place \in {"byEmail", "link", "insert"} /\ Proving(h)
              \/ place = "exhaust" /\ AtTicket(h)
  <2>1. CASE Drop(h) \/ Confirm(h) \/ Create(h) \/ ActivateWrites(h)
    BY <2>1 DEF Drop, Confirm, Create, ActivateWrites
  <2>2. CASE Resolve(h)
    <3>1. \/ Finish(h) \/ (Move(h, "confirm") /\ UNCHANGED local)
          \/ (email[h] = Nobody /\ Move(h, "park") /\ UNCHANGED local)
          \/ (email[h] # Nobody /\ Move(h, "byEmail") /\ UNCHANGED local)
      BY <2>2 DEF Resolve
    <3> QED
      BY <2>2, <3>1 DEF Resolve, SignInPlaces, Parking, Proving
  <2>3. CASE ByEmail(h)
    <3>1. \/ Finish(h) \/ (Move(h, "link") /\ UNCHANGED local)
          \/ (Move(h, "insert") /\ UNCHANGED local)
      BY <2>3 DEF ByEmail
    <3> QED
      BY <2>3, <3>1 DEF ByEmail, SignInPlaces, Proving
  <2>4. CASE Refuse(h)
    <3>1. Finish(h) \/ (Move(h, "exhaust") /\ UNCHANGED local)
      BY <2>4 DEF Refuse
    <3> QED
      BY <2>4, <3>1 DEF Refuse, SignInPlaces, AtTicket
  <2> QED
    BY <2>1, <2>2, <2>3, <2>4
<1> QED
  BY <1>1, <1>2, FinishStep, MoveStep

\* link_identity_to_user and insert_social_user: what they link was proved.
LEMMA LinkSteps ==
  ASSUME SignInInv, NEW h \in Handlers, Link(h) \/ Insert(h)
  PROVE  SignInInv'
<1>1. /\ HandlerTypeOK /\ HandlerOK(h) /\ LinkedIsProved
      /\ proofs \subseteq Identities \X Emails /\ linked \in [Emails -> SUBSET Identities]
  BY DEF SignInInv, TicketTypeOK
<1>2. TicketsStay /\ UNCHANGED <<state, proofs>> /\ Finish(h)
  BY DEF Link, Insert, parked, record, TicketsStay
<1>3. <<who[h], email[h]>> \in proofs /\ who[h] \in Identities /\ email[h] \in Emails
  BY <1>1 DEF Link, Insert, HandlerOK, Proving
<1>4. \/ UNCHANGED linked \/ linked' = [linked EXCEPT ![email[h]] = @ \union {who[h]}]
      \/ linked' = [linked EXCEPT ![email[h]] = {who[h]}]
  BY DEF Link, Insert, accounts
<1>5. linked' \in [Emails -> SUBSET Identities]
  BY <1>1, <1>3, <1>4
<1>6. LinkedIsProved'
  <2> SUFFICES ASSUME NEW e \in Emails, NEW i \in linked'[e] PROVE <<i, e>> \in proofs'
    BY DEF LinkedIsProved
  <2>1. i \in linked[e] \/ (i = who[h] /\ e = email[h])
    BY <1>1, <1>3, <1>4
  <2> QED
    BY <1>1, <1>2, <1>3, <2>1 DEF LinkedIsProved
<1>7. /\ HandlerTypeOK' /\ \A g \in Handlers \ {h} : Stays(g)
      /\ at'[h] = "idle" /\ HandlerOK(h)' /\ ~Parking(h)' /\ ~HasCode(h)'
  BY <1>1, <1>2, FinishProps
<1> QED
  BY <1>1, <1>2, <1>5, <1>6, <1>7, HandlerMoves

\* A request arrives at a free handler: of sign-up, of activation, for a code, and a guess
\* for which there is no attempt left.
LEMMA ArrivalSteps ==
  ASSUME SignInInv, NEW h \in Handlers, at[h] = "idle",
         \/ \E e \in Emails : SignUp(h, e) \/ Activate(h, e)
         \/ \E s \in Attempts, e \in Emails : Complete(h, s, e)
         \/ \E s \in Attempts, n \in 0..MaxCodeSends : Verify(h, s, n) /\ ~Claimable(s)
  PROVE  SignInInv'
<1>1. /\ HandlerTypeOK /\ LinkedIsProved
      /\ proofs \subseteq Identities \X Emails /\ linked \in [Emails -> SUBSET Identities]
  BY DEF SignInInv, TicketTypeOK
<1>2. TicketsStay /\ UNCHANGED <<state, linked, proofs>>
  BY DEF SignUp, Activate, Complete, Verify, accounts, parked, record, TicketsStay
<1>3. LinkedIsProved'
  BY <1>1, <1>2 DEF LinkedIsProved
<1> DEFINE Arrived ==
             /\ HandlerTypeOK' /\ \A g \in Handlers \ {h} : Stays(g)
             /\ at'[h] \in {"create", "activate", "send", "refuse"} /\ HandlerOK(h)'
<1>4. ASSUME NEW e \in Emails, SignUp(h, e) \/ Activate(h, e) PROVE Arrived
  <2>1. HandlerTypeOK' /\ at'[h] \in {"create", "activate"}
    BY <1>1, <1>4 DEF SignUp, Activate, Move, HandlerTypeOK, SignInPlaces
  <2>2. \A g \in Handlers \ {h} : Stays(g)
    BY <1>1, <1>4 DEF SignUp, Activate, Move, HandlerTypeOK, Stays
  <2> QED
    BY <2>1, <2>2 DEF HandlerOK, AtTicket, Parking, Proving, HasCode
<1>5. ASSUME NEW s \in Attempts, NEW e \in Emails, Complete(h, s, e) PROVE Arrived
  <2>1. HandlerTypeOK' /\ at'[h] = "send" /\ doing'[h] = s /\ email'[h] = e
    BY <1>1, <1>5 DEF Complete, Move, HandlerTypeOK, SignInPlaces
  <2>2. \A g \in Handlers \ {h} : Stays(g)
    BY <1>1, <1>5 DEF Complete, Move, HandlerTypeOK, Stays
  <2>3. ticket'[s] = "alive"
    BY <1>2, <1>5 DEF Complete, TicketsStay
  <2> QED
    BY <2>1, <2>2, <2>3 DEF HandlerOK, AtTicket, Parking, Proving, HasCode
<1>6. ASSUME NEW s \in Attempts, NEW n \in 0..MaxCodeSends, Verify(h, s, n), ~Claimable(s)
      PROVE  Arrived
  <2>1. HandlerTypeOK' /\ at'[h] = "refuse" /\ doing'[h] = s
    BY <1>1, <1>6 DEF Verify, Move, HandlerTypeOK, SignInPlaces
  <2>2. \A g \in Handlers \ {h} : Stays(g)
    BY <1>1, <1>6 DEF Verify, Move, HandlerTypeOK, Stays
  <2>3. ticket'[s] # "none"
    BY <1>2, <1>6 DEF Verify, TicketsStay
  <2> QED
    BY <2>1, <2>2, <2>3 DEF HandlerOK, AtTicket, Parking, Proving, HasCode
<1>7. Arrived
  BY <1>4, <1>5, <1>6
<1>8. at'[h] # "check" /\ ~Parking(h)' /\ ~HasCode(h)'
  BY <1>7 DEF Parking, HasCode
<1> QED
  BY <1>1, <1>2, <1>3, <1>7, <1>8, HandlerMoves

\* A ticket is deleted, when its time is over, it is out of attempts, or the right code was
\* entered: it never comes back, and nobody has a code of it that counts.
LEMMA DeleteStep ==
  ASSUME SignInInv, NEW s \in Attempts, ticket[s] # "none", Delete(s),
         UNCHANGED <<state, linked, guessed>>,
         \/ UNCHANGED burned
         \/ Live(s) /\ burned' = [burned EXCEPT ![s] = @ + 1],
         proofs \subseteq proofs', proofs' \subseteq Identities \X Emails, HandlerTypeOK',
         \A g \in Handlers :
            \/ Stays(g)
            \/ at'[g] \in {"idle", "resolve"} /\ ~Parking(g)' /\ HandlerOK(g)'
  PROVE  SignInInv'
<1>0. /\ TicketTypeOK /\ HandlerTypeOK /\ LinkedIsProved /\ TicketOK(s)
  BY DEF SignInInv
<1>1. /\ ticket' \in [Attempts -> {"none", "alive", "lapsed", "gone"}] /\ ticket'[s] = "gone"
      /\ \A t \in Attempts \ {s} : ticket'[t] = ticket[t]
  BY <1>0 DEF Delete, TicketTypeOK
<1>2. /\ code'[s] = 0 /\ \A t \in Attempts \ {s} : /\ holder'[t] = holder[t] /\ mailTo'[t] = mailTo[t]
                                                   /\ code'[t] = code[t] /\ attempts'[t] = attempts[t]
                                                   /\ sends'[t] = sends[t] /\ mailed'[t] = mailed[t]
                                                   /\ burned'[t] = burned[t]
  BY <1>0 DEF Delete, TicketTypeOK
<1>3. TicketTypeOK'
  <2>1. burned' \in [Attempts -> {0, 1}]
    BY <1>0 DEF TicketTypeOK, TicketOK
  <2>2. /\ holder' \in [Attempts -> Identities \union {Nobody}]
        /\ mailTo' \in [Attempts -> Emails \union {Nobody}]
        /\ code' \in [Attempts -> 0..MaxCodeSends]
        /\ attempts' \in [Attempts -> 0..MaxVerificationAttempts]
        /\ sends' \in [Attempts -> 0..MaxCodeSends]
    BY <1>0, SignInAssumption DEF Delete, TicketTypeOK
  <2>3. mailed' \in [Attempts -> [Code -> Emails \union {Nobody}]]
    <3>1. [n \in Code |-> Nobody] \in [Code -> Emails \union {Nobody}]
      OBVIOUS
    <3> QED
      BY <1>0, <3>1 DEF Delete, TicketTypeOK
  <2> QED
    BY <1>0, <1>1, <2>1, <2>2, <2>3 DEF TicketTypeOK
<1>4. ASSUME NEW g \in Handlers PROVE HandlerOK(g)'
  <2>1. HandlerOK(g)
    BY DEF SignInInv
  <2>2. CASE Stays(g)
    <3>1. AtTicket(g)' => doing'[g] \in Attempts /\ ticket'[doing'[g]] # "none"
      BY <1>1, <2>1, <2>2 DEF Stays, AtTicket, HandlerOK
    <3>2. Parking(g)' => /\ doing'[g] \in Attempts /\ who'[g] \in Identities
                         /\ ticket'[doing'[g]] = "none" /\ state'[doing'[g]] = "gone"
      BY <1>1, <2>1, <2>2 DEF Stays, Parking, HandlerOK
    <3>3. CASE AtTicket(g) /\ Live(doing[g])'
      <4>1. doing[g] \in Attempts \ {s} /\ Live(doing[g])
        BY <1>1, <2>1, <2>2, <3>3 DEF Live, HandlerOK, Stays
      <4> QED
        BY <1>2, <2>1, <2>2, <3>1, <3>2, <3>3, <4>1 DEF Stays, HandlerOK, AtTicket, Parking, Proving,
           HasCode
    <3>4. CASE ~(AtTicket(g) /\ Live(doing[g])')
      BY <2>1, <2>2, <3>1, <3>2, <3>4 DEF Stays, HandlerOK, AtTicket, Parking, Proving, HasCode, Live
    <3> QED
      BY <3>3, <3>4
  <2> QED
    BY <2>2
<1>5. ASSUME NEW g \in Handlers
      PROVE  /\ Parking(g)' => Parking(g) /\ doing'[g] = doing[g]
             /\ HasCode(g)' => HasCode(g) /\ doing'[g] = doing[g] /\ email'[g] = email[g]
                               /\ expected'[g] = expected[g]
  <2>1. HandlerOK(g)
    BY DEF SignInInv
  <2>2. Parking(g)' => Stays(g)
    OBVIOUS
  <2>3. HasCode(g)' => Stays(g)
    BY DEF HasCode
  <2>4. HasCode(g)' => HasCode(g)
    BY <1>1, <2>1, <2>3 DEF HasCode, Live, HandlerOK, AtTicket, Stays
  <2> QED
    BY <2>2, <2>3, <2>4 DEF Stays, Parking
<1>6. ASSUME NEW f \in Handlers, NEW g \in Handlers, f # g PROVE PairOK(f, g)'
  <2>1. PairOK(f, g)
    BY <1>6 DEF SignInInv
  <2> QED
    BY <1>5, <2>1 DEF PairOK
<1>7. ASSUME NEW t \in Attempts PROVE TicketOK(t)'
  <2>1. TicketOK(t)
    BY DEF SignInInv
  <2>2. CASE t = s
    BY <1>0, <1>1, <1>2, <2>2 DEF TicketOK, Live
  <2>3. CASE t # s
    BY <1>1, <1>2, <2>1, <2>3 DEF TicketOK, Live
  <2> QED
    BY <2>2, <2>3
<1>8. ASSUME NEW t \in Attempts, NEW n \in Code PROVE GuessOK(t, n)'
  <2>1. Checking(t, n)' \subseteq Checking(t, n)
    BY DEF Checking, Stays
  <2>2. /\ Cardinality(Checking(t, n)) \in Nat /\ Cardinality(Checking(t, n))' \in Nat
        /\ Cardinality(Checking(t, n))' <= Cardinality(Checking(t, n))
    BY <2>1, FewerGuesses
  <2>3. GuessOK(t, n) /\ guessed[t][n] \in Nat /\ attempts[t] \in Nat
    BY DEF SignInInv, TicketTypeOK
  <2>6. n # 0
    BY SignInAssumption DEF Code
  <2>4. CASE t = s
    BY <1>1, <1>2, <2>2, <2>3, <2>4, <2>6, SignInAssumption DEF GuessOK
  <2>5. CASE t # s
    BY <1>1, <1>2, <2>2, <2>3, <2>5, SignInAssumption DEF GuessOK
  <2> QED
    BY <2>4, <2>5
<1>9. LinkedIsProved'
  BY <1>0 DEF LinkedIsProved
<1> QED
  BY <1>3, <1>4, <1>6, <1>7, <1>8, <1>9 DEF SignInInv

\* The TTL monitor, no_attempt_left, and the right code.
LEMMA DeletingSteps ==
  ASSUME SignInInv,
         \/ \E s \in Attempts : Swept(s)
         \/ \E h \in Handlers : Exhaust(h) \/ Burn(h)
  PROVE  SignInInv'
<1>0. /\ HandlerTypeOK /\ TicketTypeOK /\ proofs \subseteq Identities \X Emails
  BY DEF SignInInv, TicketTypeOK
<1>1. ASSUME NEW s \in Attempts, Swept(s) PROVE SignInInv'
  <2>1. /\ ticket[s] # "none" /\ Delete(s)
        /\ UNCHANGED <<state, linked, guessed, burned, proofs, at, doing, who, email, given, expected>>
    BY <1>1 DEF Swept, accounts, local
  <2>2. HandlerTypeOK' /\ \A g \in Handlers : Stays(g)
    BY <1>0, <2>1 DEF HandlerTypeOK, Stays
  <2> QED
    BY <1>0, <2>1, <2>2, DeleteStep
<1>2. ASSUME NEW h \in Handlers, Exhaust(h) PROVE SignInInv'
  <2>1. HandlerOK(h)
    BY DEF SignInInv
  <2>2. doing[h] \in Attempts /\ ticket[doing[h]] # "none"
    BY <1>2, <2>1 DEF Exhaust, HandlerOK, AtTicket
  <2>3. Delete(doing[h]) /\ Finish(h) /\ UNCHANGED <<state, linked, guessed, burned, proofs>>
    BY <1>2 DEF Exhaust, accounts
  <2>4. /\ HandlerTypeOK' /\ \A g \in Handlers \ {h} : Stays(g)
        /\ at'[h] = "idle" /\ HandlerOK(h)' /\ ~Parking(h)' /\ ~HasCode(h)'
    BY <1>0, <2>3, FinishProps
  <2> QED
    BY <1>0, <2>2, <2>3, <2>4, DeleteStep
<1>3. ASSUME NEW h \in Handlers, Burn(h), ~Burns(doing[h]) PROVE SignInInv'
  <2>1. Finish(h) /\ TicketsStay /\ UNCHANGED <<state, linked, proofs>>
    BY <1>3 DEF Burn, accounts, parked, TicketsStay
  <2> QED
    BY <2>1, FinishStep
<1>4. ASSUME NEW h \in Handlers, Burn(h), Burns(doing[h]) PROVE SignInInv'
  <2>1. HandlerOK(h) /\ at[h] = "burn"
    BY <1>4 DEF SignInInv, Burn
  <2>2. /\ doing[h] \in Attempts /\ Live(doing[h]) /\ ticket[doing[h]] # "none"
    BY <1>4, <2>1 DEF HandlerOK, AtTicket, Burns, Live
  <2>3. /\ Delete(doing[h]) /\ burned' = [burned EXCEPT ![doing[h]] = @ + 1]
        /\ proofs' = proofs \union {<<who[h], mailed[doing[h]][given[h]]>>}
        /\ UNCHANGED <<state, linked, guessed, doing, who>>
        /\ email' = [email EXCEPT ![h] = email[h]]
        /\ given' = [given EXCEPT ![h] = 0]
        /\ expected' = [expected EXCEPT ![h] = 0]
        /\ at' = [at EXCEPT ![h] = "resolve"]
    BY <1>4 DEF Burn, Address, Move, accounts
  <2>4. mailed[doing[h]][given[h]] = email[h] /\ email[h] \in Emails /\ who[h] \in Identities
    BY <2>1, <2>2 DEF HandlerOK, HasCode
  <2>5. /\ HandlerTypeOK' /\ at'[h] = "resolve" /\ email'[h] = email[h] /\ who'[h] = who[h]
    BY <1>0, <2>3, SignInAssumption DEF HandlerTypeOK, SignInPlaces
  <2>6. \A g \in Handlers \ {h} : Stays(g)
    BY <1>0, <2>3 DEF HandlerTypeOK, Stays
  <2>7. <<who'[h], email'[h]>> \in proofs' /\ email'[h] # Nobody
    BY <2>3, <2>4, <2>5, SignInAssumption
  <2>8. HandlerOK(h)' /\ ~Parking(h)'
    BY <2>5, <2>7 DEF HandlerOK, AtTicket, Parking, Proving, HasCode
  <2>9. proofs \subseteq proofs' /\ proofs' \subseteq Identities \X Emails
    BY <1>0, <2>3, <2>4
  <2>10. \A g \in Handlers :
            \/ Stays(g)
            \/ at'[g] \in {"idle", "resolve"} /\ ~Parking(g)' /\ HandlerOK(g)'
    BY <2>5, <2>6, <2>8
  <2> QED
    BY <2>2, <2>3, <2>5, <2>9, <2>10, DeleteStep
<1> QED
  BY <1>1, <1>2, <1>3, <1>4

\* A step that moves no handler and no ticket, except that the time of a ticket ends.
LEMMA TimeSteps ==
  ASSUME SignInInv, NEW s \in Attempts,
         \/ Start(s) \/ StateLapses(s) \/ TicketLapses(s)
         \/ \E h \in Handlers : Callback(h, s) /\ state[s] = "lapsed"
  PROVE  SignInInv'
<1>0. TicketTypeOK /\ HandlerTypeOK
  BY DEF SignInInv
<1>1. /\ UNCHANGED <<linked, proofs, holder, mailTo, code, attempts, sends, mailed, guessed, burned,
                     at, doing, who, email, given, expected>>
  BY DEF Start, StateLapses, TicketLapses, Callback, accounts, parked, local, record
<1>2. /\ state' \in [Attempts -> {"none", "pending", "lapsed", "gone"}]
      /\ \A t \in Attempts : state[t] = "gone" => state'[t] = "gone"
      /\ \A t \in Attempts : state'[t] # "gone" => state[t] # "gone"
  BY <1>0 DEF TicketTypeOK, Start, StateLapses, TicketLapses, Callback
<1>3. /\ ticket' \in [Attempts -> {"none", "alive", "lapsed", "gone"}]
      /\ \A t \in Attempts : ticket'[t] = ticket[t] \/ (ticket[t] = "alive" /\ ticket'[t] = "lapsed")
  BY <1>0 DEF TicketTypeOK, Start, StateLapses, TicketLapses, Callback, parked
<1>4. TicketTypeOK' /\ HandlerTypeOK' /\ LinkedIsProved'
  BY <1>1, <1>2, <1>3 DEF SignInInv, TicketTypeOK, HandlerTypeOK, LinkedIsProved
<1>5. ASSUME NEW g \in Handlers
      PROVE  /\ HandlerOK(g)' /\ (Parking(g)' <=> Parking(g)) /\ (HasCode(g)' <=> HasCode(g))
  <2>1. HandlerOK(g)
    BY DEF SignInInv
  <2>2. ASSUME AtTicket(g) PROVE Live(doing[g])' <=> Live(doing[g])
    BY <1>1, <1>3, <2>1, <2>2 DEF HandlerOK, Live
  <2>3. HasCode(g)' <=> HasCode(g)
    BY <1>1, <2>2 DEF HasCode, AtTicket
  <2>4. AtTicket(g)' => doing'[g] \in Attempts /\ ticket'[doing'[g]] # "none"
    BY <1>1, <1>3, <2>1 DEF HandlerOK, AtTicket
  <2>5. Parking(g)' => /\ doing'[g] \in Attempts /\ who'[g] \in Identities
                       /\ ticket'[doing'[g]] = "none" /\ state'[doing'[g]] = "gone"
    BY <1>1, <1>2, <1>3, <2>1 DEF HandlerOK, Parking
  <2>6. HandlerOK(g)'
    BY <1>1, <2>1, <2>2, <2>3, <2>4, <2>5 DEF HandlerOK, AtTicket, Proving
  <2> QED
    BY <1>1, <2>3, <2>6 DEF Parking
<1>6. ASSUME NEW f \in Handlers, NEW g \in Handlers, f # g PROVE PairOK(f, g)'
  <2>1. PairOK(f, g)
    BY <1>6 DEF SignInInv
  <2> QED
    BY <1>1, <1>5, <2>1 DEF PairOK
<1>7. ASSUME NEW t \in Attempts PROVE TicketOK(t)'
  <2>1. TicketOK(t)
    BY DEF SignInInv
  <2> QED
    BY <1>1, <1>2, <1>3, <2>1 DEF TicketOK, Live
<1>8. ASSUME NEW t \in Attempts, NEW n \in Code PROVE GuessOK(t, n)'
  <2>1. GuessOK(t, n) /\ Checking(t, n)' = Checking(t, n)
    BY <1>1 DEF SignInInv, Checking
  <2> QED
    BY <1>1, <1>3, <2>1 DEF GuessOK
<1> QED
  BY <1>4, <1>5, <1>6, <1>7, <1>8 DEF SignInInv

\* get_oauth_callback consumes the state, so that its attempt stores at most one ticket.
LEMMA CallbackStep ==
  ASSUME SignInInv, NEW h \in Handlers, NEW s \in Attempts, Callback(h, s), state[s] = "pending"
  PROVE  SignInInv'
<1>0. TicketTypeOK /\ HandlerTypeOK /\ LinkedIsProved /\ TicketOK(s)
  BY DEF SignInInv
<1>1. PICK said \in Provides[s] :
        /\ doing' = [doing EXCEPT ![h] = s]
        /\ who' = [who EXCEPT ![h] = said[1]]
        /\ email' = [email EXCEPT ![h] = said[2]]
        /\ proofs' = IF said[2] = Nobody THEN proofs ELSE proofs \union {said}
        /\ at' = [at EXCEPT ![h] = "resolve"]
  BY DEF Callback, Move
<1>2. /\ said[1] \in Identities /\ said[2] \in Emails \union {Nobody} /\ said = <<said[1], said[2]>>
  BY SignInAssumption
<1>3. /\ TicketsStay /\ UNCHANGED <<linked, given, expected>>
      /\ state' = [state EXCEPT ![s] = "gone"] /\ ticket[s] = "none"
  BY <1>0 DEF Callback, accounts, parked, TicketsStay, TicketOK
<1>4. proofs \subseteq proofs' /\ proofs' \subseteq Identities \X Emails
  BY <1>0, <1>1, <1>2 DEF TicketTypeOK
<1>5. TicketTypeOK' /\ HandlerTypeOK' /\ LinkedIsProved'
  <2>1. state' \in [Attempts -> {"none", "pending", "lapsed", "gone"}]
    BY <1>0, <1>3 DEF TicketTypeOK
  <2>2. TicketTypeOK'
    BY <1>0, <1>3, <1>4, <2>1 DEF TicketTypeOK, TicketsStay
  <2>3. HandlerTypeOK'
    BY <1>0, <1>1, <1>2, <1>3 DEF HandlerTypeOK, SignInPlaces
  <2> QED
    BY <1>0, <1>3, <1>4, <2>2, <2>3 DEF LinkedIsProved
<1>6. /\ \A g \in Handlers \ {h} : Stays(g)
      /\ at'[h] = "resolve" /\ doing'[h] = s /\ who'[h] = said[1] /\ email'[h] = said[2]
  BY <1>0, <1>1, <1>3 DEF HandlerTypeOK, Stays
<1>7. ASSUME NEW g \in Handlers PROVE HandlerOK(g)' /\ (HasCode(g)' => g # h)
  <2>1. CASE g = h
    <3>1. email'[h] # Nobody => <<who'[h], email'[h]>> \in proofs'
      BY <1>1, <1>2, <1>6
    <3>2. ticket'[s] = "none" /\ state'[s] = "gone"
      BY <1>0, <1>3 DEF TicketsStay, TicketTypeOK
    <3> QED
      BY <1>2, <1>6, <2>1, <3>1, <3>2 DEF HandlerOK, AtTicket, Parking, Proving, HasCode
  <2>2. CASE g # h
    <3>1. HandlerOK(g) /\ Stays(g)
      BY <1>6, <2>2 DEF SignInInv
    <3>2. \A t \in Attempts : state[t] = "gone" => state'[t] = "gone"
      BY <1>0, <1>3 DEF TicketTypeOK
    <3> QED
      BY <1>3, <1>4, <2>2, <3>1, <3>2 DEF TicketsStay, Stays, HandlerOK, AtTicket, Parking, Proving,
         HasCode, Live
  <2> QED
    BY <2>1, <2>2
<1>8. ASSUME NEW f \in Handlers, NEW g \in Handlers, f # g PROVE PairOK(f, g)'
  <2>1. PairOK(f, g) /\ HandlerOK(f) /\ HandlerOK(g)
    BY <1>8 DEF SignInInv
  <2>2. ASSUME NEW k \in Handlers, k # h, Parking(k)' PROVE doing'[k] # s
    <3>1. HandlerOK(k) /\ Stays(k)
      BY <1>6, <2>2 DEF SignInInv
    <3>2. state[doing[k]] = "gone"
      BY <2>2, <3>1 DEF HandlerOK, Stays, Parking
    <3> QED
      BY <3>1, <3>2 DEF Callback, Stays
  <2>3. ASSUME NEW k \in Handlers, k # h
        PROVE  (Parking(k)' <=> Parking(k)) /\ (HasCode(k)' <=> HasCode(k)) /\ Stays(k)
    BY <1>3, <1>6, <2>3 DEF Stays, Parking, HasCode, Live, TicketsStay
  <2>4. CASE f # h /\ g # h
    BY <2>1, <2>3, <2>4 DEF PairOK, Stays
  <2>5. CASE f = h \/ g = h
    <3>1. ~HasCode(h)'
      BY <1>6 DEF HasCode
    <3> QED
      BY <1>6, <1>8, <2>2, <2>5, <3>1 DEF PairOK
  <2> QED
    BY <2>4, <2>5
<1>9. ASSUME NEW t \in Attempts PROVE TicketOK(t)'
  <2>1. TicketOK(t) /\ (state'[t] # "gone" => state[t] # "gone")
    BY <1>0, <1>3 DEF SignInInv, TicketTypeOK
  <2> QED
    BY <1>3, <2>1 DEF TicketOK, Live, TicketsStay
<1>10. ASSUME NEW t \in Attempts, NEW n \in Code PROVE GuessOK(t, n)'
  <2>1. GuessOK(t, n)
    BY DEF SignInInv
  <2>2. Checking(t, n)' = Checking(t, n)
    BY <1>6 DEF Checking, Stays, Callback
  <2> QED
    BY <1>3, <2>1, <2>2 DEF GuessOK, TicketsStay
<1> QED
  BY <1>5, <1>7, <1>8, <1>9, <1>10 DEF SignInInv

\* store_pending_identity: the ticket is a new one.
LEMMA ParkStep ==
  ASSUME SignInInv, NEW h \in Handlers, Park(h)
  PROVE  SignInInv'
<1> DEFINE s == doing[h]
<1>0. TicketTypeOK /\ HandlerTypeOK /\ LinkedIsProved /\ HandlerOK(h)
  BY DEF SignInInv
<1>1. s \in Attempts /\ who[h] \in Identities /\ ticket[s] = "none" /\ state[s] = "gone" /\ Parking(h)
  BY <1>0 DEF Park, HandlerOK, Parking
<1>2. /\ UNCHANGED <<linked, state, mailTo, code, attempts, sends, mailed, guessed, burned, proofs>>
      /\ Finish(h)
      /\ ticket' = [ticket EXCEPT ![s] = "alive"] /\ holder' = [holder EXCEPT ![s] = who[h]]
  BY DEF Park, accounts, record
<1>3. /\ HandlerTypeOK' /\ \A g \in Handlers \ {h} : Stays(g)
      /\ at'[h] = "idle" /\ HandlerOK(h)' /\ ~Parking(h)' /\ ~HasCode(h)'
  BY <1>0, <1>2, FinishProps
<1>4. /\ ticket' \in [Attempts -> {"none", "alive", "lapsed", "gone"}] /\ ticket'[s] = "alive"
      /\ \A t \in Attempts \ {s} : ticket'[t] = ticket[t]
      /\ holder' \in [Attempts -> Identities \union {Nobody}] /\ holder'[s] \in Identities
      /\ \A t \in Attempts \ {s} : holder'[t] = holder[t]
  BY <1>0, <1>1, <1>2 DEF TicketTypeOK
<1>5. TicketTypeOK' /\ LinkedIsProved'
  BY <1>0, <1>2, <1>4 DEF TicketTypeOK, LinkedIsProved
<1>6. ASSUME NEW g \in Handlers, g # h
      PROVE  /\ HandlerOK(g)' /\ Stays(g) /\ (Parking(g)' => Parking(g)) /\ (HasCode(g)' => HasCode(g))
  <2>1. HandlerOK(g) /\ Stays(g) /\ PairOK(g, h)
    BY <1>3, <1>6 DEF SignInInv
  <2>2. Parking(g)' => Parking(g) /\ doing[g] # s
    BY <1>1, <2>1 DEF Parking, Stays, PairOK
  <2>3. AtTicket(g) => doing[g] \in Attempts \ {s}
    BY <1>1, <2>1 DEF HandlerOK
  <2>4. AtTicket(g) => (Live(doing[g])' <=> Live(doing[g])) /\ ticket'[doing[g]] = ticket[doing[g]]
    BY <1>4, <2>1, <2>3 DEF Live, Stays
  <2>5. HasCode(g)' <=> HasCode(g)
    BY <2>1, <2>4 DEF HasCode, AtTicket, Stays
  <2>6. HandlerOK(g)'
    BY <1>2, <1>4, <2>1, <2>2, <2>3, <2>4, <2>5 DEF HandlerOK, Stays, AtTicket, Parking, Proving
  <2> QED
    BY <2>1, <2>2, <2>5, <2>6
<1>7. ASSUME NEW f \in Handlers, NEW g \in Handlers, f # g PROVE PairOK(f, g)'
  <2>1. PairOK(f, g)
    BY <1>7 DEF SignInInv
  <2> QED
    BY <1>3, <1>6, <2>1 DEF PairOK, Stays
<1>8. ASSUME NEW t \in Attempts PROVE TicketOK(t)'
  <2>1. TicketOK(t)
    BY DEF SignInInv
  <2>2. CASE t = s
    BY <1>1, <1>2, <1>4, <2>1, <2>2 DEF TicketOK, Live
  <2>3. CASE t # s
    BY <1>2, <1>4, <2>1, <2>3 DEF TicketOK, Live
  <2> QED
    BY <2>2, <2>3
<1>9. ASSUME NEW t \in Attempts, NEW n \in Code PROVE GuessOK(t, n)'
  <2>1. GuessOK(t, n)
    BY DEF SignInInv
  <2>2. Checking(t, n)' = Checking(t, n)
    BY <1>3 DEF Checking, Stays, Park
  <2>3. ticket'[t] # "gone" => ticket[t] # "gone"
    BY <1>1, <1>4
  <2> QED
    BY <1>2, <2>1, <2>2, <2>3 DEF GuessOK
<1> QED
  BY <1>3, <1>5, <1>6, <1>7, <1>8, <1>9 DEF SignInInv

\* post_oauth_complete stores an address and a code that no one has seen before.
LEMMA SendStep ==
  ASSUME SignInInv, NEW h \in Handlers, SendCode(h)
  PROVE  SignInInv'
<1> DEFINE s == doing[h]
           n == sends[s] + 1
<1>0. TicketTypeOK /\ HandlerTypeOK /\ LinkedIsProved /\ HandlerOK(h) /\ at[h] = "send"
  BY DEF SignInInv, SendCode
<1>1. s \in Attempts /\ email[h] \in Emails /\ TicketOK(s)
  BY <1>0 DEF SignInInv, HandlerOK, AtTicket
<1>2. CASE ~(ticket[s] \in {"alive", "lapsed"} /\ WithinCap(s))
  <2>1. Finish(h) /\ TicketsStay /\ UNCHANGED <<state, linked, proofs>>
    BY <1>2 DEF SendCode, accounts, parked, record, TicketsStay
  <2> QED
    BY <2>1, FinishStep
<1>3. CASE ticket[s] \in {"alive", "lapsed"} /\ WithinCap(s)
  <2>1. /\ UNCHANGED <<linked, state, ticket, holder, mailed, guessed, burned, proofs, doing, who, email,
                       given>>
        /\ sends' = [sends EXCEPT ![s] = @ + 1] /\ mailTo' = [mailTo EXCEPT ![s] = email[h]]
        /\ code' = [code EXCEPT ![s] = n] /\ attempts' = [attempts EXCEPT ![s] = 0]
        /\ expected' = [expected EXCEPT ![h] = n] /\ at' = [at EXCEPT ![h] = "mail"]
    BY <1>3 DEF SendCode, accounts, record, Move
  <2>2. n \in Code /\ sends[s] \in Nat /\ n \in 0..MaxCodeSends /\ n # 0 /\ n > sends[s] /\ Live(s)
    BY <1>0, <1>1, <1>3, SignInAssumption DEF WithinCap, Code, TicketTypeOK, Live
  <2>3. /\ sends'[s] = n /\ mailTo'[s] = email[h] /\ code'[s] = n /\ attempts'[s] = 0
        /\ \A t \in Attempts \ {s} : /\ sends'[t] = sends[t] /\ mailTo'[t] = mailTo[t]
                                     /\ code'[t] = code[t] /\ attempts'[t] = attempts[t]
    BY <1>0, <1>1, <2>1 DEF TicketTypeOK
  <2>4. TicketTypeOK'
    <3>1. /\ sends' \in [Attempts -> 0..MaxCodeSends] /\ code' \in [Attempts -> 0..MaxCodeSends]
          /\ mailTo' \in [Attempts -> Emails \union {Nobody}]
          /\ attempts' \in [Attempts -> 0..MaxVerificationAttempts]
      BY <1>0, <1>1, <2>1, <2>2, SignInAssumption DEF TicketTypeOK
    <3> QED
      BY <1>0, <2>1, <3>1 DEF TicketTypeOK
  <2>5. HandlerTypeOK' /\ LinkedIsProved'
    BY <1>0, <2>1, <2>2 DEF HandlerTypeOK, SignInPlaces, LinkedIsProved
  <2>6. at'[h] = "mail" /\ expected'[h] = n /\ \A g \in Handlers \ {h} : Stays(g)
    BY <1>0, <2>1 DEF HandlerTypeOK, Stays
  <2>7. mailed[s][n] = Nobody
    <3>1. mailed[s][n] # Nobody => n <= sends[s]
      BY <1>1, <2>2 DEF TicketOK
    <3> QED
      BY <2>2, <3>1
  <2>8. HandlerOK(h)'
    BY <1>0, <1>1, <2>1, <2>2, <2>3, <2>6, <2>7 DEF HandlerOK, AtTicket, Parking, Proving, HasCode, Live
  <2>9. ASSUME NEW g \in Handlers, g # h
        PROVE  /\ HandlerOK(g)' /\ Stays(g) /\ (Parking(g)' <=> Parking(g)) /\ (HasCode(g)' <=> HasCode(g))
               /\ HasCode(g) /\ doing[g] = s => expected[g] # n
    <3>1. HandlerOK(g) /\ Stays(g)
      BY <2>6, <2>9 DEF SignInInv
    <3>2. (HasCode(g)' <=> HasCode(g)) /\ (Parking(g)' <=> Parking(g)) /\ (AtTicket(g)' <=> AtTicket(g))
          /\ (Proving(g)' <=> Proving(g)) /\ (Live(doing[g])' <=> Live(doing[g]))
      BY <2>1, <3>1 DEF Stays, HasCode, Parking, AtTicket, Proving, Live
    <3>3. HasCode(g) /\ doing[g] = s => expected[g] # n /\ expected[g] <= n
      <4>1. expected[g] \in 0..MaxCodeSends /\ (HasCode(g) /\ doing[g] = s => expected[g] <= sends[s])
        BY <1>0, <3>1 DEF HandlerTypeOK, HandlerOK
      <4> QED
        BY <2>2, <4>1, SignInAssumption
    <3>4. HasCode(g) => /\ email[g] \in Emails /\ expected[g] <= sends'[doing[g]]
                        /\ code'[doing[g]] = expected[g] => mailTo'[doing[g]] = email[g]
                        /\ mailed[doing[g]][expected[g]] \in {Nobody, email[g]}
      <4>1. HasCode(g) => doing[g] \in Attempts
        BY <3>1 DEF HandlerOK, HasCode, AtTicket
      <4>2. CASE doing[g] = s
        BY <2>3, <3>1, <3>3, <4>2 DEF HandlerOK
      <4>3. CASE doing[g] # s
        BY <2>3, <3>1, <4>1, <4>3 DEF HandlerOK
      <4> QED
        BY <4>2, <4>3
    <3>5. HandlerOK(g)'
      BY <2>1, <3>1, <3>2, <3>4 DEF HandlerOK, Stays
    <3> QED
      BY <3>1, <3>2, <3>3, <3>5
  <2>10. ASSUME NEW f \in Handlers, NEW g \in Handlers, f # g PROVE PairOK(f, g)'
    <3>1. PairOK(f, g)
      BY <2>10 DEF SignInInv
    <3>2. ~Parking(h)'
      BY <2>6 DEF Parking
    <3>3. CASE f # h /\ g # h
      BY <2>9, <3>1, <3>3 DEF PairOK, Stays
    <3>4. CASE f = h
      BY <2>1, <2>6, <2>9, <2>10, <3>2, <3>4 DEF PairOK, Stays
    <3>5. CASE g = h
      BY <2>1, <2>6, <2>9, <2>10, <3>2, <3>5 DEF PairOK, Stays
    <3> QED
      BY <3>3, <3>4, <3>5
  <2>11. ASSUME NEW t \in Attempts PROVE TicketOK(t)'
    <3>1. TicketOK(t)
      BY DEF SignInInv
    <3>2. CASE t # s
      BY <2>1, <2>3, <3>1, <3>2 DEF TicketOK, Live
    <3>3. CASE t = s
      <4>1. \A m \in Code : mailed[s][m] # Nobody => m <= sends[s] /\ m <= n /\ m # n
        BY <1>1, <2>2, <2>7, SignInAssumption DEF TicketOK, Code
      <4>2. n <= n
        BY <2>2
      <4> QED
        BY <1>1, <2>1, <2>2, <2>3, <3>3, <4>1, <4>2 DEF TicketOK, Live
    <3> QED
      BY <3>2, <3>3
  <2>12. ASSUME NEW t \in Attempts, NEW m \in Code PROVE GuessOK(t, m)'
    <3>1. GuessOK(t, m) /\ guessed[t][m] \in Nat
      BY <1>0 DEF SignInInv, TicketTypeOK
    <3>2. Checking(t, m)' = Checking(t, m)
      BY <1>0, <2>6 DEF Checking, Stays
    <3>3. CASE t # s
      BY <2>1, <2>3, <3>1, <3>2, <3>3 DEF GuessOK
    <3>4. CASE t = s /\ m # n
      <4>1. m > n => m > sends[s]
        BY <2>2, SignInAssumption DEF Code
      <4> QED
        BY <2>1, <2>3, <3>1, <3>2, <3>4, <4>1 DEF GuessOK
    <3>5. CASE t = s /\ m = n
      <4>1. guessed[s][n] + Cardinality(Checking(s, n)) = 0
        BY <2>2, <3>1, <3>5 DEF GuessOK, Live
      <4> QED
        BY <2>1, <2>2, <2>3, <3>2, <3>5, <4>1, SignInAssumption DEF GuessOK
    <3> QED
      BY <3>3, <3>4, <3>5
  <2> QED
    BY <2>4, <2>5, <2>8, <2>9, <2>10, <2>11, <2>12 DEF SignInInv
<1> QED
  BY <1>2, <1>3

\* The code is mailed to the address that it was stored with, unless the ticket is gone.
LEMMA MailStep ==
  ASSUME SignInInv, NEW h \in Handlers, Mail(h)
  PROVE  SignInInv'
<1> DEFINE s == doing[h]
           n == expected[h]
<1>0. TicketTypeOK /\ HandlerTypeOK /\ LinkedIsProved /\ HandlerOK(h) /\ at[h] = "mail"
  BY DEF SignInInv, Mail
<1>1. /\ s \in Attempts /\ ticket[s] # "none" /\ n # 0 /\ n \in Code /\ email[h] \in Emails
      /\ email[h] # Nobody
  BY <1>0, SignInAssumption DEF HandlerOK, AtTicket, HandlerTypeOK, Code
<1>2. CASE ticket[s] = "gone"
  <2>1. Finish(h) /\ TicketsStay /\ UNCHANGED <<state, linked, proofs>>
    BY <1>2 DEF Mail, accounts, parked, TicketsStay
  <2> QED
    BY <2>1, FinishStep
<1>3. CASE ticket[s] # "gone"
  <2>1. Live(s) /\ HasCode(h)
    BY <1>0, <1>1, <1>3 DEF TicketTypeOK, Live, HasCode
  <2>2. /\ UNCHANGED <<linked, state, ticket, holder, mailTo, code, attempts, sends, guessed, burned, proofs>>
        /\ mailed' = [mailed EXCEPT ![s][n] = email[h]] /\ Finish(h)
    BY <1>3 DEF Mail, accounts, parked
  <2>3. /\ HandlerTypeOK' /\ \A g \in Handlers \ {h} : Stays(g)
        /\ at'[h] = "idle" /\ HandlerOK(h)' /\ ~Parking(h)' /\ ~HasCode(h)'
    BY <1>0, <2>2, FinishProps
  <2>4. /\ mailed' \in [Attempts -> [Code -> Emails \union {Nobody}]]
        /\ mailed'[s][n] = email[h]
        /\ \A t \in Attempts, m \in Code : t # s \/ m # n => mailed'[t][m] = mailed[t][m]
    BY <1>0, <1>1, <2>2 DEF TicketTypeOK
  <2>5. TicketTypeOK' /\ LinkedIsProved'
    BY <1>0, <2>2, <2>4 DEF TicketTypeOK, LinkedIsProved
  <2>6. ASSUME NEW g \in Handlers, g # h
        PROVE  /\ HandlerOK(g)' /\ Stays(g) /\ (Parking(g)' <=> Parking(g)) /\ (HasCode(g)' <=> HasCode(g))
    <3>1. HandlerOK(g) /\ Stays(g) /\ PairOK(g, h)
      BY <2>3, <2>6 DEF SignInInv
    <3>2. (HasCode(g)' <=> HasCode(g)) /\ (Parking(g)' <=> Parking(g)) /\ (AtTicket(g)' <=> AtTicket(g))
          /\ (Proving(g)' <=> Proving(g)) /\ (Live(doing[g])' <=> Live(doing[g]))
      BY <2>2, <3>1 DEF Stays, HasCode, Parking, AtTicket, Proving, Live
    <3>3. /\ AtTicket(g) => doing[g] \in Attempts
          /\ given[g] # 0 => given[g] \in Code
          /\ expected[g] # 0 => expected[g] \in Code
      BY <1>0, <3>1, SignInAssumption DEF HandlerOK, HandlerTypeOK, Code
    <3>4. AtTicket(g) /\ given[g] # 0 /\ mailed[doing[g]][given[g]] # Nobody
            => mailed'[doing[g]][given[g]] # Nobody
      BY <1>1, <2>4, <3>3
    <3>5. HasCode(g) => mailed'[doing[g]][expected[g]] \in {Nobody, email[g]}
      <4>1. HasCode(g) => /\ AtTicket(g) /\ expected[g] # 0
                          /\ mailed[doing[g]][expected[g]] \in {Nobody, email[g]}
        BY <3>1 DEF HandlerOK, HasCode, AtTicket
      <4>2. HasCode(g) /\ doing[g] = s /\ expected[g] = n => email[g] = email[h]
        BY <2>1, <3>1 DEF PairOK
      <4> QED
        BY <2>4, <3>3, <4>1, <4>2
    <3>6. HandlerOK(g)'
      BY <2>2, <3>1, <3>2, <3>4, <3>5 DEF HandlerOK, Stays, AtTicket
    <3> QED
      BY <3>1, <3>2, <3>6
  <2>7. ASSUME NEW f \in Handlers, NEW g \in Handlers, f # g PROVE PairOK(f, g)'
    <3>1. PairOK(f, g)
      BY <2>7 DEF SignInInv
    <3> QED
      BY <2>3, <2>6, <3>1 DEF PairOK, Stays
  <2>8. ASSUME NEW t \in Attempts PROVE TicketOK(t)'
    <3>1. TicketOK(t)
      BY DEF SignInInv
    <3>2. CASE t # s
      BY <2>2, <2>4, <3>1, <3>2 DEF TicketOK, Live
    <3>3. CASE t = s
      <4>1. n <= sends[s] /\ (code[s] = n => mailTo[s] = email[h])
        BY <1>0, <2>1 DEF HandlerOK
      <4>2. \A m \in Code : mailed'[s][m] # Nobody =>
                m <= sends[s] /\ (code[s] = m => mailed'[s][m] = mailTo[s])
        BY <1>1, <2>1, <2>4, <3>1, <3>3, <4>1 DEF TicketOK
      <4> QED
        BY <2>1, <2>2, <3>1, <3>3, <4>2 DEF TicketOK, Live
    <3> QED
      BY <3>2, <3>3
  <2>9. ASSUME NEW t \in Attempts, NEW m \in Code PROVE GuessOK(t, m)'
    <3>1. GuessOK(t, m)
      BY DEF SignInInv
    <3>2. Checking(t, m)' = Checking(t, m)
      BY <1>0, <2>3 DEF Checking, Stays
    <3> QED
      BY <2>2, <3>1, <3>2 DEF GuessOK
  <2> QED
    BY <2>3, <2>5, <2>6, <2>7, <2>8, <2>9 DEF SignInInv
<1> QED
  BY <1>2, <1>3

\* post_oauth_verify claims an attempt: the guess on its way is counted before it is made.
LEMMA ClaimStep ==
  ASSUME SignInInv, NEW h \in Handlers, NEW s \in Attempts, NEW k \in 0..MaxCodeSends, Verify(h, s, k),
         Claimable(s)
  PROVE  SignInInv'
<1> DEFINE n == code[s]
<1>0. TicketTypeOK /\ HandlerTypeOK /\ LinkedIsProved /\ at[h] = "idle" /\ TicketOK(s)
  BY DEF SignInInv, Verify
<1>1. /\ Live(s) /\ ticket[s] # "none" /\ attempts[s] \in Nat /\ attempts[s] < MaxVerificationAttempts
      /\ n \in 0..MaxCodeSends /\ n <= sends[s] /\ holder[s] \in Identities
      /\ n # 0 => mailTo[s] \in Emails
      /\ \A m \in Code : mailed[s][m] # Nobody =>
             m <= sends[s] /\ (n = m => mailed[s][m] = mailTo[s])
  BY <1>0 DEF Claimable, Live, TicketOK, TicketTypeOK
<1>2. /\ UNCHANGED <<linked, state, ticket, holder, mailTo, code, sends, mailed, guessed, burned, proofs>>
      /\ attempts' = [attempts EXCEPT ![s] = @ + 1]
      /\ doing' = [doing EXCEPT ![h] = s]
      /\ who' = [who EXCEPT ![h] = holder[s]]
      /\ email' = [email EXCEPT ![h] = mailTo[s]]
      /\ expected' = [expected EXCEPT ![h] = n]
      /\ given' = [given EXCEPT ![h] = k]
      /\ at' = [at EXCEPT ![h] = "check"]
  BY DEF Verify, Move, accounts, record
<1>3. /\ attempts' \in [Attempts -> 0..MaxVerificationAttempts] /\ attempts'[s] = attempts[s] + 1
      /\ \A t \in Attempts \ {s} : attempts'[t] = attempts[t]
  BY <1>0, <1>1, <1>2, SignInAssumption DEF TicketTypeOK
<1>4. TicketTypeOK' /\ LinkedIsProved'
  BY <1>0, <1>2, <1>3 DEF TicketTypeOK, LinkedIsProved
<1>5. HandlerTypeOK'
  <2>1. mailTo[s] \in Emails \union {Nobody} /\ holder[s] \in Identities \union {Nobody}
    BY <1>0 DEF TicketTypeOK
  <2> QED
    BY <1>0, <1>1, <1>2, <2>1 DEF HandlerTypeOK, SignInPlaces
<1>6. /\ at'[h] = "check" /\ doing'[h] = s /\ who'[h] = holder[s] /\ email'[h] = mailTo[s]
      /\ expected'[h] = n /\ given'[h] = k /\ \A g \in Handlers \ {h} : Stays(g)
  BY <1>0, <1>2 DEF HandlerTypeOK, Stays
<1>7. HandlerOK(h)'
  <2>1. k # 0 => mailed[s][k] # Nobody
    BY DEF Verify, Enterable
  <2>2. n # 0 => n \in Code
    BY <1>1, SignInAssumption DEF Code
  <2>3. n # 0 => mailed[s][n] \in {Nobody, mailTo[s]}
    BY <1>1, <2>2
  <2> QED
    BY <1>1, <1>2, <1>6, <2>1, <2>3 DEF HandlerOK, AtTicket, Parking, Proving, HasCode, Live
<1>8. ASSUME NEW g \in Handlers, g # h
      PROVE  /\ HandlerOK(g)' /\ Stays(g) /\ (Parking(g)' <=> Parking(g)) /\ (HasCode(g)' <=> HasCode(g))
             /\ HasCode(g) /\ doing[g] = s /\ expected[g] = n => email[g] = mailTo[s]
  <2>1. HandlerOK(g) /\ Stays(g)
    BY <1>6, <1>8 DEF SignInInv
  <2>2. (HasCode(g)' <=> HasCode(g)) /\ (Parking(g)' <=> Parking(g)) /\ (AtTicket(g)' <=> AtTicket(g))
        /\ (Proving(g)' <=> Proving(g)) /\ (Live(doing[g])' <=> Live(doing[g]))
    BY <1>2, <2>1 DEF Stays, HasCode, Parking, AtTicket, Proving, Live
  <2>3. HandlerOK(g)'
    BY <1>2, <2>1, <2>2 DEF HandlerOK, Stays
  <2>4. HasCode(g) /\ doing[g] = s /\ expected[g] = n => email[g] = mailTo[s]
    BY <2>1 DEF HandlerOK
  <2> QED
    BY <2>1, <2>2, <2>3, <2>4
<1>9. ASSUME NEW f \in Handlers, NEW g \in Handlers, f # g PROVE PairOK(f, g)'
  <2>1. PairOK(f, g) /\ ~Parking(h)'
    BY <1>6, <1>9 DEF SignInInv, Parking
  <2>2. CASE f # h /\ g # h
    BY <1>8, <2>1, <2>2 DEF PairOK, Stays
  <2>3. CASE f = h
    BY <1>6, <1>8, <1>9, <2>1, <2>3 DEF PairOK, Stays
  <2>4. CASE g = h
    BY <1>6, <1>8, <1>9, <2>1, <2>4 DEF PairOK, Stays
  <2> QED
    BY <2>2, <2>3, <2>4
<1>10. ASSUME NEW t \in Attempts PROVE TicketOK(t)'
  <2>1. TicketOK(t)
    BY DEF SignInInv
  <2> QED
    BY <1>2, <2>1 DEF TicketOK, Live
<1>11. ASSUME NEW t \in Attempts, NEW m \in Code PROVE GuessOK(t, m)'
  <2>1. GuessOK(t, m) /\ guessed[t][m] \in Nat
    BY <1>0 DEF SignInInv, TicketTypeOK
  <2>2. CASE t # s \/ m # n
    <3>1. Checking(t, m)' = Checking(t, m)
      BY <1>0, <1>6, <2>2 DEF Checking, Stays
    <3>2. t = s => attempts'[t] = attempts[t] + 1
      BY <1>3
    <3>3. t # s => attempts'[t] = attempts[t]
      BY <1>3
    <3> QED
      BY <1>2, <2>1, <2>2, <3>1, <3>2, <3>3 DEF GuessOK
  <2>3. CASE t = s /\ m = n
    <3>1. Checking(t, m)' = Checking(t, m) \union {h} /\ h \notin Checking(t, m)
      BY <1>0, <1>6, <2>3 DEF Checking, Stays
    <3>2. IsFiniteSet(Checking(t, m))
      <4>1. Checking(t, m) \in SUBSET Handlers
        BY DEF Checking
      <4> QED
        BY <4>1, SignInAssumption, FS_Subset
    <3>3. /\ Cardinality(Checking(t, m))' = Cardinality(Checking(t, m)) + 1
          /\ Cardinality(Checking(t, m)) \in Nat
      <4>1. Cardinality(Checking(t, m) \union {h}) = Cardinality(Checking(t, m)) + 1
        BY <3>1, <3>2, FS_AddElement
      <4>2. Cardinality(Checking(t, m)) \in Nat
        BY <3>2, FS_CardinalityType
      <4> QED
        BY <3>1, <4>1, <4>2
    <3>4. guessed[t][m] + Cardinality(Checking(t, m)) <= attempts[t]
      BY <2>1, <2>3 DEF GuessOK
    <3>5. sends[s] \in Nat /\ m \in Nat /\ ~(m > sends[s])
      BY <1>0, <1>1, <2>3, SignInAssumption DEF TicketTypeOK, Code
    <3>6. guessed[t][m] + (Cardinality(Checking(t, m)) + 1) <= attempts[t] + 1
          /\ attempts[t] + 1 <= MaxVerificationAttempts
          /\ guessed[t][m] + (Cardinality(Checking(t, m)) + 1) <= MaxVerificationAttempts
      BY <1>1, <2>1, <2>3, <3>3, <3>4, SignInAssumption
    <3>7. attempts'[t] = attempts[t] + 1 /\ guessed'[t][m] = guessed[t][m] /\ sends'[t] = sends[s]
      BY <1>2, <1>3, <2>3
    <3> QED
      BY <2>3, <3>3, <3>5, <3>6, <3>7 DEF GuessOK
  <2> QED
    BY <2>2, <2>3
<1> QED
  BY <1>4, <1>5, <1>7, <1>8, <1>9, <1>10, <1>11 DEF SignInInv

\* A guess is compared: a wrong one moves from those on their way to those made.
LEMMA CheckStep ==
  ASSUME SignInInv, NEW h \in Handlers, Check(h)
  PROVE  SignInInv'
<1> DEFINE s == doing[h]
           n == expected[h]
<1>0. TicketTypeOK /\ HandlerTypeOK /\ LinkedIsProved /\ HandlerOK(h) /\ at[h] = "check"
  BY DEF SignInInv, Check
<1>1. UNCHANGED <<linked, state, ticket, holder, mailTo, code, attempts, sends, mailed, burned, proofs>>
  BY DEF Check, accounts, parked
<1>2. CASE n # 0 /\ given[h] = n
  <2>1. Move(h, "burn") /\ UNCHANGED local /\ UNCHANGED guessed
    BY <1>2 DEF Check
  <2> QED
    BY <1>0, <1>1, <1>2, <2>1, MoveStep DEF TicketsStay, SignInPlaces
<1>3. CASE n = 0
  <2>1. Finish(h) /\ UNCHANGED guessed
    BY <1>3 DEF Check
  <2> QED
    BY <1>1, <2>1, FinishStep DEF TicketsStay
<1>4. CASE n # 0 /\ given[h] # n
  <2>1. Finish(h) /\ guessed' = [guessed EXCEPT ![s][n] = @ + 1]
    BY <1>4 DEF Check
  <2>2. s \in Attempts /\ n \in Code
    BY <1>0, <1>4, SignInAssumption DEF HandlerOK, AtTicket, HandlerTypeOK, Code
  <2>3. /\ guessed' \in [Attempts -> [Code -> Nat]] /\ guessed'[s][n] = guessed[s][n] + 1
        /\ \A t \in Attempts, m \in Code : t # s \/ m # n => guessed'[t][m] = guessed[t][m]
    BY <1>0, <2>1, <2>2 DEF TicketTypeOK
  <2>4. TicketTypeOK' /\ LinkedIsProved'
    BY <1>0, <1>1, <2>3 DEF TicketTypeOK, LinkedIsProved
  <2>5. /\ HandlerTypeOK' /\ \A g \in Handlers \ {h} : Stays(g)
        /\ at'[h] = "idle" /\ HandlerOK(h)' /\ ~Parking(h)' /\ ~HasCode(h)'
    BY <1>0, <2>1, FinishProps
  <2>6. ASSUME NEW g \in Handlers, g # h
        PROVE  /\ HandlerOK(g)' /\ Stays(g) /\ (Parking(g)' <=> Parking(g)) /\ (HasCode(g)' <=> HasCode(g))
    <3>1. HandlerOK(g) /\ Stays(g)
      BY <2>5, <2>6 DEF SignInInv
    <3> QED
      BY <1>1, <3>1 DEF HandlerOK, Stays, HasCode, Parking, AtTicket, Proving, Live
  <2>7. ASSUME NEW f \in Handlers, NEW g \in Handlers, f # g PROVE PairOK(f, g)'
    <3>1. PairOK(f, g)
      BY <2>7 DEF SignInInv
    <3> QED
      BY <2>5, <2>6, <3>1 DEF PairOK, Stays
  <2>8. ASSUME NEW t \in Attempts PROVE TicketOK(t)'
    <3>1. TicketOK(t)
      BY DEF SignInInv
    <3> QED
      BY <1>1, <3>1 DEF TicketOK, Live
  <2>9. ASSUME NEW t \in Attempts, NEW m \in Code PROVE GuessOK(t, m)'
    <3>1. GuessOK(t, m) /\ guessed[t][m] \in Nat
      BY <1>0 DEF SignInInv, TicketTypeOK
    <3>2. CASE t # s \/ m # n
      <4>1. Checking(t, m)' = Checking(t, m)
        BY <1>0, <2>5, <3>2 DEF Checking, Stays
      <4> QED
        BY <1>1, <2>3, <3>1, <3>2, <4>1 DEF GuessOK
    <3>3. CASE t = s /\ m = n
      <4>1. Checking(t, m)' = Checking(t, m) \ {h} /\ h \in Checking(t, m)
        BY <1>0, <2>5, <3>3 DEF Checking, Stays
      <4>2. IsFiniteSet(Checking(t, m))
        <5>1. Checking(t, m) \in SUBSET Handlers
          BY DEF Checking
        <5> QED
          BY <5>1, SignInAssumption, FS_Subset
      <4>3. /\ Cardinality(Checking(t, m))' = Cardinality(Checking(t, m)) - 1
            /\ Cardinality(Checking(t, m)) \in Nat
        <5>1. Cardinality(Checking(t, m) \ {h}) = Cardinality(Checking(t, m)) - 1
          BY <4>1, <4>2, FS_RemoveElement
        <5>2. Cardinality(Checking(t, m)) \in Nat
          BY <4>2, FS_CardinalityType
        <5> QED
          BY <4>1, <5>1, <5>2
      <4>4. guessed'[t][m] + (Cardinality(Checking(t, m)) - 1) = guessed[t][m] + Cardinality(Checking(t, m))
        BY <2>3, <3>1, <3>3, <4>3
      <4> QED
        BY <1>1, <3>1, <4>3, <4>4 DEF GuessOK
    <3> QED
      BY <3>2, <3>3
  <2> QED
    BY <2>4, <2>5, <2>6, <2>7, <2>8, <2>9 DEF SignInInv
<1> QED
  BY <1>2, <1>3, <1>4

\* At the start there is no attempt, and what is linked counts as proved.
LEMMA SignInStart == SignInInit => SignInInv
<1> SUFFICES ASSUME SignInInit PROVE SignInInv
  OBVIOUS
<1>1. HandlerTypeOK
  BY SignInAssumption DEF SignInInit, HandlerTypeOK, SignInPlaces
<1>2. TicketTypeOK
  BY SignInAssumption DEF SignInInit, TicketTypeOK
<1>3. LinkedIsProved
  <2> SUFFICES ASSUME NEW e \in Emails, NEW i \in linked[e] PROVE <<i, e>> \in proofs
    BY DEF LinkedIsProved
  <2>1. i \in FromBefore[e] /\ i \in Identities
    BY SignInAssumption DEF SignInInit
  <2> QED
    BY <2>1 DEF SignInInit
<1>4. ASSUME NEW h \in Handlers PROVE at[h] = "idle"
  BY DEF SignInInit
<1>5. \A h \in Handlers : HandlerOK(h)
  BY <1>4 DEF HandlerOK, AtTicket, Parking, Proving, HasCode
<1>6. \A g, h \in Handlers : g # h => PairOK(g, h)
  BY <1>4 DEF PairOK, Parking, HasCode
<1>7. \A s \in Attempts : TicketOK(s)
  BY DEF SignInInit, TicketOK, Live
<1>8. ASSUME NEW s \in Attempts, NEW n \in Code PROVE GuessOK(s, n)
  <2>1. Checking(s, n) = {}
    BY <1>4 DEF Checking
  <2>2. Cardinality(Checking(s, n)) = 0
    BY <2>1, FS_EmptySet
  <2>3. guessed[s][n] = 0 /\ attempts[s] = 0
    BY DEF SignInInit
  <2> QED
    BY <2>2, <2>3, SignInAssumption DEF GuessOK
<1> QED
  BY <1>1, <1>2, <1>3, <1>5, <1>6, <1>7, <1>8 DEF SignInInv

\* Every step of sign-in keeps SignInInv.
LEMMA SignInStep == SignInInv /\ [SignInNext]_signInVars => SignInInv'
<1> SUFFICES ASSUME SignInInv, [SignInNext]_signInVars PROVE SignInInv'
  OBVIOUS
<1>1. CASE UNCHANGED signInVars
  <2>1. TicketsStay /\ UNCHANGED <<state, linked, proofs, at, doing, who, email, given, expected>>
    BY <1>1 DEF signInVars, accounts, parked, local, record, TicketsStay
  <2>2. HandlerTypeOK' /\ TicketTypeOK' /\ LinkedIsProved'
    BY <2>1 DEF SignInInv, HandlerTypeOK, TicketTypeOK, LinkedIsProved, TicketsStay
  <2>3. ASSUME NEW h \in Handlers PROVE HandlerOK(h)'
    <3>1. HandlerOK(h)
      BY DEF SignInInv
    <3> QED
      BY <2>1, <3>1 DEF HandlerOK, AtTicket, Parking, Proving, HasCode, Live, TicketsStay
  <2>4. ASSUME NEW g \in Handlers, NEW h \in Handlers, g # h PROVE PairOK(g, h)'
    <3>1. PairOK(g, h)
      BY <2>4 DEF SignInInv
    <3> QED
      BY <2>1, <3>1 DEF PairOK, Parking, HasCode, Live, TicketsStay
  <2>5. ASSUME NEW s \in Attempts PROVE TicketOK(s)'
    <3>1. TicketOK(s)
      BY DEF SignInInv
    <3> QED
      BY <2>1, <3>1 DEF TicketOK, Live, TicketsStay
  <2>6. ASSUME NEW s \in Attempts, NEW n \in Code PROVE GuessOK(s, n)'
    <3>1. GuessOK(s, n) /\ Checking(s, n)' = Checking(s, n)
      BY <2>1 DEF SignInInv, Checking
    <3> QED
      BY <2>1, <3>1 DEF GuessOK, TicketsStay
  <2> QED
    BY <2>2, <2>3, <2>4, <2>5, <2>6 DEF SignInInv
<1>2. ASSUME NEW h \in Handlers, Handle(h) PROVE SignInInv'
  BY <1>2, ResolveSteps, LinkSteps, ParkStep, SendStep, MailStep, CheckStep, DeletingSteps DEF Handle
<1>3. ASSUME NEW h \in Handlers, Receive(h) PROVE SignInInv'
  <2>1. ASSUME NEW s \in Attempts, Callback(h, s) PROVE SignInInv'
    <3>1. state[s] = "pending" \/ state[s] = "lapsed"
      BY <2>1 DEF Callback
    <3> QED
      BY <2>1, <3>1, CallbackStep, TimeSteps
  <2>2. ASSUME NEW s \in Attempts, NEW n \in 0..MaxCodeSends, Verify(h, s, n) PROVE SignInInv'
    <3>1. at[h] = "idle"
      BY <2>2 DEF Verify
    <3>2. CASE Claimable(s)
      BY <2>2, <3>2, ClaimStep
    <3>3. CASE ~Claimable(s)
      BY <2>2, <3>1, <3>3, ArrivalSteps
    <3> QED
      BY <3>2, <3>3
  <2>3. ASSUME NEW s \in Attempts, NEW e \in Emails, Complete(h, s, e) PROVE SignInInv'
    <3>1. at[h] = "idle"
      BY <2>3 DEF Complete
    <3> QED
      BY <2>3, <3>1, ArrivalSteps
  <2>4. ASSUME NEW e \in Emails, SignUp(h, e) \/ Activate(h, e) PROVE SignInInv'
    <3>1. at[h] = "idle"
      BY <2>4 DEF SignUp, Activate
    <3> QED
      BY <2>4, <3>1, ArrivalSteps
  <2> QED
    BY <1>3, <2>1, <2>2, <2>3, <2>4 DEF Receive
<1>4. ASSUME NEW s \in Attempts, Passes(s) PROVE SignInInv'
  BY <1>4, TimeSteps, DeletingSteps DEF Passes
<1> QED
  BY <1>1, <1>2, <1>3, <1>4 DEF SignInNext

\* Tickets are stored once, codes belong to one address, and guesses are counted when they
\* are claimed, for all handlers, attempts and limits.
THEOREM SignInInvariant == SignInSpec => []SignInInv
<1> QED
  BY SignInStart, SignInStep, PTL DEF SignInSpec

\* Nobody's identity is linked to an address that was not proved (oauth.rs), whatever is
\* changed between the claim of a guess and the burning of its ticket.
THEOREM LinksAreProved == SignInSpec => []LinkedIsProved
<1>1. SignInInv => LinkedIsProved
  BY DEF SignInInv
<1> QED
  BY <1>1, SignInInvariant, PTL

\* A ticket sends no more codes than MAX_CODE_SENDS, each code is guessed wrong no more often
\* than MAX_VERIFICATION_ATTEMPTS, and one request wins it, whatever the number of handlers.
THEOREM TicketsAreBounded == SignInSpec => []TicketIsBounded
<1>1. SignInInv => TicketIsBounded
  <2> SUFFICES ASSUME SignInInv, NEW s \in Attempts
               PROVE  /\ sends[s] <= MaxCodeSends
                      /\ \A n \in Code : guessed[s][n] <= MaxVerificationAttempts
                      /\ burned[s] <= 1
    BY DEF TicketIsBounded
  <2>1. sends[s] \in 0..MaxCodeSends /\ burned[s] \in {0, 1}
    BY DEF SignInInv, TicketTypeOK
  <2>3. sends[s] <= MaxCodeSends /\ burned[s] <= 1
    BY <2>1, SignInAssumption
  <2>2. ASSUME NEW n \in Code PROVE guessed[s][n] <= MaxVerificationAttempts
    <3>1. GuessOK(s, n) /\ guessed[s][n] \in Nat
      BY DEF SignInInv, TicketTypeOK
    <3>2. Checking(s, n) \in SUBSET Handlers
      BY DEF Checking
    <3>3. Cardinality(Checking(s, n)) \in Nat
      BY <3>2, SignInAssumption, FS_Subset, FS_CardinalityType
    <3> QED
      BY <3>1, <3>3, SignInAssumption DEF GuessOK
  <2> QED
    BY <2>2, <2>3
<1> QED
  BY <1>1, SignInInvariant, PTL

----------------------------------------------------------------------------
(* Filters and their versions.                                             *)

\* The request has read the filter and not written it yet.
AtWork(r) == stage[r] \in {"check", "write"}

\* The types of the filter and of the requests.
TypeInv ==
    /\ filter \in Document \union {Unposted, Deleted}
    /\ stage \in [Editors -> {"idle", "check", "write", "done", "refused"}]
    /\ body \in [Editors -> PatchBody \union VersionBody \union DeleteBody \union {Absent}]
    /\ seen \in [Editors -> Document \union {Unposted, Deleted}]

\* A request at work has read a document, of which the present one is a
\* continuation, and has not added its own version yet.
ReadInv ==
    \A r \in Editors : AtWork(r) =>
        /\ body[r] \in PatchBody \union VersionBody
        /\ seen[r] \in Document /\ seen[r].active_fid \in DOMAIN seen[r].fv
        /\ filter # Unposted
        /\ Stored => \A fid \in DOMAIN seen[r].fv :
                        fid \in DOMAIN filter.fv /\ filter.fv[fid] = seen[r].fv[fid]

\* What is about to be written was checked against what was read.
PassInv ==
    \A r \in Editors : stage[r] = "write" =>
        /\ body[r].kind = "patch" => PatchPasses(body[r], seen[r])
        /\ body[r].kind = "version" => VersionPasses(body[r], seen[r])

\* A version is there only when its request is done, which needs a filter.
OwnInv ==
    /\ Stored => \A r \in Editors : r \in DOMAIN filter.fv => stage[r] = "done"
    /\ filter = Unposted => \A r \in Editors : stage[r] # "done"

\* The inductive invariant of the filters.
FilterIInv == TypeInv /\ ReadInv /\ PassInv /\ OwnInv /\ VersionsStand /\ OnlyRacesEvade

----------------------------------------------------------------------------
\* Any function from version names to pipelines can be the versions.
LEMMA VersionsType ==
  ASSUME NEW fids \in SUBSET Fid, NEW f \in [fids -> Pipelines]
  PROVE  f \in Versions
  BY DEF Versions

\* Initially there is no filter and no request.
LEMMA InitHolds == FilterInit => FilterIInv
  BY FilterAssumption DEF FilterInit, FilterIInv, TypeInv, ReadInv, PassInv, OwnInv, AtWork,
     VersionsStand, OnlyRacesEvade, Stored

\* A new filter has one version, which is the active one.
LEMMA PostHolds ==
  ASSUME FilterIInv, NEW p \in Pipelines, NEW q \in Grants, PostFilter(p, q) \/ AddFilter(p, q)
  PROVE  FilterIInv'
<1>1. filter' \in Document /\ filter'.active_fid = First /\ filter'.permissions = q
        /\ filter'.fv = [fid \in {First} |-> p]
        /\ (filter'.active = FALSE \/ waived' = {<<p, q>>})
  <2>1. {First} \in SUBSET Fid /\ First \in Fid
    BY DEF Fid
  <2>2. [fid \in {First} |-> p] \in Versions
    BY <2>1, VersionsType
  <2>3. ASSUME NEW on \in BOOLEAN
        PROVE  NewFilter(on, p, q) \in Document
    BY <2>1, <2>2 DEF NewFilter, Document
  <2>4. CASE PostFilter(p, q)
    BY <2>3, <2>4 DEF PostFilter, NewFilter
  <2>5. CASE AddFilter(p, q)
    BY <2>3, <2>5 DEF AddFilter, NewFilter
  <2>. QED
    BY <2>4, <2>5
<1>2. Stored' /\ filter = Unposted
  BY <1>1, FilterAssumption DEF Stored, PostFilter, AddFilter
<1>3. \A r \in Editors : ~ AtWork(r)
  BY <1>2 DEF FilterIInv, ReadInv
<1>4. stage' = stage /\ body' = body /\ seen' = seen
  BY DEF PostFilter, AddFilter
<1>5. TypeInv'
  BY <1>1, <1>4 DEF FilterIInv, TypeInv
<1>6. ReadInv' /\ PassInv'
  BY <1>3, <1>4 DEF ReadInv, PassInv, AtWork
<1>7. OwnInv'
  BY <1>1, <1>2, FilterAssumption DEF OwnInv, Stored
<1>8. VersionsStand'
  BY <1>1, <1>2, <1>4 DEF FilterIInv, OwnInv, VersionsStand
<1>9. OnlyRacesEvade'
  BY <1>1 DEF OnlyRacesEvade, Executes, Validates
<1>. QED
  BY <1>5, <1>6, <1>7, <1>8, <1>9 DEF FilterIInv

\* A request that begins has read the document as it is.
LEMMA ReadHolds ==
  ASSUME FilterIInv, NEW r \in Editors, NEW b \in Bodies[r], ReadFilter(r, b)
  PROVE  FilterIInv'
<1>1. b \in PatchBody \union VersionBody
  BY FilterAssumption DEF ReadFilter, DeleteBody
<1>2. /\ filter' = filter /\ waived' = waived /\ overtaken' = overtaken
      /\ stage[r] = "idle" /\ stage'[r] \in {"check", "refused"}
      /\ stage'[r] = "check" => Stored
      /\ body'[r] = b /\ (stage'[r] = "check" => seen'[r] = filter)
      /\ \A s \in Editors \ {r} : stage'[s] = stage[s] /\ body'[s] = body[s] /\ seen'[s] = seen[s]
  BY DEF ReadFilter, Return, FilterIInv, TypeInv
<1>3. TypeInv'
  BY <1>1 DEF ReadFilter, Return, FilterIInv, TypeInv
<1>4. ReadInv'
  <2> SUFFICES ASSUME NEW s \in Editors, AtWork(s)'
               PROVE  /\ body'[s] \in PatchBody \union VersionBody
                      /\ seen'[s] \in Document /\ seen'[s].active_fid \in DOMAIN seen'[s].fv
                      /\ filter' # Unposted
                      /\ Stored' => \A fid \in DOMAIN seen'[s].fv :
                            fid \in DOMAIN filter'.fv /\ filter'.fv[fid] = seen'[s].fv[fid]
    BY DEF ReadInv
  <2>1. CASE s = r
    BY <1>1, <1>2, <2>1 DEF AtWork, Stored, FilterIInv, TypeInv, VersionsStand
  <2>2. CASE s # r
    BY <1>2, <2>2 DEF AtWork, Stored, FilterIInv, ReadInv
  <2>. QED
    BY <2>1, <2>2
<1>5. PassInv'
  BY <1>2 DEF FilterIInv, PassInv
<1>6. OwnInv'
  BY <1>2 DEF FilterIInv, OwnInv, Stored
<1>7. VersionsStand' /\ OnlyRacesEvade'
  BY <1>2 DEF FilterIInv, VersionsStand, OnlyRacesEvade, Stored, Executes, Validates
<1>. QED
  BY <1>3, <1>4, <1>5, <1>6, <1>7 DEF FilterIInv

\* A request that is refused or goes on to write leaves the document alone.
LEMMA CheckHolds ==
  ASSUME FilterIInv, NEW r \in Editors, CheckEdit(r) \/ GiveUp(r)
  PROVE  FilterIInv'
<1>1. /\ filter' = filter /\ body' = body
      /\ waived' = waived /\ overtaken' = overtaken
      /\ AtWork(r) /\ stage'[r] \in {"write", "refused"}
      /\ stage'[r] = "write" => seen'[r] = seen[r]
      /\ \A s \in Editors \ {r} : stage'[s] = stage[s] /\ seen'[s] = seen[s]
  BY DEF CheckEdit, GiveUp, Return, FilterIInv, TypeInv, AtWork
<1>2. TypeInv'
  BY DEF CheckEdit, GiveUp, Return, FilterIInv, TypeInv
<1>3. ReadInv'
  BY <1>1 DEF FilterIInv, ReadInv, AtWork, Stored
<1>4. PassInv'
  <2>1. stage'[r] = "write" => /\ body[r].kind = "patch" => PatchPasses(body[r], seen[r])
                               /\ body[r].kind = "version" => VersionPasses(body[r], seen[r])
    BY DEF CheckEdit, GiveUp, Return, FilterIInv, TypeInv
  <2>. QED
    BY <1>1, <2>1 DEF FilterIInv, PassInv
<1>5. OwnInv'
  BY <1>1 DEF FilterIInv, OwnInv, Stored, AtWork
<1>6. VersionsStand' /\ OnlyRacesEvade'
  BY <1>1 DEF FilterIInv, VersionsStand, OnlyRacesEvade, Stored, Executes, Validates
<1>. QED
  BY <1>2, <1>3, <1>4, <1>5, <1>6 DEF FilterIInv

\* A deleted filter has nothing to keep.
LEMMA DeleteHolds ==
  ASSUME FilterIInv, NEW r \in Editors, NEW b \in Bodies[r], DeleteFilter(r, b)
  PROVE  FilterIInv'
<1>1. b \in DeleteBody
  BY FilterAssumption DEF DeleteFilter, PatchBody, VersionBody
<1>2. /\ seen' = seen /\ waived' = waived /\ overtaken' = overtaken
      /\ stage[r] = "idle" /\ stage'[r] \in {"done", "refused"}
      /\ (filter' = filter /\ stage'[r] = "refused") \/ filter' = Deleted
      /\ body'[r].kind = "delete"
      /\ \A s \in Editors \ {r} : stage'[s] = stage[s] /\ body'[s] = body[s]
  BY DEF DeleteFilter, FilterIInv, TypeInv
<1>3. TypeInv'
  BY <1>1 DEF DeleteFilter, FilterIInv, TypeInv
<1>4. ReadInv'
  BY <1>2, FilterAssumption DEF FilterIInv, ReadInv, AtWork, Stored
<1>5. PassInv'
  BY <1>2 DEF FilterIInv, PassInv
<1>6. OwnInv'
  BY <1>2, FilterAssumption DEF FilterIInv, OwnInv, Stored
<1>7. VersionsStand' /\ OnlyRacesEvade'
  BY <1>2 DEF FilterIInv, VersionsStand, OnlyRacesEvade, Stored, Executes, Validates
<1>. QED
  BY <1>3, <1>4, <1>5, <1>6, <1>7 DEF FilterIInv

\* What a patch makes of a document.
LEMMA PatchedType ==
  ASSUME FilterAssumption, NEW b \in PatchBody, NEW f \in Document
  PROVE  /\ Patched(b, f) \in Document
         /\ Patched(b, f).fv = f.fv
         /\ Patched(b, f).active = WillBeActive(b, f)
         /\ Patched(b, f).active_fid = WithDefault(b.active_fid, f.active_fid)
         /\ Patched(b, f).permissions = WithDefault(b.permissions, f.permissions)
  BY DEF Patched, WithDefault, WillBeActive, PatchBody, Document

\* $push keeps the versions that are there.
LEMMA PushedType ==
  ASSUME FilterIInv, Stored, NEW r \in Editors, body[r] \in VersionBody, stage[r] # "done"
  PROVE  /\ Edited(r) \in Document
         /\ DOMAIN Edited(r).fv = DOMAIN filter.fv \union {r} /\ r \notin DOMAIN filter.fv
         /\ Edited(r).fv[r] = body[r].pipeline
         /\ \A fid \in DOMAIN filter.fv : Edited(r).fv[fid] = filter.fv[fid]
         /\ Edited(r).active = filter.active /\ Edited(r).permissions = filter.permissions
         /\ Edited(r).active_fid = IF body[r].set_as_active THEN r ELSE filter.active_fid
<1>1. filter \in Document /\ filter.fv \in Versions /\ r \notin DOMAIN filter.fv
  BY DEF FilterIInv, TypeInv, OwnInv, Stored, Document
<1>2. PICK fids \in SUBSET Fid : filter.fv \in [fids -> Pipelines]
  BY <1>1 DEF Versions
<1>3. body[r].pipeline \in Pipelines /\ body[r].kind = "version" /\ body[r].set_as_active \in BOOLEAN
  BY DEF VersionBody
<1>4. fids \union {r} \in SUBSET Fid /\ r \in Fid
  BY DEF Fid
<1>5. Pushed(r) \in [fids \union {r} -> Pipelines]
  BY <1>2, <1>3 DEF Pushed
<1>6. Pushed(r) \in Versions
  BY <1>4, <1>5, VersionsType
<1>7. Edited(r) = [filter EXCEPT !.fv = Pushed(r),
                                 !.active_fid = IF body[r].set_as_active THEN r ELSE @]
  BY <1>3 DEF Edited
<1>8. Edited(r) \in Document /\ Edited(r).fv = Pushed(r)
        /\ Edited(r).active = filter.active /\ Edited(r).permissions = filter.permissions
        /\ Edited(r).active_fid = IF body[r].set_as_active THEN r ELSE filter.active_fid
  BY <1>1, <1>3, <1>4, <1>6, <1>7 DEF Document
<1>9. DOMAIN Pushed(r) = DOMAIN filter.fv \union {r} /\ Pushed(r)[r] = body[r].pipeline
        /\ \A fid \in DOMAIN filter.fv : Pushed(r)[fid] = filter.fv[fid]
  BY <1>1 DEF Pushed
<1>. QED
  BY <1>1, <1>8, <1>9

\* A write only adds to the versions, and a document is still there after it.
LEMMA EditedKeeps ==
  ASSUME FilterIInv, Stored, NEW r \in Editors, stage[r] = "write"
  PROVE  /\ Edited(r) \in Document
         /\ Edited(r).active_fid \in DOMAIN Edited(r).fv
         /\ DOMAIN filter.fv \subseteq DOMAIN Edited(r).fv
         /\ DOMAIN Edited(r).fv \subseteq DOMAIN filter.fv \union {r}
         /\ \A fid \in DOMAIN filter.fv : Edited(r).fv[fid] = filter.fv[fid]
         /\ body[r].kind = "version" =>
              r \in DOMAIN Edited(r).fv /\ Edited(r).fv[r] = body[r].pipeline
<1>1. /\ filter \in Document /\ filter.active_fid \in DOMAIN filter.fv
      /\ body[r] \in PatchBody \union VersionBody
      /\ \A fid \in DOMAIN seen[r].fv : fid \in DOMAIN filter.fv
  BY DEF FilterIInv, TypeInv, ReadInv, VersionsStand, Stored, AtWork
<1>2. CASE body[r] \in VersionBody
  BY <1>1, <1>2, PushedType
<1>3. CASE body[r] \in PatchBody
  <2>1. body[r].kind = "patch" /\ Edited(r) = Patched(body[r], filter)
    BY <1>3 DEF PatchBody, Edited
  <2>2. body[r].active_fid \in DOMAIN seen[r].fv \union {Absent}
    BY <2>1 DEF FilterIInv, PassInv, PatchPasses
  <2>3. WithDefault(body[r].active_fid, filter.active_fid) \in DOMAIN filter.fv
    BY <1>1, <2>2 DEF WithDefault
  <2>. QED
    BY <1>1, <1>3, <2>1, <2>3, PatchedType, FilterAssumption
<1>. QED
  BY <1>1, <1>2, <1>3

\* A write to the document that was checked activates what was checked, or
\* leaves what was active before.
LEMMA FreshIsChecked ==
  ASSUME FilterIInv, Stored, NEW r \in Editors, stage[r] = "write", Fresh(r), ~ Waives(r),
         Edited(r).active
  PROVE  \/ Validates(Executes(Edited(r)))
         \/ filter.active /\ Executes(Edited(r)) = Executes(filter)
<1>1. /\ filter \in Document /\ filter.active_fid \in DOMAIN filter.fv
      /\ seen[r] \in Document /\ seen[r].active_fid \in DOMAIN seen[r].fv
      /\ body[r] \in PatchBody \union VersionBody
      /\ \A fid \in DOMAIN seen[r].fv :
            fid \in DOMAIN filter.fv /\ filter.fv[fid] = seen[r].fv[fid]
  BY DEF FilterIInv, TypeInv, ReadInv, VersionsStand, Stored, AtWork
<1>2. CASE body[r] \in VersionBody
  <2>1. VersionPasses(body[r], seen[r]) /\ body[r].set_as_active \in BOOLEAN
    BY <1>2 DEF FilterIInv, PassInv, VersionBody
  <2>2. CASE body[r].set_as_active
    <3>1. Executes(Edited(r)) = <<body[r].pipeline, filter.permissions>> /\ filter.active
      BY <1>2, <2>2, PushedType DEF Executes
    <3>. QED
      BY <2>1, <2>2, <3>1 DEF VersionPasses, Fresh
  <2>3. CASE ~ body[r].set_as_active
    BY <1>1, <1>2, <2>3, PushedType DEF Executes
  <2>. QED
    BY <2>1, <2>2, <2>3
<1>3. CASE body[r] \in PatchBody
  <2> DEFINE b == body[r]
             f == seen[r]
             fid == WithDefault(b.active_fid, f.active_fid)
  <2>1. b.kind = "patch" /\ Edited(r) = Patched(b, filter)
    BY <1>3 DEF PatchBody, Edited
  <2>2. PatchPasses(b, f) /\ b.skip_validation = FALSE
    BY <1>3, <2>1 DEF FilterIInv, PassInv, PatchBody, Waives
  <2>3. fid \in DOMAIN f.fv
    BY <1>1, <2>2 DEF PatchPasses, WithDefault
  <2>4. /\ Executes(Patched(b, f)) = <<f.fv[fid], WithDefault(b.permissions, f.permissions)>>
        /\ Patched(b, f).active = WillBeActive(b, f)
    BY <1>1, <1>3, PatchedType, FilterAssumption DEF Executes
  <2>5. /\ Executes(Edited(r)) = <<filter.fv[fid], WithDefault(b.permissions, f.permissions)>>
        /\ WillBeActive(b, f)
    <3>1. /\ Edited(r).active = WillBeActive(b, filter)
          /\ Edited(r).fv = filter.fv
          /\ Edited(r).active_fid = WithDefault(b.active_fid, filter.active_fid)
          /\ Edited(r).permissions = WithDefault(b.permissions, filter.permissions)
      <4>1. /\ Patched(b, filter).active = WillBeActive(b, filter)
            /\ Patched(b, filter).fv = filter.fv
            /\ Patched(b, filter).active_fid = WithDefault(b.active_fid, filter.active_fid)
            /\ Patched(b, filter).permissions = WithDefault(b.permissions, filter.permissions)
        BY <1>1, <1>3, PatchedType, FilterAssumption
      <4>. QED
        BY <2>1, <4>1
    <3>. QED
      BY <3>1 DEF Fresh, Executes, WillBeActive
  <2>6. Executes(Edited(r)) = Executes(Patched(b, f))
    BY <1>1, <2>3, <2>4, <2>5
  <2>7. CASE ExecChanged(b, f)
    BY <2>2, <2>5, <2>6, <2>7 DEF PatchPasses
  <2>8. CASE ~ ExecChanged(b, f)
    <3>1. b.active_fid = Absent /\ b.permissions = Absent /\ (b.active = TRUE => f.active)
      BY <2>8 DEF ExecChanged
    <3>2. f.active
      BY <1>3, <2>5, <3>1 DEF WillBeActive, WithDefault, PatchBody
    <3>3. Executes(Edited(r)) = Executes(filter)
      BY <2>5, <3>1 DEF WithDefault, Fresh, Executes
    <3>. QED
      BY <3>2, <3>3 DEF Fresh
  <2>. QED
    BY <2>7, <2>8
<1>. QED
  BY <1>1, <1>2, <1>3

\* The write of a request.
LEMMA WriteHolds ==
  ASSUME FilterIInv, NEW r \in Editors, WriteEdit(r)
  PROVE  FilterIInv'
<1>1. /\ body' = body /\ stage[r] = "write" /\ stage'[r] = "done"
      /\ \A s \in Editors \ {r} : stage'[s] = stage[s] /\ seen'[s] = seen[s]
  BY DEF WriteEdit, Return, FilterIInv, TypeInv
<1>2. filter # Unposted /\ body[r] \in PatchBody \union VersionBody
  BY <1>1 DEF FilterIInv, ReadInv, AtWork
<1>3. PassInv'
  BY <1>1 DEF FilterIInv, PassInv
<1>4. CASE ~ Stored
  <2>1. filter' = filter /\ ~ Stored'
    BY <1>4 DEF WriteEdit, Stored
  <2>2. TypeInv'
    BY <2>1 DEF WriteEdit, Return, FilterIInv, TypeInv
  <2>3. ReadInv' /\ OwnInv'
    BY <1>1, <1>2, <2>1 DEF FilterIInv, ReadInv, OwnInv, AtWork
  <2>. QED
    BY <1>3, <2>1, <2>2, <2>3 DEF FilterIInv, VersionsStand, OnlyRacesEvade
<1>5. CASE Stored
  <2>1. filter' = Edited(r)
    BY <1>5 DEF WriteEdit
  <2>2. /\ filter' \in Document
        /\ filter'.active_fid \in DOMAIN filter'.fv
        /\ DOMAIN filter.fv \subseteq DOMAIN filter'.fv
        /\ DOMAIN filter'.fv \subseteq DOMAIN filter.fv \union {r}
        /\ \A fid \in DOMAIN filter.fv : filter'.fv[fid] = filter.fv[fid]
        /\ body[r].kind = "version" => r \in DOMAIN filter'.fv /\ filter'.fv[r] = body[r].pipeline
    BY <1>1, <1>5, <2>1, EditedKeeps
  <2>3. Stored' /\ filter' # Unposted
    BY <2>2, FilterAssumption DEF Stored
  <2>4. TypeInv'
    BY <2>2 DEF WriteEdit, Return, FilterIInv, TypeInv
  <2>5. ReadInv'
    BY <1>1, <1>5, <2>2, <2>3 DEF FilterIInv, ReadInv, AtWork
  <2>6. OwnInv'
    BY <1>1, <1>5, <2>2, <2>3 DEF FilterIInv, OwnInv
  <2>7. VersionsStand'
    BY <1>1, <1>5, <2>2, <2>3 DEF FilterIInv, VersionsStand
  <2>8. OnlyRacesEvade'
    <3> SUFFICES ASSUME filter'.active
                 PROVE  \/ Validates(Executes(filter'))
                        \/ Executes(filter') \in waived' \union overtaken'
      BY DEF OnlyRacesEvade, Executes, Validates
    <3>1. /\ waived' = IF Waives(r) THEN waived \union {Executes(filter')} ELSE waived
          /\ overtaken' = IF Fresh(r) THEN overtaken ELSE overtaken \union {Executes(filter')}
      BY <1>5 DEF WriteEdit
    <3>2. CASE Waives(r) \/ ~ Fresh(r)
      BY <3>1, <3>2
    <3>3. CASE ~ Waives(r) /\ Fresh(r)
      <4>1. \/ Validates(Executes(filter'))
            \/ filter.active /\ Executes(filter') = Executes(filter)
        BY <1>1, <1>5, <2>1, <3>3, FreshIsChecked
      <4>. QED
        BY <1>5, <3>1, <3>3, <4>1 DEF FilterIInv, OnlyRacesEvade
    <3>. QED
      BY <3>2, <3>3
  <2>. QED
    BY <1>3, <2>4, <2>5, <2>6, <2>7, <2>8 DEF FilterIInv
<1>. QED
  BY <1>4, <1>5

\* A step that changes nothing.
LEMMA StutterHolds ==
  ASSUME FilterIInv, UNCHANGED filterVars
  PROVE  FilterIInv'
  BY DEF filterVars, FilterIInv, TypeInv, ReadInv, PassInv, OwnInv, AtWork, VersionsStand,
     OnlyRacesEvade, Stored, Executes, Validates

\* The invariant is inductive.
LEMMA FilterInvariant == FilterSpec => []FilterIInv
<1>1. FilterIInv /\ [FilterNext]_filterVars => FilterIInv'
  <2> SUFFICES ASSUME FilterIInv, [FilterNext]_filterVars
               PROVE  FilterIInv'
    OBVIOUS
  <2>1. CASE UNCHANGED filterVars
    BY <2>1, StutterHolds
  <2>2. ASSUME NEW p \in Pipelines, NEW q \in Grants, PostFilter(p, q) \/ AddFilter(p, q)
        PROVE  FilterIInv'
    BY <2>2, PostHolds
  <2>3. ASSUME NEW r \in Editors, NEW b \in Bodies[r], ReadFilter(r, b)
        PROVE  FilterIInv'
    BY <2>3, ReadHolds
  <2>4. ASSUME NEW r \in Editors, NEW b \in Bodies[r], DeleteFilter(r, b)
        PROVE  FilterIInv'
    BY <2>4, DeleteHolds
  <2>5. ASSUME NEW r \in Editors, CheckEdit(r) \/ GiveUp(r)
        PROVE  FilterIInv'
    BY <2>5, CheckHolds
  <2>6. ASSUME NEW r \in Editors, WriteEdit(r)
        PROVE  FilterIInv'
    BY <2>6, WriteHolds
  <2>. QED
    BY <2>1, <2>2, <2>3, <2>4, <2>5, <2>6 DEF FilterNext
<1>. QED
  BY <1>1, InitHolds, PTL DEF FilterSpec

\* However many requests race, post_filter_version loses no version that it has
\* answered for, and active_fid always names one of the filter's versions.
THEOREM KeepsVersions == FilterSpec => []VersionsStand
  BY FilterInvariant, PTL DEF FilterIInv

\* The checks of patch_filter and post_filter_version let a filter that is too
\* permissive be active only with skip_validation, when the command line has added
\* it so, or when another request has changed the document between the check and
\* the write.
THEOREM RacesAlone == FilterSpec => []OnlyRacesEvade
  BY FilterInvariant, PTL DEF FilterIInv

=============================================================================
