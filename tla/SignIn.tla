------------------------------- MODULE SignIn -------------------------------
(***************************************************************************)
(* Sign-up by mail and sign-in through a provider                          *)
(* (src/src/api/routes/babamul/oauth.rs and mod.rs).  An account is known  *)
(* by its address, which has a unique index.  A provider that vouches for  *)
(* an address links its identity to the account of that address; any other *)
(* identity waits, behind a ticket, for a code that is mailed to the       *)
(* address its owner gives.                                                *)
(*                                                                         *)
(* Requests are handled by concurrent handlers.  Every call to the         *)
(* database is a step; a handler that fails or is dropped stops where it   *)
(* is, and is free for another request.                                    *)
(***************************************************************************)
EXTENDS Integers, FiniteSets

CONSTANTS
    Handlers,
    Emails,
    Identities,         \* (provider, subject) pairs
    Attempts,           \* at signing in: each has its state, then its ticket
    Provides,           \* what the provider may say in an attempt: who it is, and
                        \* the address that it vouches for, or Nobody
    MaxVerificationAttempts,
    MaxCodeSends,
    FromBefore,         \* accounts that are linked and not confirmed
    SignsUp,            \* bound: the addresses that sign up by mail
    Nobody

ASSUME SignInAssumption ==
    /\ IsFiniteSet(Handlers) /\ IsFiniteSet(Emails)
    /\ Nobody \notin Emails \union Identities \union Attempts
    /\ Provides \in [Attempts -> SUBSET (Identities \X (Emails \union {Nobody}))]
    /\ MaxVerificationAttempts \in Nat /\ MaxCodeSends \in Nat
    /\ FromBefore \in [Emails -> SUBSET Identities]
    /\ \A e, f \in Emails : e # f => FromBefore[e] \intersect FromBefore[f] = {}

VARIABLES
    registration,               \* registration_enabled
    users, active, linked,      \* the accounts, the activated ones, identities
    state,                      \* the document of an attempt in oauth_states
    ticket, holder,             \* its pending identity: is it there, and whose
    mailTo, code, attempts, sends,
    at,                         \* of a handler: its place, its attempt,
    doing, who, email,          \* identity and verified address,
    given, expected,            \* the code it was given and the one it read
    mailed,     \* history: the address that a code was mailed to
    guessed,    \* history: how often a code was guessed wrong
    burned,     \* history: the handlers that won a ticket, by attempt
    proofs      \* history: who has proved an address

accounts == <<users, active, linked>>
parked == <<ticket, holder, mailTo, code, attempts, sends>>
local == <<doing, who, email, given, expected>>
record == <<mailed, guessed, burned, proofs>>
signInVars == <<registration, accounts, state, parked, at, local, record>>

Code == 1..MaxCodeSends

SignInInit ==
    /\ registration \in BOOLEAN
    /\ linked = FromBefore
    /\ users = {e \in Emails : FromBefore[e] # {}} /\ active = {}
    /\ state = [s \in Attempts |-> "none"]
    /\ ticket = [s \in Attempts |-> "none"]
    /\ holder = [s \in Attempts |-> Nobody]
    /\ mailTo = [s \in Attempts |-> Nobody]
    /\ code = [s \in Attempts |-> 0]
    /\ attempts = [s \in Attempts |-> 0]
    /\ sends = [s \in Attempts |-> 0]
    /\ at = [h \in Handlers |-> "idle"]
    /\ doing = [h \in Handlers |-> Nobody]
    /\ who = [h \in Handlers |-> Nobody]
    /\ email = [h \in Handlers |-> Nobody]
    /\ given = [h \in Handlers |-> 0]
    /\ expected = [h \in Handlers |-> 0]
    /\ mailed = [s \in Attempts |-> [n \in Code |-> Nobody]]
    /\ guessed = [s \in Attempts |-> [n \in Code |-> 0]]
    /\ burned = [s \in Attempts |-> 0]
    /\ proofs = {p \in Identities \X Emails : p[1] \in FromBefore[p[2]]}

Move(h, place) == at' = [at EXCEPT ![h] = place]

\* The handler has answered, or its request is gone.
Finish(h) ==
    /\ Move(h, "idle")
    /\ doing' = [doing EXCEPT ![h] = Nobody]
    /\ who' = [who EXCEPT ![h] = Nobody]
    /\ email' = [email EXCEPT ![h] = Nobody]
    /\ given' = [given EXCEPT ![h] = 0]
    /\ expected' = [expected EXCEPT ![h] = 0]

Drop(h) ==
    /\ at[h] # "idle"
    /\ Finish(h)
    /\ UNCHANGED <<registration, accounts, state, parked, record>>

----------------------------------------------------------------------------
\* get_oauth_start stores the state of an attempt, for state_ttl_seconds.
Start(s) ==
    /\ state[s] = "none"
    /\ state' = [state EXCEPT ![s] = "pending"]
    /\ UNCHANGED <<registration, accounts, parked, at, local, record>>

\* A ticket is deleted; what it said goes with it.
Delete(s) ==
    /\ ticket' = [ticket EXCEPT ![s] = "gone"]
    /\ holder' = [holder EXCEPT ![s] = Nobody]
    /\ mailTo' = [mailTo EXCEPT ![s] = Nobody]
    /\ code' = [code EXCEPT ![s] = 0]
    /\ attempts' = [attempts EXCEPT ![s] = 0]
    /\ sends' = [sends EXCEPT ![s] = 0]
    /\ mailed' = [mailed EXCEPT ![s] = [n \in Code |-> Nobody]]

\* Time runs out for a state or a ticket; the TTL monitor deletes it later.
StateLapses(s) ==
    /\ state[s] = "pending"
    /\ state' = [state EXCEPT ![s] = "lapsed"]
    /\ UNCHANGED <<registration, accounts, parked, at, local, record>>

TicketLapses(s) ==
    /\ ticket[s] = "alive"
    /\ ticket' = [ticket EXCEPT ![s] = "lapsed"]
    /\ UNCHANGED <<registration, accounts, state, holder, mailTo, code, attempts, sends, at,
                   local, record>>

Swept(s) ==
    /\ ticket[s] = "lapsed"
    /\ Delete(s)
    /\ UNCHANGED <<registration, accounts, state, at, local, guessed, burned, proofs>>

\* get_oauth_callback consumes the state, and learns from the provider who
\* has signed in and the address, if any, that the provider vouches for.
Callback(h, s) ==
    /\ at[h] = "idle" /\ state[s] \in {"pending", "lapsed"}
    /\ state' = [state EXCEPT ![s] = "gone"]
    /\ IF state[s] = "pending"
         THEN \E said \in Provides[s] :
                /\ doing' = [doing EXCEPT ![h] = s]
                /\ who' = [who EXCEPT ![h] = said[1]]
                /\ email' = [email EXCEPT ![h] = said[2]]
                /\ proofs' = IF said[2] = Nobody THEN proofs ELSE proofs \union {said}
                /\ Move(h, "resolve")
         ELSE UNCHANGED <<at, doing, who, email, proofs>>
    /\ UNCHANGED <<registration, accounts, parked, given, expected, mailed, guessed, burned>>

----------------------------------------------------------------------------
\* resolve_identity, 1: the account that the identity is linked to.
LinkedTo(i) == {e \in users : i \in linked[e]}

Resolve(h) ==
    /\ at[h] = "resolve"
    /\ CASE LinkedTo(who[h]) \intersect active # {} -> Finish(h)
         [] LinkedTo(who[h]) # {} /\ LinkedTo(who[h]) \intersect active = {} ->
              IF email[h] \in LinkedTo(who[h])
                THEN Move(h, "confirm") /\ UNCHANGED local
                ELSE Finish(h)
         [] LinkedTo(who[h]) = {} ->
              Move(h, IF email[h] = Nobody THEN "park" ELSE "byEmail") /\ UNCHANGED local
    /\ UNCHANGED <<registration, accounts, state, parked, record>>

\* The provider vouches for the address that the account was to confirm.
Confirm(h) ==
    /\ at[h] = "confirm"
    /\ active' = active \union {email[h]}
    /\ Finish(h)
    /\ UNCHANGED <<registration, users, linked, state, parked, record>>

\* store_pending_identity.
Park(h) ==
    /\ at[h] = "park"
    /\ ticket' = [ticket EXCEPT ![doing[h]] = "alive"]
    /\ holder' = [holder EXCEPT ![doing[h]] = who[h]]
    /\ Finish(h)
    /\ UNCHANGED <<registration, accounts, state, mailTo, code, attempts, sends, record>>

\* 2 and 3: the account with the verified address, or a new one.
ByEmail(h) ==
    /\ at[h] = "byEmail"
    /\ CASE email[h] \in users -> Move(h, "link") /\ UNCHANGED local
         [] email[h] \notin users /\ registration -> Move(h, "insert") /\ UNCHANGED local
         [] email[h] \notin users /\ ~ registration -> Finish(h)
    /\ UNCHANGED <<registration, accounts, state, parked, record>>

\* The unique index on the identities, of an update of the account e.
Clashes(i, e) == \E f \in users \ {e} : i \in linked[f]

\* link_identity_to_user.
Link(h) ==
    /\ at[h] = "link"
    /\ IF Clashes(who[h], email[h])
         THEN UNCHANGED accounts
         ELSE /\ linked' = [linked EXCEPT ![email[h]] = @ \union {who[h]}]
              /\ active' = active \union {email[h]}
              /\ UNCHANGED users
    /\ Finish(h)
    /\ UNCHANGED <<registration, state, parked, record>>

\* insert_social_user; either unique index may turn it away.
Insert(h) ==
    /\ at[h] = "insert"
    /\ IF email[h] \in users \/ Clashes(who[h], email[h])
         THEN UNCHANGED accounts
         ELSE /\ users' = users \union {email[h]}
              /\ active' = active \union {email[h]}
              /\ linked' = [linked EXCEPT ![email[h]] = {who[h]}]
    /\ Finish(h)
    /\ UNCHANGED <<registration, state, parked, record>>

----------------------------------------------------------------------------
\* post_oauth_complete loads the ticket,
Complete(h, s, e) ==
    /\ at[h] = "idle" /\ ticket[s] = "alive"
    /\ doing' = [doing EXCEPT ![h] = s]
    /\ email' = [email EXCEPT ![h] = e]
    /\ Move(h, "send")
    /\ UNCHANGED <<registration, accounts, state, parked, who, given, expected, record>>

WithinCap(s) == sends[s] < MaxCodeSends

\* counts the send and stores the address and a code, in one update,
SendCode(h) ==
    /\ at[h] = "send"
    /\ LET s == doing[h] IN
       IF ticket[s] \in {"alive", "lapsed"} /\ WithinCap(s)
         THEN /\ sends' = [sends EXCEPT ![s] = @ + 1]
              /\ mailTo' = [mailTo EXCEPT ![s] = email[h]]
              /\ code' = [code EXCEPT ![s] = sends[s] + 1]
              /\ attempts' = [attempts EXCEPT ![s] = 0]
              /\ expected' = [expected EXCEPT ![h] = sends[s] + 1]
              /\ Move(h, "mail")
              /\ UNCHANGED <<ticket, holder, doing, who, email, given>>
         ELSE UNCHANGED parked /\ Finish(h)
    /\ UNCHANGED <<registration, accounts, state, record>>

\* and mails the code.
Mail(h) ==
    /\ at[h] = "mail"
    /\ mailed' = IF ticket[doing[h]] = "gone" THEN mailed
                 ELSE [mailed EXCEPT ![doing[h]][expected[h]] = email[h]]
    /\ Finish(h)
    /\ UNCHANGED <<registration, accounts, state, parked, guessed, burned, proofs>>

\* The codes that somebody may enter: one that was mailed, or a wrong one (0).
Enterable(s) == {0} \union {n \in Code : mailed[s][n] # Nobody}

Claimable(s) == ticket[s] = "alive" /\ attempts[s] < MaxVerificationAttempts

\* post_oauth_verify claims an attempt and reads the ticket in one update.
Verify(h, s, n) ==
    /\ at[h] = "idle" /\ ticket[s] # "none" /\ n \in Enterable(s)
    /\ doing' = [doing EXCEPT ![h] = s]
    /\ IF Claimable(s)
         THEN /\ attempts' = [attempts EXCEPT ![s] = @ + 1]
              /\ who' = [who EXCEPT ![h] = holder[s]]
              /\ email' = [email EXCEPT ![h] = mailTo[s]]
              /\ expected' = [expected EXCEPT ![h] = code[s]]
              /\ given' = [given EXCEPT ![h] = n]
              /\ Move(h, "check")
         ELSE /\ UNCHANGED <<attempts, who, email, expected, given>>
              /\ Move(h, "refuse")
    /\ UNCHANGED <<registration, accounts, state, ticket, holder, mailTo, code, sends, record>>

\* no_attempt_left burns a ticket that is out of attempts: it looks whether
\* the ticket is there,
Refuse(h) ==
    /\ at[h] = "refuse"
    /\ IF ticket[doing[h]] = "alive"
         THEN Move(h, "exhaust") /\ UNCHANGED local
         ELSE Finish(h)
    /\ UNCHANGED <<registration, accounts, state, parked, record>>

\* and deletes it.
Exhaust(h) ==
    /\ at[h] = "exhaust"
    /\ Delete(doing[h])
    /\ Finish(h)
    /\ UNCHANGED <<registration, accounts, state, guessed, burned, proofs>>

\* The code is compared with the one that the claim has read.
Check(h) ==
    /\ at[h] = "check"
    /\ IF expected[h] # 0 /\ given[h] = expected[h]
         THEN Move(h, "burn") /\ UNCHANGED <<local, guessed>>
         ELSE /\ guessed' = IF expected[h] = 0 THEN guessed
                            ELSE [guessed EXCEPT ![doing[h]][expected[h]] = @ + 1]
              /\ Finish(h)
    /\ UNCHANGED <<registration, accounts, state, parked, mailed, burned, proofs>>

\* A bug: whoever has the right code goes on.
BurnsAlways(s) == TRUE

Burns(s) == ticket[s] \in {"alive", "lapsed"}

\* A bug: the address is the one in the document that is deleted.
AddressAtBurn(h) == mailTo[doing[h]]

\* The address that the claim has read.
Address(h) == email[h]

\* The ticket is deleted before anything is created.
Burn(h) ==
    /\ at[h] = "burn"
    /\ LET s == doing[h] IN
       IF Burns(s)
         THEN /\ Delete(s)
              /\ burned' = [burned EXCEPT ![s] = @ + 1]
              /\ proofs' = proofs \union {<<who[h], mailed[s][given[h]]>>}
              /\ email' = [email EXCEPT ![h] = Address(h)]
              /\ given' = [given EXCEPT ![h] = 0]
              /\ expected' = [expected EXCEPT ![h] = 0]
              /\ Move(h, "resolve")
              /\ UNCHANGED <<doing, who>>
         ELSE Finish(h) /\ UNCHANGED <<parked, mailed, burned, proofs>>
    /\ UNCHANGED <<registration, accounts, state, guessed>>

----------------------------------------------------------------------------
\* post_babamul_signup looks for the address.  An account that is there and
\* not activated gets a new code, which leaves what is modelled as it is.
SignUp(h, e) ==
    /\ at[h] = "idle" /\ registration /\ e \in SignsUp \ users
    /\ email' = [email EXCEPT ![h] = e]
    /\ Move(h, "create")
    /\ UNCHANGED <<registration, accounts, state, parked, doing, who, given, expected, record>>

Create(h) ==
    /\ at[h] = "create"
    /\ users' = users \union {email[h]}
    /\ Finish(h)
    /\ UNCHANGED <<registration, active, linked, state, parked, record>>

\* post_babamul_activate, with the code that was mailed to the address.
Activate(h, e) ==
    /\ at[h] = "idle" /\ e \in users \ active
    /\ email' = [email EXCEPT ![h] = e]
    /\ Move(h, "activate")
    /\ UNCHANGED <<registration, accounts, state, parked, doing, who, given, expected, record>>

ActivateWrites(h) ==
    /\ at[h] = "activate"
    /\ active' = active \union {email[h]}
    /\ Finish(h)
    /\ UNCHANGED <<registration, users, linked, state, parked, record>>

Handle(h) ==
    \/ Resolve(h) \/ Confirm(h) \/ Park(h) \/ ByEmail(h) \/ Link(h) \/ Insert(h)
    \/ SendCode(h) \/ Mail(h)
    \/ Refuse(h) \/ Exhaust(h) \/ Check(h) \/ Burn(h)
    \/ Create(h) \/ ActivateWrites(h)
    \/ Drop(h)

Receive(h) ==
    \/ \E s \in Attempts : Callback(h, s)
    \/ \E s \in Attempts, e \in Emails : Complete(h, s, e)
    \/ \E s \in Attempts, n \in 0..MaxCodeSends : Verify(h, s, n)
    \/ \E e \in Emails : SignUp(h, e)
    \/ \E e \in Emails : Activate(h, e)

Passes(s) == Start(s) \/ StateLapses(s) \/ TicketLapses(s) \/ Swept(s)

SignInNext ==
    \/ \E h \in Handlers : Handle(h)
    \/ \E h \in Handlers : Receive(h)
    \/ \E s \in Attempts : Passes(s)

SignInSpec == SignInInit /\ [][SignInNext]_signInVars

----------------------------------------------------------------------------
\* Nobody's identity is linked to the account of an address that neither the
\* provider vouched for nor a code mailed there has proved, even when the
\* address of the ticket is changed between the claim and the burning.
LinkedIsProved ==
    \A e \in Emails : \A i \in linked[e] : <<i, e>> \in proofs

\* What a ticket grants is bounded however the requests interleave: it sends
\* MAX_CODE_SENDS codes, each is guessed wrong MAX_VERIFICATION_ATTEMPTS times
\* at most, also when a new code resets the count under guesses that are on
\* their way, and of all requests with the right code one signs in.
TicketIsBounded ==
    \A s \in Attempts :
        /\ sends[s] <= MaxCodeSends
        /\ \A n \in Code : guessed[s][n] <= MaxVerificationAttempts
        /\ burned[s] <= 1
=============================================================================
