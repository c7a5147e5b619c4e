------------------------------ MODULE Sessions ------------------------------
(***************************************************************************)
(* Sign-in and refresh tokens (app/auth/service.py, router.py): the tables *)
(* authentication_attempts and refresh_tokens, the limit on failed         *)
(* attempts, the rotation of a token and the revocation of its family.     *)
(*                                                                         *)
(* A sign-in holds the advisory lock of its scope (e-mail and address)     *)
(* from the count of failures to the commit of its own attempt, with the   *)
(* slow check of the password in between.  A refresh locks the row of its  *)
(* token.  Both may die at any time, and are then rolled back.             *)
(***************************************************************************)
EXTENDS Integers, FiniteSets

CONSTANTS
    Logins,         \* identities of sign-in requests, each also the identity
                    \* of the token family it opens
    NoLogin,        \* "no family", of a token not yet issued
    Tokens,         \* identities of refresh tokens
    NoToken,        \* "not replaced"
    Refreshes,      \* refresh requests handled at the same time
    NoScope,        \* the scope of a sign-in not yet made
    Scopes,         \* pairs of an e-mail and a client address
    MaxAttempts,    \* authentication_max_attempts
    Window,         \* authentication_window_seconds
    TokenTTL,       \* refresh_token_ttl_seconds
    MaxTime         \* bound: the clock

ASSUME LoginsAssumption == IsFiniteSet(Logins) /\ NoLogin \notin Logins
ASSUME TokensAssumption == NoToken \notin Tokens
ASSUME ScopesAssumption == NoScope \notin Scopes
ASSUME LimitsAssumption ==
    /\ MaxAttempts \in Nat \ {0}
    /\ Window \in Nat
    /\ TokenTTL \in Nat \ {0}
    /\ MaxTime \in Nat

VARIABLES
    clock,      \* the time both tables are stamped with
    attempt,    \* the table authentication_attempts, and the sign-ins in flight
    token,      \* the table refresh_tokens
    refresh     \* the refresh requests in flight

vars == <<clock, attempt, token, refresh>>

-----------------------------------------------------------------------------

(* row: NONE, no row; CHECKING, the count was below the limit and the      *)
(* password is being checked; FAILED and PASSED, the committed row; OPENED, *)
(* also the first token pair is issued.  at: the time of the count, then   *)
(* created_at.  answer: what the client was told of its password.          *)
Attempt == [row : {"NONE", "CHECKING", "FAILED", "PASSED", "OPENED"},
            scope : Scopes \cup {NoScope}, at : 0..MaxTime, answer : {"NONE", "WRONG"}]

NoAttempt == [row |-> "NONE", scope |-> NoScope, at |-> 0, answer |-> "NONE"]

RefreshToken == [state : {"FREE", "LIVE", "REVOKED"}, family : Logins \cup {NoLogin},
                 expires : Nat, next : Tokens \cup {NoToken}]

NotIssued == [state |-> "FREE", family |-> NoLogin, expires |-> 0, next |-> NoToken]

(* ROTATING: the request found its token live.  REVOKING: it found it      *)
(* revoked; seen: the rows of the family the UPDATE found live.  REPORTED: *)
(* the client has been told that the family was revoked.                   *)
Idle == [state |-> "IDLE", token |-> NoToken, seen |-> {}]

Refresh == {Idle} \cup [state : {"ROTATING", "REVOKING", "REPORTED"},
                         token : Tokens, seen : SUBSET Tokens]

\* Every row and every request in flight has the type the schema gives it.
TypeOK ==
    /\ clock \in 0..MaxTime
    /\ attempt \in [Logins -> Attempt]
    /\ token \in [Tokens -> RefreshToken]
    /\ refresh \in [Refreshes -> Refresh]

Init ==
    /\ clock = 0
    /\ attempt = [a \in Logins |-> NoAttempt]
    /\ token = [t \in Tokens |-> NotIssued]
    /\ refresh = [q \in Refreshes |-> Idle]

\* The failed attempts enforce_rate_limit counts.
FailedSince(s, since) ==
    {a \in Logins : attempt[a].row = "FAILED" /\ attempt[a].scope = s
                                              /\ attempt[a].at >= since}

\* pg_advisory_xact_lock of the scope is held.
ScopeLocked(s) == \E a \in Logins : attempt[a].row = "CHECKING" /\ attempt[a].scope = s

Family(f) == {t \in Tokens : token[t].family = f}

LiveIn(f) == {t \in Family(f) : token[t].state = "LIVE"}

\* The row is locked FOR UPDATE by a refresh in flight.
Locked(t) == \E q \in Refreshes : /\ refresh[q].state \in {"ROTATING", "REVOKING"}
                                  /\ refresh[q].token = t

\* Mutation: the lifetime is taken off, not added.
Fresh_Past(f) == [state |-> "LIVE", family |-> f, expires |-> clock - TokenTTL,
                  next |-> NoToken]

\* issue_pair: a new row of the family.
Fresh(f) == [state |-> "LIVE", family |-> f, expires |-> clock + TokenTTL, next |-> NoToken]

\* revoked_at and replaced_by_id of the token that n replaces.
Replaced(t, n) == [state |-> "REVOKED", family |-> token[t].family,
                   expires |-> token[t].expires, next |-> n]

-----------------------------------------------------------------------------
(* Mutations: slips in a handler that the properties must notice.  They    *)
(* are no part of Next.                                                    *)

\* The failures are counted without the advisory lock.
LoginBegin_NoLock(a, s) ==
    /\ attempt[a].row = "NONE"
    /\ Cardinality(FailedSince(s, clock - Window)) < MaxAttempts
    /\ attempt' = [attempt EXCEPT ![a] = [row |-> "CHECKING", scope |-> s,
                                          at |-> clock, answer |-> "NONE"]]
    /\ UNCHANGED <<clock, token, refresh>>

\* The error is raised inside the transaction, which rolls the row back.
LoginFails_RolledBack(a) ==
    /\ attempt[a].row = "CHECKING"
    /\ attempt' = [attempt EXCEPT ![a] = [row |-> "NONE", scope |-> attempt[a].scope,
                                          at |-> clock, answer |-> "WRONG"]]
    /\ UNCHANGED <<clock, token, refresh>>

\* The token is read without FOR UPDATE.
RefreshBegin_NoLock(q, t) ==
    /\ refresh[q].state = "IDLE"
    /\ token[t].state = "LIVE"
    /\ clock < token[t].expires
    /\ refresh' = [refresh EXCEPT ![q] = [state |-> "ROTATING", token |-> t, seen |-> {}]]
    /\ UNCHANGED <<clock, attempt, token>>

\* revoked_at is not looked at.
RefreshBegin_Revoked(q, t) ==
    /\ refresh[q].state = "IDLE"
    /\ token[t].state # "FREE" /\ ~Locked(t)
    /\ clock < token[t].expires
    /\ refresh' = [refresh EXCEPT ![q] = [state |-> "ROTATING", token |-> t, seen |-> {}]]
    /\ UNCHANGED <<clock, attempt, token>>

-----------------------------------------------------------------------------
(* Sign-in.                                                                *)

\* enforce_rate_limit, in the transaction that will insert the attempt.
LoginBegin(a, s) ==
    /\ attempt[a].row = "NONE"
    /\ ~ScopeLocked(s)
    /\ Cardinality(FailedSince(s, clock - Window)) < MaxAttempts
    /\ attempt' = [attempt EXCEPT ![a] = [row |-> "CHECKING", scope |-> s,
                                          at |-> clock, answer |-> "NONE"]]
    /\ UNCHANGED <<clock, token, refresh>>

\* A wrong password: the row is committed before the error is raised.
LoginFails(a) ==
    /\ attempt[a].row = "CHECKING"
    /\ attempt' = [attempt EXCEPT ![a] = [row |-> "FAILED", scope |-> attempt[a].scope,
                                          at |-> clock, answer |-> "WRONG"]]
    /\ UNCHANGED <<clock, token, refresh>>

\* The right password of a user of the tenant, or of somebody else: then
\* ensure_tenant_access refuses and no token pair follows.
LoginPasses(a) ==
    /\ attempt[a].row = "CHECKING"
    /\ attempt' = [attempt EXCEPT ![a] = [row |-> "PASSED", scope |-> attempt[a].scope,
                                          at |-> clock, answer |-> "NONE"]]
    /\ UNCHANGED <<clock, token, refresh>>

\* A tenant's sign-in issues its first pair in a transaction of its own.
TenantIssue(a, n) ==
    /\ attempt[a].row = "PASSED"
    /\ token[n].state = "FREE"
    /\ attempt' = [attempt EXCEPT ![a].row = "OPENED"]
    /\ token' = [token EXCEPT ![n] = Fresh(a)]
    /\ UNCHANGED <<clock, refresh>>

\* The platform's sign-in does all in the transaction of the attempt.
PlatformIssue(a, n) ==
    /\ attempt[a].row = "CHECKING"
    /\ token[n].state = "FREE"
    /\ attempt' = [attempt EXCEPT ![a] = [row |-> "OPENED", scope |-> attempt[a].scope,
                                          at |-> clock, answer |-> "NONE"]]
    /\ token' = [token EXCEPT ![n] = Fresh(a)]
    /\ UNCHANGED <<clock, refresh>>

LoginDies(a) ==
    /\ attempt[a].row = "CHECKING"
    /\ attempt' = [attempt EXCEPT ![a] = NoAttempt]
    /\ UNCHANGED <<clock, token, refresh>>

-----------------------------------------------------------------------------
(* Refresh.  An unknown or expired token, or one of another tenant, is     *)
(* refused and changes nothing; no operation deactivates a user.           *)

RefreshBegin(q, t) ==
    /\ refresh[q].state = "IDLE"
    /\ token[t].state = "LIVE" /\ ~Locked(t)
    /\ clock < token[t].expires
    /\ refresh' = [refresh EXCEPT ![q] = [state |-> "ROTATING", token |-> t, seen |-> {}]]
    /\ UNCHANGED <<clock, attempt, token>>

RotateCommit(q, n) ==
    /\ refresh[q].state = "ROTATING"
    /\ token[n].state = "FREE"
    /\ token' = [token EXCEPT ![refresh[q].token] = Replaced(refresh[q].token, n),
                              ![n] = Fresh(token[refresh[q].token].family)]
    /\ refresh' = [refresh EXCEPT ![q] = Idle]
    /\ UNCHANGED <<clock, attempt>>

(* A revoked token is presented: the UPDATE of the family starts, and sees *)
(* the rows that are committed now.                                        *)
ReuseDetected(q, t) ==
    /\ refresh[q].state = "IDLE"
    /\ token[t].state = "REVOKED" /\ ~Locked(t)
    /\ clock < token[t].expires
    /\ refresh' = [refresh EXCEPT ![q] = [state |-> "REVOKING", token |-> t,
                                          seen |-> LiveIn(token[t].family)]]
    /\ UNCHANGED <<clock, attempt, token>>

(* It waits for rows a rotation holds, looks at them again, and writes     *)
(* those it saw that are still not revoked; then it commits, and the       *)
(* client is told.                                                         *)
RevokeFamily(q) ==
    /\ refresh[q].state = "REVOKING"
    /\ \A t \in refresh[q].seen : ~Locked(t)
    /\ token' = [t \in Tokens |->
                    IF t \in refresh[q].seen /\ token[t].state = "LIVE"
                    THEN [token[t] EXCEPT !.state = "REVOKED"] ELSE token[t]]
    /\ refresh' = [refresh EXCEPT ![q] = [state |-> "REPORTED", token |-> refresh[q].token,
                                          seen |-> {}]]
    /\ UNCHANGED <<clock, attempt>>

\* The request dies and is rolled back, or has been answered.
RefreshEnds(q) ==
    /\ refresh[q].state # "IDLE"
    /\ refresh' = [refresh EXCEPT ![q] = Idle]
    /\ UNCHANGED <<clock, attempt, token>>

Tick ==
    /\ clock < MaxTime
    /\ clock' = clock + 1
    /\ UNCHANGED <<attempt, token, refresh>>

-----------------------------------------------------------------------------

LoginStep(a) ==
    \/ \E s \in Scopes : LoginBegin(a, s)
    \/ LoginFails(a)
    \/ LoginPasses(a)
    \/ \E n \in Tokens : TenantIssue(a, n) \/ PlatformIssue(a, n)
    \/ LoginDies(a)

RefreshStep(q) ==
    \/ \E t \in Tokens : RefreshBegin(q, t) \/ ReuseDetected(q, t)
    \/ \E n \in Tokens : RotateCommit(q, n)
    \/ RevokeFamily(q)
    \/ RefreshEnds(q)

Next ==
    \/ \E a \in Logins : LoginStep(a)
    \/ \E q \in Refreshes : RefreshStep(q)
    \/ Tick

Spec == Init /\ [][Next]_vars

-----------------------------------------------------------------------------
(* Properties.                                                             *)

(* However sign-ins of one e-mail and address overlap, no window of time   *)
(* has more wrong passwords answered than the limit.                       *)
GuessesThrottled ==
    \A s \in Scopes, t \in 0..MaxTime :
        Cardinality({a \in Logins : /\ attempt[a].answer = "WRONG"
                                    /\ attempt[a].scope = s
                                    /\ t - Window <= attempt[a].at
                                    /\ attempt[a].at <= t}) <= MaxAttempts

(* The tokens of a family are one chain: however requests with the same    *)
(* token race, it is replaced once, and only the newest token, the one     *)
(* that replaces and is not replaced, can be live.                         *)
OneChain ==
    \A t, u \in Tokens :
        /\ t # u /\ token[t].next # NoToken => token[t].next # token[u].next
        /\ /\ token[t].state # "FREE" /\ token[u].state # "FREE"
           /\ token[t].family = token[u].family
           /\ token[t].next = NoToken /\ token[u].next = NoToken
           => t = u
        /\ token[t].state = "LIVE" => token[t].next = NoToken

(* A session, as the rows show it: open while a token of it is live.       *)
Session(f) ==
    IF Family(f) = {} THEN "NONE" ELSE IF LiveIn(f) # {} THEN "OPEN" ELSE "CLOSED"

Promise == INSTANCE SessionPromise WITH session <- [f \in Logins |-> Session(f)]

(* A family that was revoked never has a live token again: rotation and    *)
(* revocation, interleaved in any way, keep the promise of a session.      *)
SessionKept == Promise!Spec

(* What the client is told when it presents a revoked token: "Refresh      *)
(* token reuse was detected; the token family was revoked."                *)
(* (app/auth/router.py:59, 103).                                           *)
FamilyRevoked ==
    \A q \in Refreshes : refresh[q].state = "REPORTED" =>
        LiveIn(token[refresh[q].token].family) = {}
=============================================================================
