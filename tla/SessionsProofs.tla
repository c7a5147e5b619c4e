--------------------------- MODULE SessionsProofs ---------------------------
(***************************************************************************)
(* Proofs about Sessions: its types, the limit on guesses, the chain of a  *)
(* token family, and the promise of a session, for any number of sign-ins, *)
(* tokens and requests and any limits.                                     *)
(***************************************************************************)
EXTENDS Sessions, FiniteSetTheorems, TLAPS

-----------------------------------------------------------------------------
(* Types.                                                                  *)

LEMMA TypeStep == TypeOK /\ [Next]_vars => TypeOK'
<1> SUFFICES ASSUME TypeOK, [Next]_vars PROVE TypeOK'
  OBVIOUS
<1> USE DEF TypeOK, Attempt, RefreshToken, Refresh
<1>0. /\ NoAttempt \in Attempt
      /\ Idle \in Refresh
  BY LimitsAssumption DEF NoAttempt, Idle
<1>1. ASSUME NEW a \in Logins, NEW s \in Scopes, LoginBegin(a, s) PROVE TypeOK'
  BY <1>1 DEF LoginBegin
<1>2. ASSUME NEW a \in Logins, LoginFails(a) PROVE TypeOK'
  BY <1>2 DEF LoginFails
<1>3. ASSUME NEW a \in Logins, LoginPasses(a) PROVE TypeOK'
  BY <1>3 DEF LoginPasses
<1>f. ASSUME NEW a \in Logins PROVE Fresh(a) \in RefreshToken
  BY LimitsAssumption DEF Fresh
<1>4. ASSUME NEW a \in Logins, NEW n \in Tokens, TenantIssue(a, n) PROVE TypeOK'
  BY <1>4, <1>f DEF TenantIssue
<1>5. ASSUME NEW a \in Logins, NEW n \in Tokens, PlatformIssue(a, n) PROVE TypeOK'
  BY <1>5, <1>f DEF PlatformIssue
<1>6. ASSUME NEW a \in Logins, LoginDies(a) PROVE TypeOK'
  BY <1>6, <1>0 DEF LoginDies
<1>7. ASSUME NEW q \in Refreshes, NEW t \in Tokens, RefreshBegin(q, t) PROVE TypeOK'
  BY <1>7 DEF RefreshBegin
<1>8. ASSUME NEW q \in Refreshes, NEW t \in Tokens, ReuseDetected(q, t) PROVE TypeOK'
  BY <1>8 DEF ReuseDetected, LiveIn, Family
<1>9. ASSUME NEW q \in Refreshes, NEW n \in Tokens, RotateCommit(q, n) PROVE TypeOK'
  <2>1. Fresh(token[refresh[q].token].family).expires \in Nat
    BY LimitsAssumption DEF Fresh
  <2>2. token' \in [Tokens -> RefreshToken]
    <3>1. CASE refresh[q].token \in Tokens
      <4>1. Replaced(refresh[q].token, n) \in RefreshToken
        BY <3>1 DEF Replaced
      <4>2. Fresh(token[refresh[q].token].family) \in RefreshToken
        BY <3>1, LimitsAssumption DEF Fresh
      <4>. QED BY <1>9, <4>1, <4>2 DEF RotateCommit
    <3>2. refresh[q].token \in Tokens
      BY <1>9 DEF RotateCommit, Idle
    <3>. QED BY <3>1, <3>2
  <2>. QED BY <1>9, <2>2, <1>0 DEF RotateCommit
<1>10. ASSUME NEW q \in Refreshes, RevokeFamily(q) PROVE TypeOK'
  <2>1. ASSUME NEW t \in Tokens PROVE token'[t] \in RefreshToken
    BY <1>10 DEF RevokeFamily
  <2>2. token' \in [Tokens -> RefreshToken]
    BY <1>10, <2>1 DEF RevokeFamily
  <2>3. [state |-> "REPORTED", token |-> refresh[q].token, seen |-> {}] \in Refresh
    <3>1. refresh[q].token \in Tokens
      BY <1>10 DEF RevokeFamily, Idle
    <3>. QED BY <3>1
  <2>. QED BY <1>10, <2>2, <2>3 DEF RevokeFamily
<1>11. ASSUME NEW q \in Refreshes, RefreshEnds(q) PROVE TypeOK'
  BY <1>11, <1>0 DEF RefreshEnds
<1>12. CASE Tick
  BY <1>12, LimitsAssumption DEF Tick
<1>13. CASE UNCHANGED vars
  BY <1>13 DEF vars
<1>. QED
  BY <1>1, <1>2, <1>3, <1>4, <1>5, <1>6, <1>7, <1>8, <1>9, <1>10, <1>11, <1>12, <1>13
     DEF Next, LoginStep, RefreshStep

(* Every row and every request in flight is typed, in every reachable state. *)
THEOREM TypeCorrect == Spec => []TypeOK
<1>1. Init => TypeOK
  <2> SUFFICES ASSUME Init PROVE TypeOK
    OBVIOUS
  <2>1. NoAttempt \in Attempt /\ NotIssued \in RefreshToken /\ Idle \in Refresh
    BY LimitsAssumption DEF NoAttempt, Attempt, NotIssued, RefreshToken, Idle, Refresh
  <2>. QED BY <2>1, LimitsAssumption DEF Init, TypeOK
<1>. QED BY <1>1, TypeStep, PTL DEF Spec

-----------------------------------------------------------------------------
(* The limit on guesses.                                                   *)

Told(s, t) == {a \in Logins : /\ attempt[a].answer = "WRONG"
                              /\ attempt[a].scope = s
                              /\ t - Window <= attempt[a].at
                              /\ attempt[a].at <= t}

(* A sign-in that holds the lock of its scope still finds the count it     *)
(* made below the limit, because nobody else can add to it; and what it    *)
(* counted covers every window its own failure will fall into.             *)
AttemptsPast == \A a \in Logins : attempt[a].at <= clock

WrongIsStored == \A a \in Logins : attempt[a].answer = "WRONG" => attempt[a].row = "FAILED"

OneChecks == \A a, b \in Logins :
    /\ attempt[a].row = "CHECKING" /\ attempt[b].row = "CHECKING"
    /\ attempt[a].scope = attempt[b].scope
    => a = b

CountHolds == \A a \in Logins : attempt[a].row = "CHECKING" =>
    Cardinality(FailedSince(attempt[a].scope, attempt[a].at - Window)) < MaxAttempts

ToldBelow == \A s \in Scopes, t \in 0..MaxTime : Cardinality(Told(s, t)) <= MaxAttempts

ThrottleInv == AttemptsPast /\ WrongIsStored /\ OneChecks /\ CountHolds /\ ToldBelow

LEMMA ThrottleInit == Init => ThrottleInv
<1> SUFFICES ASSUME Init PROVE ThrottleInv
  OBVIOUS
<1>1. \A s \in Scopes, t \in 0..MaxTime : Told(s, t) = {}
  BY DEF Init, NoAttempt, Told
<1>2. \A s \in Scopes, t \in 0..MaxTime : Cardinality(Told(s, t)) = 0
  BY <1>1, FS_EmptySet
<1>3. \A a \in Logins : attempt[a].row = "NONE" /\ attempt[a].at = 0 /\ attempt[a].answer = "NONE"
  BY DEF Init, NoAttempt
<1>4. ToldBelow
  BY <1>2, LimitsAssumption DEF ToldBelow
<1>5. AttemptsPast
  BY <1>3 DEF Init, AttemptsPast
<1>6. WrongIsStored /\ OneChecks /\ CountHolds
  BY <1>3 DEF WrongIsStored, OneChecks, CountHolds
<1>. QED BY <1>4, <1>5, <1>6 DEF ThrottleInv

\* A step that lets no sign-in begin leaves at most one checking in a scope.
LEMMA StillOne ==
    ASSUME OneChecks,
           \A b \in Logins : attempt'[b].row = "CHECKING" => attempt'[b] = attempt[b]
    PROVE  OneChecks'
<1> SUFFICES ASSUME NEW a \in Logins, NEW b \in Logins,
                    attempt'[a].row = "CHECKING", attempt'[b].row = "CHECKING",
                    attempt'[a].scope = attempt'[b].scope
             PROVE  a = b
  BY DEF OneChecks
<1>1. attempt'[a] = attempt[a] /\ attempt'[b] = attempt[b]
  OBVIOUS
<1>. QED BY <1>1 DEF OneChecks

\* A step that leaves the failed and the told rows alone leaves the counts alone.
LEMMA SameFailures ==
    ASSUME \A a \in Logins :
              /\ attempt'[a].row = "FAILED" <=> attempt[a].row = "FAILED"
              /\ attempt[a].row = "FAILED" => attempt'[a] = attempt[a]
              /\ attempt'[a].answer = "WRONG" => attempt'[a].row = "FAILED"
              /\ attempt[a].answer = "WRONG" => attempt[a].row = "FAILED"
    PROVE  /\ \A s, since : FailedSince(s, since)' = FailedSince(s, since)
           /\ \A s, t : Told(s, t)' = Told(s, t)
<1>1. ASSUME NEW s, NEW since PROVE FailedSince(s, since)' = FailedSince(s, since)
  BY DEF FailedSince
<1>2. ASSUME NEW s, NEW t PROVE Told(s, t)' = Told(s, t)
  BY DEF Told
<1>. QED BY <1>1, <1>2

LEMMA ThrottleStep == TypeOK /\ ThrottleInv /\ [Next]_vars => ThrottleInv'
<1> SUFFICES ASSUME TypeOK, ThrottleInv, [Next]_vars PROVE ThrottleInv'
  OBVIOUS
<1> USE DEF TypeOK, Attempt
<1>1. ASSUME NEW a \in Logins, NEW s \in Scopes, LoginBegin(a, s) PROVE ThrottleInv'
  <2>1. /\ \A b \in Logins : b # a => attempt'[b] = attempt[b]
        /\ attempt'[a] = [row |-> "CHECKING", scope |-> s, at |-> clock, answer |-> "NONE"]
        /\ clock' = clock
    BY <1>1 DEF LoginBegin
  <2>2. /\ \A r, since : FailedSince(r, since)' = FailedSince(r, since)
        /\ \A r, t : Told(r, t)' = Told(r, t)
    BY <1>1, <2>1, SameFailures DEF LoginBegin, ThrottleInv, WrongIsStored
  <2>3. \A b \in Logins : attempt[b].row = "CHECKING" => attempt[b].scope # s
    BY <1>1 DEF LoginBegin, ScopeLocked
  <2>. QED BY <1>1, <2>1, <2>2, <2>3 DEF LoginBegin, ThrottleInv, AttemptsPast, WrongIsStored, OneChecks,
       CountHolds, ToldBelow
<1>2. ASSUME NEW a \in Logins, LoginFails(a) PROVE ThrottleInv'
  <2>1. /\ \A b \in Logins : b # a => attempt'[b] = attempt[b]
        /\ attempt'[a] = [row |-> "FAILED", scope |-> attempt[a].scope,
                          at |-> clock, answer |-> "WRONG"]
        /\ clock' = clock /\ attempt[a].row = "CHECKING"
    BY <1>2 DEF LoginFails
  <2>2. ASSUME NEW b \in Logins, attempt'[b].row = "CHECKING"
        PROVE  FailedSince(attempt[b].scope, attempt[b].at - Window)'
                  = FailedSince(attempt[b].scope, attempt[b].at - Window)
    <3>1. b # a /\ attempt[b].row = "CHECKING" /\ attempt[b].scope # attempt[a].scope
      BY <2>1, <2>2 DEF ThrottleInv, OneChecks
    <3>. QED BY <2>1, <3>1 DEF FailedSince
  <2>3. ASSUME NEW s \in Scopes, NEW t \in 0..MaxTime
        PROVE  Cardinality(Told(s, t)') <= MaxAttempts
    <3>1. CASE s = attempt[a].scope /\ t - Window <= clock /\ clock <= t
      <4> DEFINE F == FailedSince(attempt[a].scope, attempt[a].at - Window)
      <4>1. Told(s, t)' \subseteq F \cup {a}
        <5> SUFFICES ASSUME NEW b \in Logins, b # a, b \in Told(s, t)' PROVE b \in F
          BY DEF Told
        <5>1. attempt[b].answer = "WRONG" /\ attempt[b].scope = s /\ t - Window <= attempt[b].at
          BY <2>1 DEF Told
        <5>2. attempt[b].row = "FAILED"
          BY <5>1 DEF ThrottleInv, WrongIsStored
        <5>3. attempt[a].at <= clock /\ attempt[a].at \in Int /\ attempt[b].at \in Int
          BY DEF ThrottleInv, AttemptsPast
        <5>4. attempt[b].at >= attempt[a].at - Window
          BY <3>1, <5>1, <5>3, LimitsAssumption
        <5>. QED BY <3>1, <5>1, <5>2, <5>4 DEF FailedSince
      <4>2. IsFiniteSet(F)
        BY LoginsAssumption, FS_Subset DEF FailedSince
      <4>3. Cardinality(F) < MaxAttempts /\ Cardinality(F) \in Nat
        BY <2>1, <4>2, FS_CardinalityType DEF ThrottleInv, CountHolds
      <4>4. IsFiniteSet(F \cup {a}) /\ Cardinality(F \cup {a}) <= Cardinality(F) + 1
        <5>1. /\ IsFiniteSet(F \cup {a})
              /\ Cardinality(F \cup {a}) = IF a \in F THEN Cardinality(F) ELSE Cardinality(F) + 1
          BY <4>2, FS_AddElement, Zenon
        <5>. QED BY <4>3, <5>1
      <4>5. Cardinality(Told(s, t)') <= Cardinality(F \cup {a})
        BY <4>1, <4>4, FS_Subset
      <4>6. Cardinality(Told(s, t)') \in Nat /\ Cardinality(F \cup {a}) \in Nat
        BY <4>1, <4>4, FS_Subset, FS_CardinalityType
      <4>. QED BY <4>3, <4>4, <4>5, <4>6, LimitsAssumption
    <3>2. CASE ~(s = attempt[a].scope /\ t - Window <= clock /\ clock <= t)
      <4>1. attempt[a].answer = "NONE"
        BY <2>1 DEF ThrottleInv, WrongIsStored
      <4>2. Told(s, t)' = Told(s, t)
        BY <2>1, <3>2, <4>1 DEF Told
      <4>. QED BY <4>2 DEF ThrottleInv, ToldBelow
    <3>. QED BY <3>1, <3>2
  <2>4. \A b \in Logins : attempt'[b].row = "CHECKING" =>
           Cardinality(FailedSince(attempt[b].scope, attempt[b].at - Window)') < MaxAttempts
    BY <2>1, <2>2 DEF ThrottleInv, CountHolds
  <2>5. \A b \in Logins : attempt'[b].row = "CHECKING" =>
           /\ b # a
           /\ FailedSince(attempt[b].scope, attempt[b].at - Window)'
                = (FailedSince(attempt[b].scope, attempt[b].at - Window))'
           /\ attempt'[b] = attempt[b]
    BY <2>1
  <2>10. AttemptsPast'
    BY <2>1, <2>3, <2>4, <2>5, LimitsAssumption DEF ThrottleInv, AttemptsPast
  <2>11. WrongIsStored'
    BY <2>1, <2>3, <2>4, <2>5, LimitsAssumption DEF ThrottleInv, WrongIsStored
  <2>12. OneChecks'
    BY <2>5, StillOne DEF ThrottleInv
  <2>13. CountHolds'
    BY <2>1, <2>3, <2>4, <2>5, LimitsAssumption DEF ThrottleInv, CountHolds
  <2>14. ToldBelow'
    BY <2>1, <2>3, <2>4, <2>5, LimitsAssumption DEF ThrottleInv, ToldBelow
  <2>. QED BY <2>10, <2>11, <2>12, <2>13, <2>14 DEF ThrottleInv
<1>3. ASSUME NEW a \in Logins, NEW row \in {"PASSED", "OPENED"},
             attempt[a].row = "CHECKING", clock' = clock,
             attempt' = [attempt EXCEPT ![a] = [row |-> row, scope |-> attempt[a].scope,
                                                at |-> clock, answer |-> "NONE"]]
      PROVE  ThrottleInv'
  <2>0. /\ \A b \in Logins : b # a => attempt'[b] = attempt[b]
        /\ attempt'[a].row = row /\ attempt'[a].scope = attempt[a].scope
        /\ attempt'[a].at = clock /\ attempt'[a].answer = "NONE"
    BY <1>3
  <2>1. /\ \A r, since : FailedSince(r, since)' = FailedSince(r, since)
        /\ \A r, t : Told(r, t)' = Told(r, t)
    BY <1>3, <2>0, SameFailures DEF ThrottleInv, WrongIsStored
  <2>2. \A b \in Logins : attempt'[b].row = "CHECKING" => b # a
    BY <2>0
  <2>10. AttemptsPast'
    BY <1>3, <2>0, <2>1, <2>2, LimitsAssumption DEF ThrottleInv, AttemptsPast
  <2>11. WrongIsStored'
    BY <1>3, <2>0, <2>1, <2>2, LimitsAssumption DEF ThrottleInv, WrongIsStored
  <2>12. OneChecks'
    BY <2>0, <2>2, StillOne DEF ThrottleInv
  <2>13. CountHolds'
    BY <1>3, <2>0, <2>1, <2>2, LimitsAssumption DEF ThrottleInv, CountHolds
  <2>14. ToldBelow'
    BY <1>3, <2>0, <2>1, <2>2, LimitsAssumption DEF ThrottleInv, ToldBelow
  <2>. QED BY <2>10, <2>11, <2>12, <2>13, <2>14 DEF ThrottleInv
<1>4. ASSUME NEW a \in Logins, LoginPasses(a) PROVE ThrottleInv'
  BY <1>3, <1>4 DEF LoginPasses
<1>5. ASSUME NEW a \in Logins, NEW n \in Tokens, PlatformIssue(a, n) PROVE ThrottleInv'
  BY <1>3, <1>5 DEF PlatformIssue
<1>6. ASSUME NEW a \in Logins, NEW n \in Tokens, TenantIssue(a, n) PROVE ThrottleInv'
  <2>0. /\ \A b \in Logins : b # a => attempt'[b] = attempt[b]
        /\ attempt'[a].row = "OPENED" /\ attempt[a].row = "PASSED"
        /\ attempt'[a].at = attempt[a].at /\ attempt'[a].answer = attempt[a].answer
        /\ clock' = clock
    BY <1>6 DEF TenantIssue
  <2>1. /\ \A r, since : FailedSince(r, since)' = FailedSince(r, since)
        /\ \A r, t : Told(r, t)' = Told(r, t)
    BY <2>0, SameFailures DEF ThrottleInv, WrongIsStored
  <2>. QED BY <2>0, <2>1 DEF ThrottleInv, AttemptsPast, WrongIsStored, OneChecks, CountHolds,
       ToldBelow
<1>7. ASSUME NEW a \in Logins, LoginDies(a) PROVE ThrottleInv'
  <2>0. /\ \A b \in Logins : b # a => attempt'[b] = attempt[b]
        /\ attempt'[a].row = "NONE" /\ attempt'[a].at = 0 /\ attempt'[a].answer = "NONE"
        /\ attempt[a].row = "CHECKING" /\ clock' = clock
    BY <1>7 DEF LoginDies, NoAttempt
  <2>1. /\ \A r, since : FailedSince(r, since)' = FailedSince(r, since)
        /\ \A r, t : Told(r, t)' = Told(r, t)
    BY <2>0, SameFailures DEF ThrottleInv, WrongIsStored
  <2>10. AttemptsPast'
    BY <2>0, <2>1, LimitsAssumption DEF ThrottleInv, AttemptsPast
  <2>11. WrongIsStored'
    BY <2>0, <2>1, LimitsAssumption DEF ThrottleInv, WrongIsStored
  <2>12. OneChecks'
    <3>1. \A b \in Logins : attempt'[b].row = "CHECKING" => attempt'[b] = attempt[b]
      BY <2>0
    <3>. QED BY <3>1, StillOne DEF ThrottleInv
  <2>13. CountHolds'
    BY <2>0, <2>1, LimitsAssumption DEF ThrottleInv, CountHolds
  <2>14. ToldBelow'
    BY <2>0, <2>1, LimitsAssumption DEF ThrottleInv, ToldBelow
  <2>. QED BY <2>10, <2>11, <2>12, <2>13, <2>14 DEF ThrottleInv
<1>8. ASSUME UNCHANGED attempt, clock' \in 0..MaxTime, clock <= clock' PROVE ThrottleInv'
  <2>1. /\ \A r, since : FailedSince(r, since)' = FailedSince(r, since)
        /\ \A r, t : Told(r, t)' = Told(r, t)
    BY <1>8 DEF FailedSince, Told
  <2>2. \A a \in Logins : attempt[a].at \in Int /\ attempt[a].at <= clock
    BY DEF ThrottleInv, AttemptsPast
  <2>3. \A a \in Logins : attempt[a].at <= clock'
    BY <1>8, <2>2
  <2>. QED BY <1>8, <2>1, <2>3 DEF ThrottleInv, AttemptsPast, WrongIsStored, OneChecks, CountHolds,
       ToldBelow
<1>9. CASE Tick
  BY <1>8, <1>9, TypeStep, LimitsAssumption DEF Tick
<1>10. ASSUME NEW q \in Refreshes, RefreshStep(q) PROVE ThrottleInv'
  BY <1>8, <1>10, LimitsAssumption
     DEF RefreshStep, RefreshBegin, ReuseDetected, RotateCommit, RevokeFamily, RefreshEnds
<1>11. CASE UNCHANGED vars
  BY <1>8, <1>11, LimitsAssumption DEF vars
<1>. QED
  BY <1>1, <1>2, <1>4, <1>5, <1>6, <1>7, <1>9, <1>10, <1>11 DEF Next, LoginStep

(* No window has more wrong passwords answered for one e-mail and address  *)
(* than the limit, whatever the limit, the window and the overlap.         *)
THEOREM Throttled == Spec => []GuessesThrottled
<1>1. ThrottleInv => GuessesThrottled
  BY DEF ThrottleInv, ToldBelow, GuessesThrottled, Told
<1>. QED BY <1>1, ThrottleInit, ThrottleStep, TypeCorrect, PTL DEF Spec

-----------------------------------------------------------------------------
(* The chain of a family.                                                  *)

\* A token not yet issued belongs to no family and replaces nothing.
FreeIsNew == \A t \in Tokens :
    /\ token[t].state = "FREE" <=> token[t].family = NoLogin
    /\ token[t].state = "FREE" => token[t].next = NoToken

\* A replaced token is revoked, and its successor is of its family.
Successors == \A t \in Tokens : token[t].next # NoToken =>
    /\ token[t].state = "REVOKED"
    /\ token[token[t].next].state # "FREE"
    /\ token[token[t].next].family = token[t].family

ReplacedOnce == \A t, u \in Tokens :
    t # u /\ token[t].next # NoToken => token[t].next # token[u].next

NewestUnique == \A t, u \in Tokens :
    /\ token[t].state # "FREE" /\ token[u].state # "FREE"
    /\ token[t].family = token[u].family
    /\ token[t].next = NoToken /\ token[u].next = NoToken
    => t = u

\* The rows that requests in flight have locked are as they found them.
LocksHold ==
    /\ \A p, q \in Refreshes :
          /\ refresh[p].state \in {"ROTATING", "REVOKING"}
          /\ refresh[q].state \in {"ROTATING", "REVOKING"}
          /\ refresh[p].token = refresh[q].token
          => p = q
    /\ \A q \in Refreshes : refresh[q].state = "ROTATING" =>
          token[refresh[q].token].state = "LIVE"
    /\ \A q \in Refreshes : refresh[q].state = "REVOKING" =>
          /\ token[refresh[q].token].state = "REVOKED"
          /\ refresh[q].seen \subseteq Family(token[refresh[q].token].family)

\* Only a sign-in that has issued its first pair has a family.
FamilyOpened == \A t \in Tokens, a \in Logins :
    token[t].family = a => attempt[a].row = "OPENED"

ChainInv == /\ FreeIsNew /\ Successors /\ ReplacedOnce /\ NewestUnique
            /\ LocksHold /\ FamilyOpened

LEMMA ChainInit == Init => ChainInv
<1> SUFFICES ASSUME Init PROVE ChainInv
  OBVIOUS
<1>1. \A t \in Tokens : /\ token[t].state = "FREE" /\ token[t].family = NoLogin
                        /\ token[t].next = NoToken
  BY DEF Init, NotIssued
<1>2. \A q \in Refreshes : refresh[q].state = "IDLE"
  BY DEF Init, Idle
<1>3. FreeIsNew /\ Successors
  BY <1>1 DEF FreeIsNew, Successors
<1>4. ReplacedOnce /\ NewestUnique
  BY <1>1 DEF ReplacedOnce, NewestUnique
<1>5. LocksHold
  BY <1>2 DEF LocksHold
<1>6. FamilyOpened
  BY <1>1, LoginsAssumption DEF FamilyOpened
<1>. QED BY <1>3, <1>4, <1>5, <1>6 DEF ChainInv

(* The first pair of a sign-in starts a family that had no token. *)
LEMMA IssueKeepsChain ==
    ASSUME TypeOK, ChainInv, NEW a \in Logins, NEW n \in Tokens,
           attempt[a].row # "OPENED", token[n].state = "FREE",
           attempt'[a].row = "OPENED",
           \A b \in Logins : b # a => attempt'[b] = attempt[b],
           token' = [token EXCEPT ![n] = Fresh(a)],
           UNCHANGED refresh
    PROVE  ChainInv'
<1>1. /\ \A t \in Tokens : t # n => token'[t] = token[t]
      /\ token'[n].state = "LIVE" /\ token'[n].family = a /\ token'[n].next = NoToken
  BY DEF TypeOK, Fresh
<1>2. \A t \in Tokens : token[t].family # a
  BY DEF ChainInv, FamilyOpened
<1>3. \A t \in Tokens : token[t].next # n
  BY TokensAssumption DEF ChainInv, Successors
<1>4. \A t \in Tokens : token[t].next # NoToken => token[t].next \in Tokens
  BY DEF TypeOK, RefreshToken
<1>5. FreeIsNew'
  BY <1>1, LoginsAssumption DEF ChainInv, FreeIsNew
<1>6. Successors'
  BY <1>1, <1>3, <1>4 DEF ChainInv, Successors
<1>7. ReplacedOnce'
  <2> SUFFICES ASSUME NEW t \in Tokens, NEW u \in Tokens, t # u, token'[t].next # NoToken
               PROVE  token'[t].next # token'[u].next
    BY DEF ReplacedOnce
  <2>. QED BY <1>1 DEF ChainInv, ReplacedOnce
<1>8. NewestUnique'
  <2> SUFFICES ASSUME NEW t \in Tokens, NEW u \in Tokens,
                      token'[t].state # "FREE", token'[u].state # "FREE",
                      token'[t].family = token'[u].family,
                      token'[t].next = NoToken, token'[u].next = NoToken
               PROVE  t = u
    BY DEF NewestUnique
  <2>. QED BY <1>1, <1>2 DEF ChainInv, NewestUnique
<1>9. LocksHold'
  <2>1. \A q \in Refreshes : refresh[q].state \in {"ROTATING", "REVOKING"} =>
           refresh[q].token \in Tokens /\ refresh[q].token # n
    BY DEF TypeOK, Refresh, Idle, ChainInv, LocksHold
  <2>3. \A q \in Refreshes : refresh[q].state = "REVOKING" =>
           token[refresh[q].token].family # NoLogin
    BY <2>1 DEF ChainInv, FreeIsNew, LocksHold
  <2>4. \A q \in Refreshes : refresh[q].state = "REVOKING" =>
           refresh[q].seen \subseteq Family(token[refresh[q].token].family)'
    <3> SUFFICES ASSUME NEW q \in Refreshes, refresh[q].state = "REVOKING"
                 PROVE  refresh[q].seen \subseteq Family(token[refresh[q].token].family)'
      OBVIOUS
    <3>1. refresh[q].seen \subseteq Family(token[refresh[q].token].family)
      BY DEF ChainInv, LocksHold
    <3>2. token'[refresh[q].token].family = token[refresh[q].token].family
      BY <1>1, <2>1
    <3>3. ASSUME NEW t \in refresh[q].seen
          PROVE  t \in Tokens /\ token'[t].family = token'[refresh[q].token].family
      BY <1>1, <2>3, <3>1, <3>2 DEF Family, ChainInv, FreeIsNew
    <3>. QED BY <3>3 DEF Family
  <2>. QED BY <1>1, <2>1, <2>4 DEF ChainInv, LocksHold
<1>10. FamilyOpened'
  BY <1>1 DEF ChainInv, FamilyOpened
<1>. QED BY <1>5, <1>6, <1>7, <1>8, <1>9, <1>10 DEF ChainInv

(* A rotation revokes the newest token of its family and appends one. *)
LEMMA RotateKeepsChain ==
    ASSUME TypeOK, ChainInv, NEW q \in Refreshes, NEW n \in Tokens, RotateCommit(q, n)
    PROVE  ChainInv'
<1> DEFINE old == refresh[q].token
           f == token[old].family
<1>1. old \in Tokens /\ refresh[q].state = "ROTATING"
  BY DEF RotateCommit, TypeOK, Refresh, Idle
<1>2. token[old].state = "LIVE" /\ token[old].next = NoToken /\ n # old
  BY <1>1 DEF ChainInv, LocksHold, Successors, RotateCommit
<1>3. f # NoLogin /\ f \in Logins
  BY <1>1, <1>2 DEF ChainInv, FreeIsNew, TypeOK, RefreshToken
<1>4. /\ \A t \in Tokens : t # n /\ t # old => token'[t] = token[t]
      /\ token'[n].state = "LIVE" /\ token'[n].family = f /\ token'[n].next = NoToken
      /\ token'[old].state = "REVOKED" /\ token'[old].family = f /\ token'[old].next = n
      /\ token[n].state = "FREE"
  BY <1>1, <1>2 DEF RotateCommit, TypeOK, Fresh, Replaced
<1>5. \A t \in Tokens : token[t].next # n
  BY TokensAssumption, <1>4 DEF ChainInv, Successors
<1>6. \A t \in Tokens : token[t].next # NoToken => token[t].next \in Tokens
  BY DEF TypeOK, RefreshToken
<1>7. \A p \in Refreshes : /\ p # q => refresh'[p] = refresh[p]
                           /\ refresh'[q] = Idle
  BY DEF RotateCommit, TypeOK
<1>8. FreeIsNew'
  BY <1>3, <1>4 DEF ChainInv, FreeIsNew
<1>9. Successors'
  <2> SUFFICES ASSUME NEW t \in Tokens, token'[t].next # NoToken
               PROVE  /\ token'[t].state = "REVOKED"
                      /\ token'[token'[t].next].state # "FREE"
                      /\ token'[token'[t].next].family = token'[t].family
    BY DEF Successors
  <2>1. CASE t = old
    BY <1>4, <2>1
  <2>2. CASE t # old
    <3>1. t # n /\ token'[t] = token[t]
      BY <1>4, <2>2
    <3>2. token[t].next \in Tokens /\ token[t].next # n
      BY <1>5, <1>6, <3>1
    <3>3. /\ token[t].state = "REVOKED" /\ token[token[t].next].state # "FREE"
          /\ token[token[t].next].family = token[t].family
      BY <3>1 DEF ChainInv, Successors
    <3>. QED BY <1>4, <3>1, <3>2, <3>3
  <2>. QED BY <2>1, <2>2
<1>10. ReplacedOnce'
  <2> SUFFICES ASSUME NEW t \in Tokens, NEW u \in Tokens, t # u, token'[t].next # NoToken
               PROVE  token'[t].next # token'[u].next
    BY DEF ReplacedOnce
  <2>. QED BY <1>4, <1>5 DEF ChainInv, ReplacedOnce
<1>11. NewestUnique'
  <2>1. ASSUME NEW t \in Tokens, token'[t].state # "FREE", token'[t].family = f,
               token'[t].next = NoToken
        PROVE  t = n
    BY <1>1, <1>2, <1>4, <2>1, TokensAssumption DEF ChainInv, NewestUnique
  <2> SUFFICES ASSUME NEW t \in Tokens, NEW u \in Tokens,
                      token'[t].state # "FREE", token'[u].state # "FREE",
                      token'[t].family = token'[u].family,
                      token'[t].next = NoToken, token'[u].next = NoToken
               PROVE  t = u
    BY DEF NewestUnique
  <2>2. CASE token'[t].family = f
    BY <2>1, <2>2
  <2>3. CASE token'[t].family # f
    BY <1>4, <2>3 DEF ChainInv, NewestUnique
  <2>. QED BY <2>2, <2>3
<1>12. LocksHold'
  <2>1. \A p \in Refreshes : refresh'[p].state \in {"ROTATING", "REVOKING"} =>
           p # q /\ refresh'[p] = refresh[p]
    BY <1>7 DEF Idle
  <2>2. \A p \in Refreshes : p # q /\ refresh[p].state \in {"ROTATING", "REVOKING"} =>
           refresh[p].token \in Tokens /\ refresh[p].token # n /\ refresh[p].token # old
    BY <1>1, <1>4 DEF TypeOK, Refresh, Idle, ChainInv, LocksHold
  <2>3. ASSUME NEW p \in Refreshes, refresh'[p].state = "REVOKING"
        PROVE  refresh'[p].seen \subseteq Family(token[refresh[p].token].family)'
    <3>1. /\ refresh'[p] = refresh[p] /\ refresh[p].state = "REVOKING"
          /\ refresh[p].token \in Tokens /\ token'[refresh[p].token] = token[refresh[p].token]
      BY <1>4, <2>1, <2>2, <2>3
    <3>2. /\ refresh[p].seen \subseteq Family(token[refresh[p].token].family)
          /\ token[refresh[p].token].family # NoLogin
      BY <3>1 DEF ChainInv, LocksHold, FreeIsNew
    <3>3. ASSUME NEW t \in refresh[p].seen
          PROVE  t \in Tokens /\ token'[t].family = token'[refresh[p].token].family
      BY <1>4, <3>1, <3>2 DEF Family, ChainInv, FreeIsNew
    <3>. QED BY <3>1, <3>3 DEF Family
  <2>. QED BY <1>4, <2>1, <2>2, <2>3 DEF ChainInv, LocksHold
<1>13. FamilyOpened'
  BY <1>1, <1>4 DEF ChainInv, FamilyOpened, RotateCommit
<1>. QED BY <1>8, <1>9, <1>10, <1>11, <1>12, <1>13 DEF ChainInv

(* Revoking rows that no request has locked leaves the chain as it is. *)
LEMMA RevokeKeepsChain ==
    ASSUME TypeOK, ChainInv, NEW q \in Refreshes, RevokeFamily(q)
    PROVE  ChainInv'
<1>1. \A t \in Tokens : /\ token'[t].family = token[t].family
                        /\ token'[t].next = token[t].next
                        /\ token'[t].state = "FREE" <=> token[t].state = "FREE"
                        /\ token[t].state = "REVOKED" => token'[t].state = "REVOKED"
                        /\ Locked(t) => token'[t] = token[t]
  <2> SUFFICES ASSUME NEW t \in Tokens
               PROVE  /\ token'[t].family = token[t].family
                      /\ token'[t].next = token[t].next
                      /\ token'[t].state = "FREE" <=> token[t].state = "FREE"
                      /\ token[t].state = "REVOKED" => token'[t].state = "REVOKED"
                      /\ Locked(t) => token'[t] = token[t]
    OBVIOUS
  <2>1. token[t] \in RefreshToken
    BY DEF TypeOK
  <2>2. \/ token'[t] = token[t]
        \/ /\ token'[t] = [token[t] EXCEPT !.state = "REVOKED"]
           /\ token[t].state = "LIVE" /\ ~Locked(t)
    BY DEF RevokeFamily
  <2>. QED BY <2>1, <2>2 DEF RefreshToken
<1>2. \A t \in Tokens : token[t].next # NoToken => token[t].next \in Tokens
  BY DEF TypeOK, RefreshToken
<1>3. \A p \in Refreshes : refresh'[p].state \in {"ROTATING", "REVOKING"} =>
         p # q /\ refresh'[p] = refresh[p] /\ refresh[p].token \in Tokens
  BY DEF RevokeFamily, TypeOK, Refresh, Idle
<1>4. FreeIsNew' /\ Successors'
  BY <1>1, <1>2 DEF ChainInv, FreeIsNew, Successors
<1>5. ReplacedOnce' /\ NewestUnique'
  BY <1>1 DEF ChainInv, ReplacedOnce, NewestUnique
<1>6. LocksHold'
  <2>1. \A p \in Refreshes : refresh'[p].state = "ROTATING" =>
           token'[refresh'[p].token].state = "LIVE"
    <3> SUFFICES ASSUME NEW p \in Refreshes, refresh'[p].state = "ROTATING"
                 PROVE  token'[refresh'[p].token].state = "LIVE"
      OBVIOUS
    <3>1. refresh[p].state = "ROTATING" /\ refresh[p].token \in Tokens /\ refresh'[p] = refresh[p]
      BY <1>3
    <3>2. Locked(refresh[p].token)
      BY <3>1 DEF Locked
    <3>. QED BY <1>1, <3>1, <3>2 DEF ChainInv, LocksHold
  <2>2. \A p \in Refreshes : refresh'[p].state = "REVOKING" =>
           /\ token'[refresh'[p].token].state = "REVOKED"
           /\ refresh'[p].seen \subseteq Family(token[refresh[p].token].family)'
    BY <1>1, <1>3 DEF ChainInv, LocksHold, Family
  <2>. QED BY <1>3, <2>1, <2>2 DEF ChainInv, LocksHold
<1>7. FamilyOpened'
  BY <1>1 DEF ChainInv, FamilyOpened, RevokeFamily
<1>. QED BY <1>4, <1>5, <1>6, <1>7 DEF ChainInv

(* A step that writes no token, and locks at most a row nobody has locked. *)
LEMMA RestKeepsChain ==
    ASSUME TypeOK, ChainInv, UNCHANGED token, LocksHold',
           \A a \in Logins : attempt[a].row = "OPENED" => attempt'[a].row = "OPENED"
    PROVE  ChainInv'
<1>1. FreeIsNew' /\ Successors'
  BY DEF ChainInv, FreeIsNew, Successors
<1>2. ReplacedOnce' /\ NewestUnique'
  BY DEF ChainInv, ReplacedOnce, NewestUnique
<1>3. FamilyOpened'
  BY DEF ChainInv, FamilyOpened
<1>. QED BY <1>1, <1>2, <1>3 DEF ChainInv

LEMMA ChainStep == TypeOK /\ ChainInv /\ [Next]_vars => ChainInv'
<1> SUFFICES ASSUME TypeOK, ChainInv, [Next]_vars PROVE ChainInv'
  OBVIOUS
<1>0. ASSUME UNCHANGED <<token, refresh>>
      PROVE  LocksHold'
  BY <1>0 DEF ChainInv, LocksHold, Family
<1>1. ASSUME NEW a \in Logins, NEW s \in Scopes, LoginBegin(a, s) PROVE ChainInv'
  BY <1>0, <1>1, RestKeepsChain DEF LoginBegin, TypeOK
<1>2. ASSUME NEW a \in Logins, LoginFails(a) PROVE ChainInv'
  BY <1>0, <1>2, RestKeepsChain DEF LoginFails, TypeOK
<1>3. ASSUME NEW a \in Logins, LoginPasses(a) PROVE ChainInv'
  BY <1>0, <1>3, RestKeepsChain DEF LoginPasses, TypeOK
<1>4. ASSUME NEW a \in Logins, LoginDies(a) PROVE ChainInv'
  BY <1>0, <1>4, RestKeepsChain DEF LoginDies, TypeOK
<1>5. ASSUME NEW a \in Logins, NEW n \in Tokens, TenantIssue(a, n) PROVE ChainInv'
  BY <1>5, IssueKeepsChain DEF TenantIssue, TypeOK, Attempt
<1>6. ASSUME NEW a \in Logins, NEW n \in Tokens, PlatformIssue(a, n) PROVE ChainInv'
  BY <1>6, IssueKeepsChain DEF PlatformIssue, TypeOK, Attempt
<1>7. ASSUME NEW q \in Refreshes, NEW t \in Tokens, RefreshBegin(q, t) PROVE ChainInv'
  <2>1. /\ \A p \in Refreshes : p # q => refresh'[p] = refresh[p]
        /\ refresh'[q].state = "ROTATING" /\ refresh'[q].token = t
        /\ token[t].state = "LIVE" /\ ~Locked(t) /\ token' = token
    BY <1>7 DEF RefreshBegin, TypeOK
  <2>2. \A p \in Refreshes : refresh[p].state \in {"ROTATING", "REVOKING"} =>
           refresh[p].token # t
    BY <2>1 DEF Locked
  <2>3. LocksHold'
    BY <2>1, <2>2 DEF ChainInv, LocksHold, Family
  <2>. QED BY <1>7, <2>3, RestKeepsChain DEF RefreshBegin
<1>8. ASSUME NEW q \in Refreshes, NEW t \in Tokens, ReuseDetected(q, t) PROVE ChainInv'
  <2>1. /\ \A p \in Refreshes : p # q => refresh'[p] = refresh[p]
        /\ refresh'[q].state = "REVOKING" /\ refresh'[q].token = t
        /\ refresh'[q].seen = LiveIn(token[t].family)
        /\ token[t].state = "REVOKED" /\ ~Locked(t) /\ token' = token
    BY <1>8 DEF ReuseDetected, TypeOK
  <2>2. \A p \in Refreshes : refresh[p].state \in {"ROTATING", "REVOKING"} =>
           refresh[p].token # t
    BY <2>1 DEF Locked
  <2>3. LocksHold'
    BY <2>1, <2>2 DEF ChainInv, LocksHold, LiveIn, Family
  <2>. QED BY <1>8, <2>3, RestKeepsChain DEF ReuseDetected
<1>9. ASSUME NEW q \in Refreshes, NEW n \in Tokens, RotateCommit(q, n) PROVE ChainInv'
  BY <1>9, RotateKeepsChain
<1>10. ASSUME NEW q \in Refreshes, RevokeFamily(q) PROVE ChainInv'
  BY <1>10, RevokeKeepsChain
<1>11. ASSUME NEW q \in Refreshes, RefreshEnds(q) PROVE ChainInv'
  <2>1. /\ \A p \in Refreshes : p # q => refresh'[p] = refresh[p]
        /\ refresh'[q].state = "IDLE" /\ token' = token
    BY <1>11 DEF RefreshEnds, TypeOK, Idle
  <2>2. LocksHold'
    BY <2>1 DEF ChainInv, LocksHold, Family
  <2>. QED BY <1>11, <2>2, RestKeepsChain DEF RefreshEnds
<1>12. CASE Tick
  BY <1>0, <1>12, RestKeepsChain DEF Tick
<1>13. CASE UNCHANGED vars
  BY <1>0, <1>13, RestKeepsChain DEF vars
<1>. QED
  BY <1>1, <1>2, <1>3, <1>4, <1>5, <1>6, <1>7, <1>8, <1>9, <1>10, <1>11, <1>12, <1>13
     DEF Next, LoginStep, RefreshStep

(* The tokens of every family are one chain with at most its newest token  *)
(* live, however refreshes of the same tokens overlap.                     *)
THEOREM ChainSafe == Spec => []OneChain
<1>1. ChainInv => OneChain
  BY DEF ChainInv, ReplacedOnce, NewestUnique, Successors, OneChain
<1>. QED BY <1>1, ChainInit, ChainStep, TypeCorrect, PTL DEF Spec

-----------------------------------------------------------------------------
(* The promise of a session.                                               *)

SessionMap == [f \in Logins |-> Session(f)]

\* A family none of whose tokens changes is the same session.
LEMMA SameSession ==
    ASSUME NEW f, \A t \in Tokens : token[t].family = f \/ token'[t].family = f
                                    => token'[t] = token[t]
    PROVE  Session(f)' = Session(f)
<1>1. Family(f)' = Family(f)
  BY DEF Family
<1>2. LiveIn(f)' = LiveIn(f)
  BY <1>1 DEF LiveIn, Family
<1>. QED BY <1>1, <1>2 DEF Session

\* A step that moves at most one session, and moves it forward, is allowed.
LEMMA OneMoves ==
    ASSUME NEW f \in Logins,
           \A g \in Logins \ {f} : Session(g)' = Session(g),
           \/ Session(f)' = Session(f)
           \/ Session(f) = "NONE" /\ Session(f)' = "OPEN"
           \/ Session(f) = "OPEN" /\ Session(f)' = "CLOSED"
    PROVE  [Promise!Next]_SessionMap
<1>1. CASE Session(f)' = Session(f)
  BY <1>1 DEF SessionMap
<1>2. ASSUME NEW to, Session(f)' = to
      PROVE  SessionMap' = [SessionMap EXCEPT ![f] = to]
  BY <1>2 DEF SessionMap
<1>3. SessionMap[f] = Session(f)
  BY DEF SessionMap
<1>. QED BY <1>1, <1>2, <1>3 DEF Promise!Next, Promise!Move, SessionMap

LEMMA IssueOpens ==
    ASSUME TypeOK, ChainInv, NEW a \in Logins, NEW n \in Tokens,
           attempt[a].row # "OPENED", token[n].state = "FREE",
           token' = [token EXCEPT ![n] = Fresh(a)]
    PROVE  [Promise!Next]_SessionMap
<1>1. /\ \A t \in Tokens : t # n => token'[t] = token[t]
      /\ token'[n].state = "LIVE" /\ token'[n].family = a /\ token[n].family = NoLogin
  BY DEF TypeOK, Fresh, ChainInv, FreeIsNew
<1>2. \A g \in Logins \ {a} : Session(g)' = Session(g)
  BY <1>1, SameSession, LoginsAssumption
<1>3. Family(a) = {}
  BY DEF ChainInv, FamilyOpened, Family
<1>4. n \in Family(a)' /\ n \in LiveIn(a)'
  BY <1>1 DEF Family, LiveIn
<1>5. Session(a) = "NONE" /\ Session(a)' = "OPEN"
  BY <1>3, <1>4 DEF Session
<1>. QED BY <1>2, <1>5, OneMoves

LEMMA RotateKeepsSession ==
    ASSUME TypeOK, ChainInv, NEW q \in Refreshes, NEW n \in Tokens, RotateCommit(q, n)
    PROVE  [Promise!Next]_SessionMap
<1>1. PICK old \in Tokens : old = refresh[q].token /\ token[old].state = "LIVE"
  BY DEF RotateCommit, TypeOK, Refresh, Idle, ChainInv, LocksHold
<1>2. PICK f \in Logins : token[old].family = f
  BY <1>1 DEF TypeOK, RefreshToken, ChainInv, FreeIsNew
<1>3. /\ \A t \in Tokens : t # n /\ t # old => token'[t] = token[t]
      /\ token'[n].state = "LIVE" /\ token'[n].family = f /\ n # old
      /\ token[n].family = NoLogin /\ token'[old].family = f
  BY <1>1, <1>2 DEF RotateCommit, TypeOK, Fresh, Replaced, ChainInv, FreeIsNew
<1>4. \A g \in Logins \ {f} : Session(g)' = Session(g)
  BY <1>2, <1>3, SameSession, LoginsAssumption
<1>5. Session(f) = "OPEN"
  <2>1. old \in Family(f) /\ old \in LiveIn(f)
    BY <1>1, <1>2 DEF Family, LiveIn
  <2>. QED BY <2>1 DEF Session
<1>6. Session(f)' = "OPEN"
  <2>1. n \in Family(f)' /\ n \in LiveIn(f)'
    BY <1>3 DEF Family, LiveIn
  <2>. QED BY <2>1 DEF Session
<1>. QED BY <1>4, <1>5, <1>6, OneMoves

(* A revocation writes rows of one family only, and closes it or not. *)
LEMMA RevokeCloses ==
    ASSUME TypeOK, ChainInv, NEW q \in Refreshes, RevokeFamily(q)
    PROVE  [Promise!Next]_SessionMap
<1>1. PICK t \in Tokens : t = refresh[q].token /\ token[t].state = "REVOKED"
  BY DEF RevokeFamily, TypeOK, Refresh, Idle, ChainInv, LocksHold
<1>2. PICK f \in Logins : token[t].family = f
  BY <1>1 DEF TypeOK, RefreshToken, ChainInv, FreeIsNew
<1>3. refresh[q].seen \subseteq Family(f)
  BY <1>1, <1>2 DEF ChainInv, LocksHold, RevokeFamily
<1>4. \A u \in Tokens : /\ token'[u].family = token[u].family
                        /\ token[u].family # f => token'[u] = token[u]
                        /\ token'[u].state = "LIVE" => token[u].state = "LIVE"
  <2> SUFFICES ASSUME NEW u \in Tokens
               PROVE  /\ token'[u].family = token[u].family
                      /\ token[u].family # f => token'[u] = token[u]
                      /\ token'[u].state = "LIVE" => token[u].state = "LIVE"
    OBVIOUS
  <2>1. token[u] \in RefreshToken
    BY DEF TypeOK
  <2>2. \/ token'[u] = token[u]
        \/ u \in refresh[q].seen /\ token'[u] = [token[u] EXCEPT !.state = "REVOKED"]
    BY DEF RevokeFamily
  <2>. QED BY <1>3, <2>1, <2>2 DEF Family, RefreshToken
<1>5. \A g \in Logins \ {f} : Session(g)' = Session(g)
  BY <1>4, SameSession
<1>6. Family(f)' = Family(f) /\ LiveIn(f)' \subseteq LiveIn(f) /\ Family(f) # {}
  BY <1>1, <1>2, <1>4 DEF Family, LiveIn
<1>7. \/ Session(f)' = Session(f)
      \/ Session(f) = "OPEN" /\ Session(f)' = "CLOSED"
  BY <1>6 DEF Session
<1>. QED BY <1>5, <1>7, OneMoves

LEMMA SessionStep == TypeOK /\ ChainInv /\ [Next]_vars => [Promise!Next]_SessionMap
<1> SUFFICES ASSUME TypeOK, ChainInv, [Next]_vars PROVE [Promise!Next]_SessionMap
  OBVIOUS
<1>1. ASSUME UNCHANGED token PROVE [Promise!Next]_SessionMap
  BY <1>1 DEF SessionMap, Session, Family, LiveIn
<1>2. ASSUME NEW a \in Logins, LoginStep(a) PROVE [Promise!Next]_SessionMap
  <2>1. ASSUME NEW n \in Tokens, TenantIssue(a, n) \/ PlatformIssue(a, n)
        PROVE  [Promise!Next]_SessionMap
    BY <2>1, IssueOpens DEF TenantIssue, PlatformIssue
  <2>. QED BY <1>1, <1>2, <2>1 DEF LoginStep, LoginBegin, LoginFails, LoginPasses, LoginDies
<1>3. ASSUME NEW q \in Refreshes, RefreshStep(q) PROVE [Promise!Next]_SessionMap
  BY <1>1, <1>3, RotateKeepsSession, RevokeCloses
     DEF RefreshStep, RefreshBegin, ReuseDetected, RefreshEnds
<1>. QED BY <1>1, <1>2, <1>3 DEF Next, Tick, vars

(* Rotation and revocation implement the promise: a session is opened once,
   stays open while its newest token is live, and never opens again. *)
THEOREM KeepsPromise == Spec => SessionKept
<1>1. Init => Promise!Init
  <2> SUFFICES ASSUME Init PROVE Promise!Init
    OBVIOUS
  <2>1. \A f \in Logins : Family(f) = {}
    BY LoginsAssumption DEF Init, NotIssued, Family
  <2>. QED BY <2>1 DEF Promise!Init, Session
<1>2. TypeOK /\ ChainInv /\ [Next]_vars => [Promise!Next]_[f \in Logins |-> Session(f)]
  BY SessionStep DEF SessionMap
<1>. QED
  BY <1>1, <1>2, ChainInit, ChainStep, TypeCorrect, PTL DEF Spec, SessionKept, Promise!Spec
=============================================================================
