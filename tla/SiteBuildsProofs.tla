-------------------------- MODULE SiteBuildsProofs --------------------------
(***************************************************************************)
(* Proofs about SiteBuilds, for every set of requests, every order of their *)
(* UUIDs and every number of attempts and revisions.                       *)
(***************************************************************************)
EXTENDS SiteBuilds, TLAPS

\* A publication or a manual rebuild that writes a PENDING request.
Asks(r) == PublicContentChanged(r) \/ ManualRebuild(r) \/ EnqueueInsert(r)

\* A failed request is superseded by the PENDING one.
Merges(r) ==
    \E newer \in WithStatus("PENDING") :
        request' = [request EXCEPT
                      ![newer].target = Later(request[newer].target, request[r].target),
                      ![r].status = "SUPERSEDED",
                      ![r].elapsed = FALSE]

-----------------------------------------------------------------------------
(* Every handler writes one or two rows.  Their types, once and for all.   *)

LEMMA LaterType ==
    ASSUME NEW m \in Null..MaxRevision, NEW n \in Null..MaxRevision
    PROVE  /\ Later(m, n) \in Null..MaxRevision
           /\ Later(m, n) >= m /\ Later(m, n) >= n
           /\ Later(m, n) = m \/ Later(m, n) = n
  BY DEF Later, Null

\* A claim writes a well-typed row: the count of attempts is saturated.
LEMMA StartedType ==
    ASSUME NEW row \in BuildRequest
    PROVE  Started(row) \in BuildRequest
<1> DEFINE tries == IF row.attempts < MaxAttempts THEN row.attempts + 1 ELSE MaxAttempts
<1>1. row.attempts \in 0..MaxAttempts
  BY DEF BuildRequest
<1>2. tries \in 0..MaxAttempts
  BY <1>1, MaxAttemptsAssumption
<1>3. Started(row) = [row EXCEPT !.status = "RUNNING", !.elapsed = FALSE, !.attempts = tries]
  BY DEF Started
<1> HIDE DEF tries
<1>4. QED
  BY <1>2, <1>3 DEF BuildRequest, Outstanding

\* _enqueue writes one row: the only PENDING one, or a new one if there is none.
LEMMA AskRows ==
    ASSUME TypeOK, Indexed, NEW r \in Requests, Asks(r)
    PROVE  /\ content' \in content..MaxRevision /\ latest' = r
           /\ UNCHANGED <<deployed, enabled, returning, workers, builder>>
           /\ inserting' = "NO"
           /\ request' \in [Requests -> BuildRequest]
           /\ \A s \in Requests \ {r} : request'[s] = request[s]
           /\ request'[r].status = "PENDING" /\ request'[r].elapsed
           /\ request'[r].actual = IF request[r].status = "PENDING" THEN request[r].actual ELSE Null
           /\ request'[r].target =
                  IF request[r].status = "PENDING" THEN Later(request[r].target, content')
                  ELSE content'
           /\ \/ request[r].status = "PENDING"
              \/ request[r].status = "ABSENT" /\ WithStatus("PENDING") = {}
<1>1. /\ request \in [Requests -> BuildRequest] /\ content \in 0..MaxRevision
      /\ request[r].target \in 0..MaxRevision
  BY DEF TypeOK, BuildRequest
<1>2. CASE PublicContentChanged(r) \/ ManualRebuild(r)
  <2>1. content' \in content..MaxRevision /\ Retarget(r, content')
    BY <1>1, <1>2, MaxRevisionAssumption DEF PublicContentChanged, ManualRebuild, Retarget
  <2> DEFINE t == Later(request[r].target, content')
  <2>2. t \in 0..MaxRevision
    BY <1>1, <2>1, MaxRevisionAssumption DEF Later
  <2>3. /\ request[r].status = "PENDING" /\ latest' = r
        /\ request' = [request EXCEPT ![r].target = t, ![r].elapsed = TRUE]
    BY <2>1 DEF Retarget
  <2> HIDE DEF t
  <2> DEFINE row == [request[r] EXCEPT !.target = t, !.elapsed = TRUE]
  <2>4. /\ row \in BuildRequest
        /\ row.status = "PENDING" /\ row.elapsed /\ row.actual = request[r].actual
        /\ row.target = t
    BY <1>1, <2>2, <2>3 DEF BuildRequest
  <2>5. request' = [request EXCEPT ![r] = row]
    BY <1>1, <2>3
  <2>6. /\ UNCHANGED <<deployed, enabled, returning, workers, builder>>
        /\ inserting' = "NO"
    BY <1>2 DEF PublicContentChanged, ManualRebuild, Retarget, writers
  <2> HIDE DEF row
  <2>7. QED
    BY <1>1, <2>1, <2>3, <2>4, <2>5, <2>6 DEF t
<1>3. CASE EnqueueInsert(r)
  <2>1. /\ content' \in content..MaxRevision /\ latest' = r
        /\ request' = [request EXCEPT ![r] = Inserted(content')]
        /\ request[r].status = "ABSENT" /\ WithStatus("PENDING") = {}
        /\ UNCHANGED <<deployed, enabled, returning, workers, builder>>
        /\ inserting' = "NO"
    BY <1>1, <1>3, MaxRevisionAssumption DEF EnqueueInsert, Indexed
  <2>2. Inserted(content') \in BuildRequest
    BY <1>1, <2>1, MaxAttemptsAssumption, MaxRevisionAssumption
       DEF Inserted, BuildRequest, Outstanding, Null
  <2>3. /\ Inserted(content').status = "PENDING" /\ Inserted(content').elapsed
        /\ Inserted(content').actual = Null /\ Inserted(content').target = content'
    BY DEF Inserted
  <2>4. QED
    BY <1>1, <2>1, <2>2, <2>3
<1>4. QED
  BY <1>2, <1>3 DEF Asks

LEMMA MergeType ==
    ASSUME TypeOK, NEW r \in Requests, Merges(r)
    PROVE  request' \in [Requests -> BuildRequest]
<1>1. request \in [Requests -> BuildRequest]
  BY DEF TypeOK
<1>2. PICK newer \in Requests :
          request' = [request EXCEPT
                        ![newer].target = Later(request[newer].target, request[r].target),
                        ![r].status = "SUPERSEDED",
                        ![r].elapsed = FALSE]
  BY DEF Merges, WithStatus
<1>3. Later(request[newer].target, request[r].target) \in 0..MaxRevision
  BY <1>1 DEF Later, BuildRequest
<1> DEFINE merged == [request EXCEPT
                        ![newer].target = Later(request[newer].target, request[r].target)]
<1>4. merged \in [Requests -> BuildRequest]
  BY <1>1, <1>3 DEF BuildRequest
<1>5. [merged[r] EXCEPT !.status = "SUPERSEDED", !.elapsed = FALSE] \in BuildRequest
  BY <1>4 DEF BuildRequest
<1>6. request' = [merged EXCEPT ![r] = [merged[r] EXCEPT !.status = "SUPERSEDED",
                                                         !.elapsed = FALSE]]
  BY <1>1, <1>2, <1>4
<1> HIDE DEF merged
<1>7. QED
  BY <1>4, <1>5, <1>6

LEMMA ReturnType ==
    ASSUME TypeOK, NEW r \in Requests, Return(r)
    PROVE  request' \in [Requests -> BuildRequest]
<1>1. request \in [Requests -> BuildRequest]
  BY DEF TypeOK
<1>2. Returned(r) \in {"PENDING", "FAILED"} /\ (returning[r] = "LEASE") \in BOOLEAN
  BY DEF Returned
<1>3. [request[r] EXCEPT !.status = Returned(r), !.elapsed = returning[r] = "LEASE"]
         \in BuildRequest
  BY <1>1, <1>2 DEF BuildRequest, Outstanding
<1>4. QED
  BY <1>1, <1>3 DEF Return

\* A worker's claim, with or without a lease to take over.
LEMMA ClaimType ==
    ASSUME TypeOK, NEW r \in Requests,
           \/ ClaimDue(r)
           \/ \E expired \in Requests : ClaimOver(expired, r)
    PROVE  request' \in [Requests -> BuildRequest]
<1>1. request \in [Requests -> BuildRequest]
  BY DEF TypeOK
<1>2. CASE ClaimDue(r)
  BY <1>1, <1>2, StartedType DEF ClaimDue
<1>3. ASSUME NEW expired \in Requests, ClaimOver(expired, r)
      PROVE  request' \in [Requests -> BuildRequest]
  <2> DEFINE closed == [request[expired] EXCEPT !.status = "SUPERSEDED", !.elapsed = FALSE]
             merged == Later(request[r].target, request[expired].target)
             row    == [Started(request[r]) EXCEPT !.target = merged]
  <2>1. closed \in BuildRequest
    BY <1>1 DEF BuildRequest
  <2>2. merged \in 0..MaxRevision
    BY <1>1 DEF Later, BuildRequest
  <2>3. Started(request[r]) \in BuildRequest
    BY <1>1, StartedType
  <2>4. row \in BuildRequest
    BY <2>2, <2>3 DEF BuildRequest
  <2>5. expired # r
    BY <1>1, <1>3 DEF ClaimOver, LeaseExpired
  <2>6. request' = [request EXCEPT ![expired] = closed, ![r] = row]
    BY <1>1, <1>3, <2>5 DEF ClaimOver
  <2> HIDE DEF closed, row
  <2>7. QED
    BY <1>1, <2>1, <2>4, <2>6
<1>4. QED
  BY <1>2, <1>3

LEMMA DecidedType ==
    ASSUME TypeOK, NEW r \in Requests, NEW actual \in 0..MaxRevision
    PROVE  Decided(r, actual) \in BuildRequest
<1>1. request[r] \in BuildRequest /\ actual \in Null..MaxRevision
  BY DEF TypeOK, Null
<1>2. QED
  BY <1>1 DEF Decided, BuildRequest

\* A failed request is merged into another one, or its handler holds it to return it.
LEMMA FailEither ==
    ASSUME TypeOK, NEW r \in Requests, NEW way \in Ways, Fail(r, way)
    PROVE  /\ Merges(r) \/ request' = request
           /\ returning' \in [Requests -> Ways \cup {"NO"}]
           /\ \/ UNCHANGED returning
              \/ /\ returning' = [returning EXCEPT ![r] = way]
                 /\ WithStatus("PENDING") = {} /\ UNCHANGED request
  BY DEF Fail, Merges, TypeOK

LEMMA TypeStep == TypeOK /\ Indexed /\ [Next]_vars => TypeOK'
<1> SUFFICES ASSUME TypeOK, Indexed, Next PROVE TypeOK'
  BY DEF TypeOK, vars, queue, writers, workers, builder
<1>a. /\ content \in 0..MaxRevision /\ request \in [Requests -> BuildRequest]
      /\ returning \in [Requests -> Ways \cup {"NO"}]
  BY DEF TypeOK
<1>1. ASSUME NEW r \in Requests, PublicContentChanged(r) \/ ManualRebuild(r) \/ EnqueueInsert(r)
      PROVE  TypeOK'
  <2>1. Asks(r)
    BY <1>1 DEF Asks
  <2>2. content' \in 0..MaxRevision
    BY <1>a, <2>1, AskRows, MaxRevisionAssumption
  <2>3. QED
    BY <2>1, <2>2, AskRows DEF TypeOK, workers, builder
<1>2. CASE (\E reason \in Reasons : EnqueueBegin(reason)) \/ EnqueueRefused \/ Restart
  BY <1>2 DEF EnqueueBegin, EnqueueRefused, Restart, TypeOK, queue, writers, workers, builder
<1>3. ASSUME NEW r \in Requests,
             ClaimDue(r) \/ \E expired \in Requests : ClaimOver(expired, r)
      PROVE  TypeOK'
  <2>1. request' \in [Requests -> BuildRequest]
    BY <1>3, ClaimType
  <2>2. QED
    BY <1>3, <2>1 DEF ClaimDue, ClaimOver, TypeOK, writers, workers, builder
<1>4. ASSUME NEW r \in Requests, TimePasses(r)
      PROVE  TypeOK'
  <2>1. [request[r] EXCEPT !.elapsed = TRUE] \in BuildRequest
    BY <1>a DEF BuildRequest
  <2>2. QED
    BY <1>a, <1>4, <2>1 DEF TimePasses, TypeOK, writers, workers, builder
<1>5. ASSUME NEW r \in Requests, NEW b \in BOOLEAN,
             Trigger(r) \/ TriggerRaises(r, b) \/ Crash(r) \/ BuildFails(r)
      PROVE  TypeOK'
  BY <1>5 DEF Trigger, TriggerRaises, Crash, BuildFails, TypeOK, queue, writers, workers,
              builder
<1>6. ASSUME NEW r \in Requests, BuildSucceeds(r)
      PROVE  TypeOK'
  BY <1>a, <1>6 DEF BuildSucceeds, TypeOK, queue, writers, workers, builder
<1>7. ASSUME NEW r \in Requests, TriggerFailed(r)
      PROVE  TypeOK'
  <2>1. request' \in [Requests -> BuildRequest]
        /\ returning' \in [Requests -> Ways \cup {"NO"}]
    BY <1>a, <1>7, FailEither, MergeType DEF TriggerFailed, Ways
  <2>2. QED
    BY <1>7, <2>1 DEF TriggerFailed, TypeOK, builder
<1>8. ASSUME NEW r \in Requests, NEW retryable \in BOOLEAN, RecordFailure(r, retryable)
      PROVE  TypeOK'
  <2> DEFINE way == IF retryable THEN "RETRY" ELSE "FATAL"
  <2>1. way \in Ways /\ Fail(r, way)
    BY <1>8 DEF RecordFailure, Ways
  <2> HIDE DEF way
  <2>2. request' \in [Requests -> BuildRequest]
        /\ returning' \in [Requests -> Ways \cup {"NO"}]
    BY <1>a, <2>1, FailEither, MergeType
  <2>3. QED
    BY <1>8, <2>2 DEF RecordFailure, TypeOK, workers, builder
<1>l. ASSUME NEW r \in Requests, RecordLateFailure(r)
      PROVE  TypeOK'
  <2>1. request' \in [Requests -> BuildRequest]
        /\ returning' \in [Requests -> Ways \cup {"NO"}]
    BY <1>a, <1>l, FailEither, MergeType DEF RecordLateFailure, Ways
  <2>2. QED
    BY <1>l, <2>1 DEF RecordLateFailure, TypeOK, workers
<1>9. ASSUME NEW r \in Requests, NEW actual \in 0..MaxRevision, RecordSuccess(r, actual)
      PROVE  TypeOK'
  <2>1. request' \in [Requests -> BuildRequest]
    BY <1>a, <1>9, DecidedType DEF RecordSuccess
  <2>2. deployed' \in Null..MaxRevision
    BY <1>9, MaxRevisionAssumption DEF RecordSuccess, TypeOK, Later, Null
  <2>3. QED
    BY <1>9, <2>1, <2>2 DEF RecordSuccess, TypeOK, writers, workers, builder
<1>10. ASSUME NEW on \in BOOLEAN, SetEnabled(on)
       PROVE  TypeOK'
  BY <1>10 DEF SetEnabled, TypeOK, writers, workers, builder
<1>11. ASSUME NEW r \in Requests,
              Requeue(r) \/ ReturnRefused(r) \/ \E x \in Requests : ClaimOverRefused(x, r)
       PROVE  TypeOK'
  <2>1. request' = request /\ polling' \in BOOLEAN
        /\ returning' \in [Requests -> Ways \cup {"NO"}]
    BY <1>a, <1>11 DEF Requeue, ReturnRefused, ClaimOverRefused, TypeOK, queue, writers, workers,
                       Ways
  <2>2. QED
    BY <1>11, <2>1 DEF Requeue, ReturnRefused, ClaimOverRefused, TypeOK, queue, writers, workers,
                       builder
<1>12. ASSUME NEW r \in Requests, Return(r)
       PROVE  TypeOK'
  <2>1. request' \in [Requests -> BuildRequest]
    BY <1>12, ReturnType
  <2>2. returning' \in [Requests -> Ways \cup {"NO"}]
    BY <1>a, <1>12 DEF Return
  <2>3. QED
    BY <1>12, <2>1, <2>2 DEF Return, TypeOK, workers, builder
<1>13. QED
  BY <1>1, <1>2, <1>3, <1>4, <1>5, <1>6, <1>7, <1>8, <1>l, <1>9, <1>10, <1>11, <1>12 DEF Next

LEMMA InitType == Init => TypeOK
<1> SUFFICES ASSUME Init PROVE TypeOK
  OBVIOUS
<1>1. enabled \in BOOLEAN /\ late \in BOOLEAN
  BY Zenon DEF Init
<1>2. /\ content \in 0..MaxRevision /\ deployed \in Null..MaxRevision
      /\ request \in [Requests -> BuildRequest]
      /\ returning \in [Requests -> Ways \cup {"NO"}]
  BY MaxRevisionAssumption, MaxAttemptsAssumption
     DEF Init, BuildRequest, NoBuild, Null, Outstanding, Ways
<1>3. QED
  BY <1>1, <1>2 DEF Init, TypeOK, Reasons

-----------------------------------------------------------------------------
(* What the handlers write, row by row.                                    *)

\* A failure merges the request into a PENDING one.
LEMMA MergeRows ==
    ASSUME TypeOK, NEW r \in Requests, Merges(r)
    PROVE  \E newer \in WithStatus("PENDING") :
               /\ \A s \in Requests \ {r, newer} : request'[s] = request[s]
               /\ request'[r].status = "SUPERSEDED"
               /\ request'[r].actual = request[r].actual
               /\ request'[newer].target = Later(request[newer].target, request[r].target)
               /\ newer # r =>
                      /\ request'[r].target = request[r].target
                      /\ request'[newer].status = "PENDING"
                      /\ request'[newer].elapsed = request[newer].elapsed
                      /\ request'[newer].actual = request[newer].actual
<1>1. request \in [Requests -> BuildRequest]
  BY DEF TypeOK
<1>2. PICK newer \in WithStatus("PENDING") :
          request' = [request EXCEPT
                        ![newer].target = Later(request[newer].target, request[r].target),
                        ![r].status = "SUPERSEDED",
                        ![r].elapsed = FALSE]
  BY DEF Merges
<1>3. newer \in Requests /\ request[newer].status = "PENDING"
  BY DEF WithStatus
<1>4. CASE newer = r
  BY <1>1, <1>2, <1>3, <1>4 DEF BuildRequest
<1>5. CASE newer # r
  BY <1>1, <1>2, <1>3, <1>5 DEF BuildRequest
<1>6. QED
  BY <1>4, <1>5

\* A handler that found none retries the request or gives it up.
LEMMA ReturnRows ==
    ASSUME TypeOK, Indexed, NEW r \in Requests, Return(r)
    PROVE  /\ \A s \in Requests \ {r} : request'[s] = request[s]
           /\ request[r].status = "RUNNING"
           /\ \/ request'[r].status = "PENDING" /\ WithStatus("PENDING") = {}
              \/ request'[r].status = "FAILED"
           /\ request'[r].actual = request[r].actual
           /\ request'[r].target = request[r].target
<1>1. request \in [Requests -> BuildRequest]
  BY DEF TypeOK
<1>2. request[r].status = "RUNNING"
  BY DEF Return, Indexed
<1>3. Returned(r) \in {"PENDING", "FAILED"}
  BY DEF Returned
<1>4. QED
  BY <1>1, <1>2, <1>3 DEF Return, BuildRequest

\* A claim starts a due request, alone or in the place of an expired one.
LEMMA ClaimRows ==
    ASSUME TypeOK, NEW r \in Requests, ClaimDue(r) \/ \E x \in Requests : ClaimOver(x, r)
    PROVE  /\ request[r].status = "PENDING" /\ request[r].elapsed
           /\ request'[r].status = "RUNNING"
           /\ request'[r].actual = request[r].actual
           /\ \/ /\ WithStatus("RUNNING") = {}
                 /\ \A s \in Requests \ {r} : request'[s] = request[s]
                 /\ request'[r].target = request[r].target
              \/ \E x \in Requests \ {r} :
                    /\ request[x].status = "RUNNING"
                    /\ \A s \in Requests \ {r, x} : request'[s] = request[s]
                    /\ request'[x].status = "SUPERSEDED"
                    /\ request'[x].actual = request[x].actual
                    /\ request'[x].target = request[x].target
                    /\ request'[r].target = Later(request[r].target, request[x].target)
<1>1. request \in [Requests -> BuildRequest]
  BY DEF TypeOK
<1>2. /\ Started(request[r]).status = "RUNNING"
      /\ Started(request[r]).actual = request[r].actual
      /\ Started(request[r]).target = request[r].target
      /\ DOMAIN Started(request[r]) = DOMAIN request[r]
  BY <1>1 DEF Started, BuildRequest
<1>3. CASE ClaimDue(r)
  BY <1>1, <1>2, <1>3 DEF ClaimDue
<1>4. ASSUME NEW x \in Requests, ClaimOver(x, r)
      PROVE  /\ request[r].status = "PENDING" /\ request[r].elapsed
             /\ request'[r].status = "RUNNING"
             /\ request'[r].actual = request[r].actual
             /\ x # r
             /\ request[x].status = "RUNNING"
             /\ \A s \in Requests \ {r, x} : request'[s] = request[s]
             /\ request'[x].status = "SUPERSEDED"
             /\ request'[x].actual = request[x].actual
             /\ request'[x].target = request[x].target
             /\ request'[r].target = Later(request[r].target, request[x].target)
  <2> DEFINE closed == [request[x] EXCEPT !.status = "SUPERSEDED", !.elapsed = FALSE]
             merged == Later(request[r].target, request[x].target)
             row    == [Started(request[r]) EXCEPT !.target = merged]
  <2>1. x # r /\ request[x].status = "RUNNING"
        /\ request[r].status = "PENDING" /\ request[r].elapsed
    BY <1>1, <1>4 DEF ClaimOver, LeaseExpired
  <2>2. closed.status = "SUPERSEDED" /\ closed.actual = request[x].actual
        /\ closed.target = request[x].target
    BY <1>1 DEF BuildRequest
  <2>3. Started(request[r]) \in BuildRequest
    BY <1>1, StartedType
  <2>4. row.status = "RUNNING" /\ row.actual = request[r].actual /\ row.target = merged
    BY <1>2, <2>3 DEF BuildRequest
  <2>5. request' = [request EXCEPT ![x] = closed, ![r] = row]
    BY <1>1, <1>4, <2>1 DEF ClaimOver
  <2> HIDE DEF closed, row, merged
  <2>6. request'[r] = row /\ request'[x] = closed
        /\ \A s \in Requests \ {r, x} : request'[s] = request[s]
    BY <1>1, <2>1, <2>5
  <2>7. QED
    BY <2>1, <2>2, <2>4, <2>6 DEF merged
<1>5. QED
  BY <1>3, <1>4

\* A clock that runs out only tells.
LEMMA TimerRows ==
    ASSUME TypeOK, NEW r \in Requests, TimePasses(r)
    PROVE  /\ \A s \in Requests \ {r} : request'[s] = request[s]
           /\ request[r].status \in Outstanding
           /\ request'[r].elapsed
           /\ request'[r].actual = request[r].actual
           /\ request'[r].target = request[r].target
           /\ request'[r].status = request[r].status
<1>1. request \in [Requests -> BuildRequest]
  BY DEF TypeOK
<1>2. QED
  BY <1>1 DEF TimePasses, BuildRequest, Outstanding

LEMMA SuccessRows ==
    ASSUME TypeOK, NEW r \in Requests, NEW actual \in 0..MaxRevision, RecordSuccess(r, actual)
    PROVE  /\ \A s \in Requests \ {r} : request'[s] = request[s]
           /\ request[r].status \in Outstanding \cup {"SUPERSEDED"}
           /\ request[r].status = "SUPERSEDED" => request[r].actual = Null
           /\ request'[r].status = IF request[r].status = "SUPERSEDED" THEN "SUPERSEDED"
                                   ELSE "SUCCESSFUL"
           /\ request'[r].target = request[r].target
           /\ request[r].target <= actual
<1>1. request \in [Requests -> BuildRequest]
  BY DEF TypeOK
<1>2. request[r].target <= actual /\ Decidable(r)
      /\ request' = [request EXCEPT ![r] = Decided(r, actual)]
  BY <1>1 DEF RecordSuccess, BuildRequest
<1>3. /\ Decided(r, actual).status = IF request[r].status = "SUPERSEDED" THEN "SUPERSEDED"
                                     ELSE "SUCCESSFUL"
      /\ Decided(r, actual).target = request[r].target
  BY <1>1 DEF Decided, BuildRequest
<1>4. request'[r] = Decided(r, actual) /\ \A s \in Requests \ {r} : request'[s] = request[s]
  BY <1>1, <1>2
<1>5. /\ request[r].status \in Outstanding \cup {"SUPERSEDED"}
      /\ request[r].status = "SUPERSEDED" => request[r].actual = Null
  BY <1>2 DEF Decidable, Outstanding
<1>6. QED
  BY <1>2, <1>3, <1>4, <1>5, Zenon

\* The kinds of steps the invariant tells apart.
LEMMA Steps ==
    ASSUME TypeOK, Indexed, Next
    PROVE  \/ \E r \in Requests :
                 \/ Asks(r)
                 \/ /\ \/ ClaimDue(r) \/ (\E x \in Requests : ClaimOver(x, r))
                       \/ Return(r) \/ TimePasses(r)
                    /\ UNCHANGED <<content, deployed, latest, successes>>
                 \/ /\ Merges(r)
                    /\ returning[r] = "NO" /\ UNCHANGED inserting
                    /\ \A s \in Requests : returning'[s] \in {returning[s], "NO"}
                    /\ \/ request[r].status = "RUNNING"
                       \/ request[r].status = "PENDING" /\ late'
                    /\ UNCHANGED <<content, deployed, latest, successes>>
                 \/ \E actual \in 0..MaxRevision : RecordSuccess(r, actual)
                 \/ BuildSucceeds(r)
           \/ UNCHANGED <<request, content, deployed, latest, successes>>
<1>1. ASSUME NEW r \in Requests,
             \/ ClaimDue(r) \/ (\E x \in Requests : ClaimOver(x, r))
             \/ Return(r) \/ TimePasses(r)
      PROVE  UNCHANGED <<content, deployed, latest, successes>>
  BY <1>1 DEF ClaimDue, ClaimOver, Return, TimePasses, builder
<1>2. ASSUME NEW r \in Requests, NEW b \in BOOLEAN,
             \/ Trigger(r) \/ TriggerRaises(r, b) \/ Crash(r) \/ BuildFails(r)
             \/ Requeue(r) \/ ReturnRefused(r) \/ \E x \in Requests : ClaimOverRefused(x, r)
      PROVE  UNCHANGED <<request, content, deployed, latest, successes>>
  BY <1>2 DEF Trigger, TriggerRaises, Crash, BuildFails, Requeue, ReturnRefused,
              ClaimOverRefused, queue, builder
<1>3. ASSUME NEW r \in Requests, NEW way \in Ways, Fail(r, way)
      PROVE  \/ Merges(r) /\ \A s \in Requests : returning'[s] \in {returning[s], "NO"}
             \/ UNCHANGED request
  BY <1>3 DEF Fail, Merges
<1>4. ASSUME NEW r \in Requests, TriggerFailed(r)
      PROVE  \/ /\ Merges(r) /\ \A s \in Requests : returning'[s] \in {returning[s], "NO"}
                /\ returning[r] = "NO" /\ UNCHANGED inserting
                /\ request[r].status = "RUNNING"
                /\ UNCHANGED <<content, deployed, latest, successes>>
             \/ UNCHANGED <<request, content, deployed, latest, successes>>
  BY <1>3, <1>4 DEF TriggerFailed, builder, Ways
<1>5. ASSUME NEW r \in Requests, NEW retryable \in BOOLEAN, RecordFailure(r, retryable)
      PROVE  \/ /\ Merges(r) /\ \A s \in Requests : returning'[s] \in {returning[s], "NO"}
                /\ returning[r] = "NO" /\ UNCHANGED inserting
                /\ request[r].status = "RUNNING"
                /\ UNCHANGED <<content, deployed, latest, successes>>
             \/ UNCHANGED <<request, content, deployed, latest, successes>>
  <2> DEFINE way == IF retryable THEN "RETRY" ELSE "FATAL"
  <2>1. way \in Ways /\ Fail(r, way)
    BY <1>5 DEF RecordFailure, Ways
  <2> HIDE DEF way
  <2>2. QED
    BY <1>3, <1>5, <2>1 DEF RecordFailure, Outstanding, builder
<1>l. ASSUME NEW r \in Requests, RecordLateFailure(r)
      PROVE  \/ /\ Merges(r) /\ \A s \in Requests : returning'[s] \in {returning[s], "NO"}
                /\ returning[r] = "NO" /\ UNCHANGED inserting
                /\ request[r].status = "PENDING" /\ late'
                /\ UNCHANGED <<content, deployed, latest, successes>>
             \/ UNCHANGED <<request, content, deployed, latest, successes>>
  BY <1>3, <1>l DEF RecordLateFailure, Ways
<1>6. ASSUME NEW on \in BOOLEAN, SetEnabled(on)
      PROVE  UNCHANGED <<request, content, deployed, latest, successes>>
  BY <1>6 DEF SetEnabled, builder
<1>7. CASE (\E reason \in Reasons : EnqueueBegin(reason)) \/ EnqueueRefused \/ Restart
  BY <1>7 DEF EnqueueBegin, EnqueueRefused, Restart, queue, builder
<1>8. QED
  BY <1>1, <1>2, <1>4, <1>5, <1>l, <1>6, <1>7, Zenon DEF Next, Asks

-----------------------------------------------------------------------------
(* One PENDING and one RUNNING request, and who holds what.                *)

\* One PENDING and one RUNNING request: what the indexes see.
LEMMA UniqueStep ==
    ASSUME TypeOK, Indexed, Next
    PROVE  (\A s \in Outstanding : \A q, r \in WithStatus(s) : q = r)'
<1> USE DEF WithStatus, Outstanding
<1>a. \A q, r \in Requests :
          request[q].status = request[r].status /\ request[r].status \in Outstanding => q = r
  BY DEF Indexed
<1>1. ASSUME NEW r \in Requests, Asks(r)
      PROVE  \A s \in Outstanding : \A q, t \in WithStatus(s)' : q = t
  BY <1>a, <1>1, AskRows
<1>2. ASSUME NEW r \in Requests, ClaimDue(r) \/ (\E x \in Requests : ClaimOver(x, r))
      PROVE  \A s \in Outstanding : \A q, t \in WithStatus(s)' : q = t
  BY <1>a, <1>2, ClaimRows
<1>3. ASSUME NEW r \in Requests, TimePasses(r)
      PROVE  \A s \in Outstanding : \A q, t \in WithStatus(s)' : q = t
  BY <1>a, <1>3, TimerRows
<1>4. ASSUME NEW r \in Requests, Return(r)
      PROVE  \A s \in Outstanding : \A q, t \in WithStatus(s)' : q = t
  BY <1>a, <1>4, ReturnRows
<1>5. ASSUME NEW r \in Requests, Merges(r), request[r].status \in {"RUNNING", "PENDING"}
      PROVE  \A s \in Outstanding : \A q, t \in WithStatus(s)' : q = t
  BY <1>a, <1>5, MergeRows
<1>6. ASSUME NEW r \in Requests, NEW actual \in 0..MaxRevision, RecordSuccess(r, actual)
      PROVE  \A s \in Outstanding : \A q, t \in WithStatus(s)' : q = t
  BY <1>a, <1>6, SuccessRows
<1>7. CASE request' = request
  BY <1>7 DEF Indexed
<1>8. QED
  BY <1>1, <1>2, <1>3, <1>4, <1>5, <1>6, <1>7, Steps DEF BuildSucceeds, queue

\* A handler holds a RUNNING request: nobody else writes to it.
LEMMA HeldStep ==
    ASSUME TypeOK, Indexed, Next
    PROVE  (\A r \in Requests : returning[r] # "NO" => request[r].status = "RUNNING")'
<1> DEFINE Held == \A r \in Requests : returning[r] # "NO" => request[r].status = "RUNNING"
<1>a. Held /\ returning \in [Requests -> Ways \cup {"NO"}] /\ request \in [Requests -> BuildRequest]
  BY DEF Indexed, TypeOK
<1>b. \A q, r \in Requests :
          request[q].status = request[r].status /\ request[r].status \in Outstanding => q = r
  BY DEF Indexed, WithStatus
<1>1. ASSUME NEW r \in Requests, PublicContentChanged(r) \/ ManualRebuild(r) \/ EnqueueInsert(r)
      PROVE  Held'
  <2>1. Asks(r)
    BY <1>1 DEF Asks
  <2>2. QED
    BY <1>a, <2>1, AskRows
<1>2. ASSUME NEW r \in Requests, ClaimDue(r)
      PROVE  Held'
  <2>1. returning' = returning /\ WithStatus("RUNNING") = {}
    BY <1>2 DEF ClaimDue, writers
  <2>2. \A s \in Requests : returning'[s] = "NO"
    BY <1>a, <2>1 DEF WithStatus
  <2>3. QED
    BY <2>2
<1>3. ASSUME NEW x \in Requests, NEW r \in Requests, ClaimOver(x, r)
      PROVE  Held'
  <2>1. returning' = returning /\ returning[x] = "NO" /\ request[x].status = "RUNNING"
    BY <1>3 DEF ClaimOver, LeaseExpired, writers
  <2>2. \A s \in Requests \ {x} : request[s].status # "RUNNING"
    BY <1>b, <2>1 DEF Outstanding
  <2>3. QED
    BY <1>a, <2>1, <2>2
<1>4. ASSUME NEW r \in Requests, TimePasses(r)
      PROVE  Held'
  <2>1. returning' = returning
    BY <1>4 DEF TimePasses, writers
  <2>2. QED
    BY <1>a, <1>4, <2>1, TimerRows
<1>5. ASSUME NEW r \in Requests, Return(r)
      PROVE  Held'
  <2>1. returning' = [returning EXCEPT ![r] = "NO"]
    BY <1>5 DEF Return
  <2>2. QED
    BY <1>a, <1>5, <2>1, ReturnRows
<1>6. ASSUME NEW r \in Requests, NEW way \in Ways, Fail(r, way), returning[r] = "NO",
             request[r].status \in Outstanding
      PROVE  Held'
  <2>1. CASE WithStatus("PENDING") # {}
    <3>1. Merges(r) /\ returning' = returning
      BY <1>6, <2>1 DEF Fail, Merges
    <3>2. PICK newer \in WithStatus("PENDING") :
              \A s \in Requests \ {r, newer} : request'[s] = request[s]
      BY <3>1, MergeRows
    <3>3. returning[newer] = "NO"
      BY <1>a DEF WithStatus
    <3>4. QED
      BY <1>a, <1>6, <3>1, <3>2, <3>3
  <2>2. CASE WithStatus("PENDING") = {}
    <3>1. request' = request /\ returning' = [returning EXCEPT ![r] = way]
          /\ request[r].status = "RUNNING"
      BY <1>6, <2>2 DEF Fail, WithStatus, Outstanding
    <3>2. QED
      BY <1>a, <3>1
  <2>3. QED
    BY <2>1, <2>2
<1>7. ASSUME NEW r \in Requests, TriggerFailed(r)
      PROVE  Held'
  <2>1. CASE request[r].status = "RUNNING"
    BY <1>6, <1>7, <2>1 DEF TriggerFailed, Ways, Outstanding
  <2>2. CASE request[r].status # "RUNNING"
    <3>1. request' = request /\ returning' = returning
      BY <1>7, <2>2 DEF TriggerFailed
    <3>2. QED
      BY <1>a, <3>1
  <2>3. QED
    BY <2>1, <2>2
<1>8. ASSUME NEW r \in Requests, NEW retryable \in BOOLEAN, RecordFailure(r, retryable)
      PROVE  Held'
  <2> DEFINE way == IF retryable THEN "RETRY" ELSE "FATAL"
  <2>1. way \in Ways /\ Fail(r, way) /\ returning[r] = "NO" /\ request[r].status \in Outstanding
    BY <1>8 DEF RecordFailure, Ways, Outstanding
  <2> HIDE DEF way
  <2>2. QED
    BY <1>6, <2>1
<1>l. ASSUME NEW r \in Requests, RecordLateFailure(r)
      PROVE  Held'
  <2>1. "RETRY" \in Ways /\ Fail(r, "RETRY") /\ returning[r] = "NO"
        /\ request[r].status \in Outstanding
    BY <1>l DEF RecordLateFailure, Ways, Outstanding
  <2>2. QED
    BY <1>6, <2>1
<1>9. ASSUME NEW r \in Requests, NEW actual \in 0..MaxRevision, RecordSuccess(r, actual)
      PROVE  Held'
  <2>1. returning' = returning /\ returning[r] = "NO"
    BY <1>9 DEF RecordSuccess, writers
  <2>2. QED
    BY <1>a, <1>9, <2>1, SuccessRows
<1>10. ASSUME NEW r \in Requests, Requeue(r) \/ ReturnRefused(r)
       PROVE  Held'
  BY <1>a, <1>10 DEF Requeue, ReturnRefused, LeaseExpired, queue
<1>11. CASE UNCHANGED <<request, returning>>
  BY <1>a, <1>11
<1>12. ASSUME NEW r \in Requests,
              \/ Trigger(r) \/ Crash(r) \/ BuildFails(r) \/ BuildSucceeds(r)
              \/ \E reached \in BOOLEAN : TriggerRaises(r, reached)
              \/ \E x \in Requests : ClaimOverRefused(x, r)
       PROVE  Held'
  <2>1. UNCHANGED <<request, returning>>
    BY <1>12 DEF Trigger, TriggerRaises, Crash, BuildFails, BuildSucceeds, ClaimOverRefused,
                 queue, writers
  <2>2. QED
    BY <1>11, <2>1
<1>13. ASSUME \/ (\E reason \in Reasons : EnqueueBegin(reason)) \/ EnqueueRefused \/ Restart
              \/ \E on \in BOOLEAN : SetEnabled(on)
       PROVE  Held'
  <2>1. UNCHANGED <<request, returning>>
    BY <1>13 DEF EnqueueBegin, EnqueueRefused, Restart, SetEnabled, queue, writers
  <2>2. QED
    BY <1>11, <2>1
<1> HIDE DEF Held
<1>14. Held'
  BY <1>1, <1>2, <1>3, <1>4, <1>5, <1>7, <1>8, <1>l, <1>9, <1>10, <1>12, <1>13 DEF Next
<1>15. QED
  BY <1>14 DEF Held

\* The state of the site is held while a revision is being inserted.
LEMMA InsertingStep ==
    ASSUME TypeOK, Indexed, Next
    PROVE  (inserting = "CONTENT" => content < MaxRevision)'
<1>1. ASSUME NEW r \in Requests, PublicContentChanged(r) \/ ManualRebuild(r) \/ EnqueueInsert(r)
      PROVE  inserting' = "NO"
  BY <1>1, AskRows DEF Asks
<1>2. ASSUME NEW r \in Requests,
             \/ ClaimDue(r) \/ (\E x \in Requests : ClaimOver(x, r) \/ ClaimOverRefused(x, r))
             \/ Requeue(r) \/ Return(r) \/ ReturnRefused(r) \/ TimePasses(r)
             \/ Trigger(r) \/ (\E reached \in BOOLEAN : TriggerRaises(r, reached))
             \/ TriggerFailed(r) \/ Crash(r) \/ BuildSucceeds(r) \/ BuildFails(r)
             \/ (\E actual \in 0..MaxRevision : RecordSuccess(r, actual))
             \/ (\E retryable \in BOOLEAN : RecordFailure(r, retryable)) \/ RecordLateFailure(r)
      PROVE  UNCHANGED <<inserting, content>>
  BY <1>2 DEF ClaimDue, ClaimOver, ClaimOverRefused, Requeue, Return, ReturnRefused, TimePasses,
              Trigger, TriggerRaises, TriggerFailed, Crash, BuildSucceeds, BuildFails,
              RecordSuccess, RecordFailure, RecordLateFailure, queue, writers
<1>3. ASSUME NEW reason \in Reasons, EnqueueBegin(reason)
      PROVE  (inserting = "CONTENT" => content < MaxRevision)'
  BY <1>3 DEF EnqueueBegin, queue
<1>4. CASE EnqueueRefused
  BY <1>4 DEF EnqueueRefused
<1>5. CASE Restart \/ \E on \in BOOLEAN : SetEnabled(on)
  BY <1>5 DEF Restart, SetEnabled, queue, writers, Indexed
<1>6. CASE UNCHANGED <<inserting, content>>
  BY <1>6 DEF Indexed
<1>7. CASE inserting' = "NO"
  BY <1>7
<1>8. QED
  BY <1>1, <1>2, <1>3, <1>4, <1>5, <1>6, <1>7 DEF Next

LEMMA IndexedStep == TypeOK /\ Indexed /\ [Next]_vars => Indexed'
<1>1. CASE Next
  BY <1>1, UniqueStep, HeldStep, InsertingStep DEF Indexed
<1>2. CASE UNCHANGED vars
  BY <1>2 DEF Indexed, WithStatus, vars, queue, writers
<1>3. QED
  BY <1>1, <1>2

-----------------------------------------------------------------------------
(* A waiting request can take over.                                        *)

LEMMA WaitingStep ==
    ASSUME TypeOK, Indexed, NothingAhead, WaitingTakesOver, [Next]_vars
    PROVE  WaitingTakesOver'
<1> USE DEF WithStatus, Outstanding
<1>a. /\ content \in 0..MaxRevision
      /\ \A s \in Requests : request[s].target \in 0..MaxRevision /\ request[s].target <= content
  BY DEF TypeOK, BuildRequest, NothingAhead
<1>b. \A q, r \in Requests :
          request[q].status = request[r].status /\ request[r].status \in Outstanding => q = r
  BY DEF Indexed
<1>c. \A q, r \in Requests :
          request[q].status = "RUNNING" /\ request[r].status = "PENDING" =>
              request[r].elapsed /\ request[r].target >= request[q].target
  BY DEF WaitingTakesOver
<1> SUFFICES ASSUME NEW q \in Requests, NEW p \in Requests,
                    request'[q].status = "RUNNING", request'[p].status = "PENDING"
             PROVE  request'[p].elapsed /\ request'[p].target >= request'[q].target
  BY DEF WaitingTakesOver
<1>1. ASSUME NEW r \in Requests, Asks(r)
      PROVE  request'[p].elapsed /\ request'[p].target >= request'[q].target
  <2>1. q # r /\ request'[q] = request[q] /\ request[q].target <= content
    BY <1>a, <1>1, AskRows
  <2>2. CASE p = r
    <3>1. content' \in content..MaxRevision /\ request'[r].elapsed
          /\ request'[r].target >= content'
      BY <1>a, <1>1, AskRows, MaxRevisionAssumption DEF Later
    <3>2. request'[r].target \in 0..MaxRevision
      BY <1>1, AskRows DEF BuildRequest
    <3>3. QED
      BY <1>a, <2>1, <2>2, <3>1, <3>2, MaxRevisionAssumption
  <2>3. CASE p # r
    BY <1>c, <1>1, <2>1, <2>3, AskRows
  <2>4. QED
    BY <2>2, <2>3
<1>2. ASSUME NEW r \in Requests, ClaimDue(r) \/ (\E x \in Requests : ClaimOver(x, r))
      PROVE  request'[p].elapsed /\ request'[p].target >= request'[q].target
  BY <1>b, <1>2, ClaimRows
<1>3. ASSUME NEW r \in Requests, TimePasses(r)
      PROVE  request'[p].elapsed /\ request'[p].target >= request'[q].target
  BY <1>c, <1>3, TimerRows
<1>4. ASSUME NEW r \in Requests, Return(r)
      PROVE  request'[p].elapsed /\ request'[p].target >= request'[q].target
  BY <1>b, <1>c, <1>4, ReturnRows
<1>5. ASSUME NEW r \in Requests, Merges(r), request[r].status \in {"RUNNING", "PENDING"}
      PROVE  request'[p].elapsed /\ request'[p].target >= request'[q].target
  <2>1. PICK newer \in Requests :
            /\ request[newer].status = "PENDING"
            /\ \A s \in Requests \ {r, newer} : request'[s] = request[s]
            /\ request'[r].status = "SUPERSEDED"
            /\ request'[newer].target = Later(request[newer].target, request[r].target)
            /\ newer # r => /\ request'[newer].status = "PENDING"
                            /\ request'[newer].elapsed = request[newer].elapsed
    BY <1>5, MergeRows
  <2>2. p # r /\ q # r /\ q # newer /\ request'[q] = request[q]
    BY <2>1
  <2>3. request[p].status = "PENDING"
    BY <2>1, <2>2
  <2>4. request'[p].elapsed = request[p].elapsed /\ request'[p].target >= request[p].target
    BY <1>a, <2>1, <2>2 DEF Later
  <2>5. request'[p].target \in 0..MaxRevision
    BY <1>a, <2>1, <2>2 DEF Later
  <2>6. QED
    BY <1>a, <1>c, <2>2, <2>3, <2>4, <2>5, MaxRevisionAssumption
<1>6. ASSUME NEW r \in Requests, NEW actual \in 0..MaxRevision, RecordSuccess(r, actual)
      PROVE  request'[p].elapsed /\ request'[p].target >= request'[q].target
  BY <1>c, <1>6, SuccessRows
<1>7. CASE request' = request
  BY <1>c, <1>7
<1>8. QED
  BY <1>1, <1>2, <1>3, <1>4, <1>5, <1>6, <1>7, Steps DEF vars, queue, BuildSucceeds

-----------------------------------------------------------------------------
(* Nothing runs ahead of the content.                                      *)

LEMMA NothingAheadStep ==
    ASSUME TypeOK, Indexed, NothingAhead, [Next]_vars
    PROVE  NothingAhead'
<1>a. /\ content \in 0..MaxRevision /\ deployed \in Null..MaxRevision
      /\ \A s \in Requests : request[s].target \in 0..MaxRevision
  BY DEF TypeOK, BuildRequest
<1>1. ASSUME NEW r \in Requests, Asks(r)
      PROVE  NothingAhead'
  <2>1. content' \in content..MaxRevision /\ deployed' = deployed /\ successes' = successes
    BY <1>1, AskRows DEF builder
  <2>2. \A s \in Requests : request'[s].target <= content'
    BY <1>a, <1>1, <2>1, AskRows, MaxRevisionAssumption DEF NothingAhead, Later
  <2>3. deployed' <= content'
    BY <1>a, <2>1, MaxRevisionAssumption DEF NothingAhead, Null
  <2>4. \A s \in Requests, actual \in 0..MaxRevision :
            <<s, actual>> \in successes' => actual <= content'
    BY <1>a, <2>1, MaxRevisionAssumption DEF NothingAhead
  <2>5. QED
    BY <2>2, <2>3, <2>4 DEF NothingAhead
<1>4. ASSUME UNCHANGED <<content, deployed, successes>>,
             \A s \in Requests :
                 \E q, r \in Requests :
                     request'[s].target \in {request[q].target, request[r].target}
      PROVE  NothingAhead'
  BY <1>4 DEF NothingAhead
<1>5. ASSUME NEW r \in Requests,
             \/ ClaimDue(r) \/ (\E x \in Requests : ClaimOver(x, r))
             \/ Return(r) \/ TimePasses(r),
             UNCHANGED <<content, deployed, successes>>
      PROVE  NothingAhead'
  <2>1. CASE ClaimDue(r) \/ \E x \in Requests : ClaimOver(x, r)
    BY <1>4, <1>5, <2>1, ClaimRows DEF Later
  <2>2. CASE TimePasses(r)
    BY <1>4, <1>5, <2>2, TimerRows
  <2>3. CASE Return(r)
    BY <1>4, <1>5, <2>3, ReturnRows
  <2>4. QED
    BY <1>5, <2>1, <2>2, <2>3
<1>6. ASSUME NEW r \in Requests, Merges(r),
             UNCHANGED <<content, deployed, successes>>
      PROVE  NothingAhead'
  BY <1>4, <1>6, MergeRows DEF Later, WithStatus
<1>7. ASSUME NEW r \in Requests, NEW actual \in 0..MaxRevision, RecordSuccess(r, actual)
      PROVE  NothingAhead'
  <2>1. content' = content /\ successes' = successes /\ actual <= content
        /\ deployed' = Later(Later(deployed, 0), actual)
    BY <1>7 DEF RecordSuccess, NothingAhead, builder
  <2>2. deployed' <= content
    BY <1>a, <2>1 DEF NothingAhead, Later, Null
  <2>3. \A s \in Requests : request'[s].target = request[s].target
    BY <1>7, SuccessRows
  <2>4. QED
    BY <2>1, <2>2, <2>3 DEF NothingAhead
<1>8. ASSUME NEW r \in Requests, BuildSucceeds(r)
      PROVE  NothingAhead'
  BY <1>a, <1>8 DEF BuildSucceeds, queue, NothingAhead
<1>9. CASE UNCHANGED <<request, content, deployed, successes>>
  BY <1>9 DEF NothingAhead
<1>10. QED
  BY <1>1, <1>5, <1>6, <1>7, <1>8, <1>9, Steps DEF vars, queue, builder

-----------------------------------------------------------------------------
(* A recorded revision belongs to a decided request, and decisions stay.   *)

LEMMA RecordedStep ==
    ASSUME TypeOK, Indexed, OnlyDecidedRecorded, [Next]_vars
    PROVE  OnlyDecidedRecorded'
<1> USE DEF OnlyDecidedRecorded, WithStatus, Outstanding
<1>1. ASSUME NEW r \in Requests, Asks(r)
      PROVE  OnlyDecidedRecorded'
  BY <1>1, AskRows
<1>2. ASSUME NEW r \in Requests, ClaimDue(r) \/ (\E x \in Requests : ClaimOver(x, r))
      PROVE  OnlyDecidedRecorded'
  BY <1>2, ClaimRows
<1>3. ASSUME NEW r \in Requests, TimePasses(r)
      PROVE  OnlyDecidedRecorded'
  BY <1>3, TimerRows
<1>4. ASSUME NEW r \in Requests, Return(r)
      PROVE  OnlyDecidedRecorded'
  BY <1>4, ReturnRows
<1>5. ASSUME NEW r \in Requests, Merges(r), request[r].status \in {"RUNNING", "PENDING"}
      PROVE  OnlyDecidedRecorded'
  BY <1>5, MergeRows
<1>6. ASSUME NEW r \in Requests, NEW actual \in 0..MaxRevision, RecordSuccess(r, actual)
      PROVE  OnlyDecidedRecorded'
  BY <1>6, SuccessRows
<1>7. CASE request' = request
  BY <1>7
<1>8. QED
  BY <1>1, <1>2, <1>3, <1>4, <1>5, <1>6, <1>7, Steps DEF vars, queue, BuildSucceeds

-----------------------------------------------------------------------------
(* No publication is forgotten, until a failure is recorded late.          *)

LEMMA AwaitedStep ==
    ASSUME TypeOK, Indexed, NothingAhead, BuildAwaited, ~late', [Next]_vars
    PROVE  BuildAwaited'
<1> SUFFICES ASSUME Behind' PROVE Awaited' \/ GivenUp'
  BY DEF BuildAwaited
<1>a. /\ content \in 0..MaxRevision /\ deployed \in Null..MaxRevision
      /\ \A s \in Requests : request[s].target \in 0..MaxRevision /\ request[s].target <= content
  BY DEF TypeOK, BuildRequest, NothingAhead
<1>b. \A s \in Requests :
        /\ request'[s].target = content'
        /\ request'[s].status \in {"PENDING", "RUNNING", "FAILED"}
        => Awaited' \/ GivenUp'
  BY DEF Awaited, GivenUp, WithStatus
<1>c. ASSUME content' = content, deployed' \in deployed..MaxRevision
      PROVE  \E s \in Requests :
                 /\ request[s].target = content
                 /\ request[s].status \in {"PENDING", "RUNNING", "FAILED"}
  <2>1. Behind
    BY <1>a, <1>c DEF Behind, Null
  <2>2. QED
    BY <2>1 DEF BuildAwaited, Awaited, GivenUp, WithStatus
<1>1. ASSUME NEW r \in Requests, Asks(r)
      PROVE  Awaited' \/ GivenUp'
  <2>1. request'[r].status = "PENDING" /\ request'[r].target = content'
    BY <1>a, <1>1, AskRows, MaxRevisionAssumption DEF Later
  <2>2. QED
    BY <1>b, <2>1
<1>2. ASSUME NEW r \in Requests, ClaimDue(r) \/ (\E x \in Requests : ClaimOver(x, r)),
             UNCHANGED <<content, deployed>>
      PROVE  Awaited' \/ GivenUp'
  <2>1. PICK s \in Requests : /\ request[s].target = content
                              /\ request[s].status \in {"PENDING", "RUNNING", "FAILED"}
    BY <1>a, <1>2, <1>c, MaxRevisionAssumption DEF Null
  <2>2. \/ request'[r].status = "RUNNING" /\ request'[r].target = content
        \/ request'[s] = request[s]
    BY <1>2, <1>a, <2>1, ClaimRows DEF Later
  <2>3. QED
    BY <1>2, <1>b, <2>1, <2>2
<1>3. ASSUME NEW r \in Requests, Return(r) \/ TimePasses(r), UNCHANGED <<content, deployed>>
      PROVE  Awaited' \/ GivenUp'
  <2>1. PICK s \in Requests : /\ request[s].target = content
                              /\ request[s].status \in {"PENDING", "RUNNING", "FAILED"}
    BY <1>a, <1>3, <1>c, MaxRevisionAssumption DEF Null
  <2>2. request'[s].target = content /\ request'[s].status \in {"PENDING", "RUNNING", "FAILED"}
    BY <1>3, <2>1, TimerRows, ReturnRows DEF Outstanding
  <2>3. QED
    BY <1>3, <1>b, <2>2
<1>4. ASSUME NEW r \in Requests, Merges(r),
             request[r].status = "RUNNING", UNCHANGED <<content, deployed>>
      PROVE  Awaited' \/ GivenUp'
  <2>1. PICK s \in Requests : /\ request[s].target = content
                              /\ request[s].status \in {"PENDING", "RUNNING", "FAILED"}
    BY <1>a, <1>4, <1>c, MaxRevisionAssumption DEF Null
  <2>2. PICK newer \in Requests :
               /\ \A q \in Requests \ {r, newer} : request'[q] = request[q]
               /\ request'[newer].target = Later(request[newer].target, request[r].target)
               /\ request'[newer].status = "PENDING"
    BY <1>4, MergeRows DEF WithStatus
  <2>3. s \in {r, newer} => request'[newer].target = content
    BY <1>a, <2>1, <2>2 DEF Later
  <2>4. QED
    BY <1>4, <1>b, <2>1, <2>2, <2>3
<1>5. ASSUME NEW r \in Requests, NEW actual \in 0..MaxRevision, RecordSuccess(r, actual)
      PROVE  Awaited' \/ GivenUp'
  <2>1. content' = content /\ deployed' = Later(Later(deployed, 0), actual)
    BY <1>5 DEF RecordSuccess
  <2>2. deployed' \in deployed..MaxRevision /\ actual <= deployed'
    BY <1>a, <2>1, MaxRevisionAssumption DEF Later, Null
  <2>3. PICK s \in Requests : /\ request[s].target = content
                              /\ request[s].status \in {"PENDING", "RUNNING", "FAILED"}
    BY <1>c, <2>1, <2>2
  <2>4. s # r
    <3>1. deployed' < content
      BY <2>1 DEF Behind
    <3>2. request[r].target < content
      BY <1>5, <1>a, <2>2, <3>1, SuccessRows DEF Null
    <3>3. QED
      BY <1>a, <2>3, <3>2
  <2>5. QED
    BY <1>5, <1>b, <2>1, <2>3, <2>4, SuccessRows
<1>6. CASE UNCHANGED <<request, content, deployed>>
  <2>1. PICK s \in Requests : /\ request[s].target = content
                              /\ request[s].status \in {"PENDING", "RUNNING", "FAILED"}
    BY <1>a, <1>6, <1>c, MaxRevisionAssumption DEF Null
  <2>2. QED
    BY <1>6, <1>b, <2>1
<1>7. QED
  BY <1>1, <1>2, <1>3, <1>4, <1>5, <1>6, Steps DEF vars, queue, builder, BuildSucceeds

-----------------------------------------------------------------------------
(* The newest request tells how the queue stands.                          *)

LEMMA LatestStep ==
    ASSUME TypeOK, Indexed, NothingAhead, LatestTells, ~late', [Next]_vars
    PROVE  LatestTells'
<1> USE DEF WithStatus, Outstanding
<1>a. /\ content \in 0..MaxRevision /\ deployed \in Null..MaxRevision
      /\ latest \in Requests \cup {NoRequest}
      /\ \A s \in Requests : request[s].target \in 0..MaxRevision /\ request[s].target <= content
  BY DEF TypeOK, BuildRequest, NothingAhead
<1>b. \A q, r \in Requests :
          request[q].status = request[r].status /\ request[r].status \in Outstanding => q = r
  BY DEF Indexed
<1>1. ASSUME NEW r \in Requests, Asks(r)
      PROVE  LatestTells'
  <2>1. request'[r].status = "PENDING" /\ request'[r].target = content' /\ latest' = r
    BY <1>a, <1>1, AskRows, MaxRevisionAssumption DEF Later
  <2>2. QED
    BY <2>1 DEF LatestTells
<1>2. ASSUME NEW r \in Requests, ClaimDue(r) \/ (\E x \in Requests : ClaimOver(x, r)),
             UNCHANGED <<content, deployed, latest>>, latest # NoRequest
      PROVE  LatestTells'
  <2>1. CASE r = latest
    <3>1. request'[r].status = "RUNNING" /\ request'[r].target = content
      BY <1>a, <1>2, <2>1, ClaimRows DEF LatestTells, Later
    <3>2. ASSUME NEW s \in Requests, s # r, request'[s].status \in Outstanding
          PROVE  FALSE
      <4>1. request'[s] = request[s]
        BY <1>2, <3>2, ClaimRows
      <4>2. request[s].status = "RUNNING"
        BY <1>b, <1>2, <3>2, <4>1, ClaimRows
      <4>3. QED
        BY <1>b, <1>2, <3>2, <4>1, <4>2, ClaimRows
    <3>3. QED
      BY <1>2, <2>1, <3>1, <3>2 DEF LatestTells
  <2>2. CASE r # latest
    <3>1. request[latest].status = "SUCCESSFUL"
      BY <1>a, <1>b, <1>2, <2>2, ClaimRows DEF LatestTells
    <3>2. request'[latest] = request[latest]
      BY <1>a, <1>2, <2>2, <3>1, ClaimRows
    <3>3. QED
      BY <1>2, <3>1, <3>2 DEF LatestTells
  <2>3. QED
    BY <2>1, <2>2
<1>3. ASSUME NEW r \in Requests, TimePasses(r),
             UNCHANGED <<content, deployed, latest>>, latest # NoRequest
      PROVE  LatestTells'
  <2>1. /\ \A s \in Requests \ {r} : request'[s] = request[s]
        /\ request'[r].target = request[r].target
        /\ request'[r].status = request[r].status
    BY <1>3, TimerRows
  <2>2. \A s \in Requests : request'[s].target = request[s].target
                           /\ request'[s].status = request[s].status
    BY <2>1
  <2>3. QED
    BY <1>a, <1>3, <2>2 DEF LatestTells
<1>4. ASSUME NEW r \in Requests, Return(r),
             UNCHANGED <<content, deployed, latest>>, latest # NoRequest
      PROVE  LatestTells'
  <2>1. /\ \A s \in Requests \ {r} : request'[s] = request[s]
        /\ request[r].status = "RUNNING"
        /\ request'[r].status \in {"PENDING", "FAILED"}
        /\ request'[r].target = request[r].target
    BY <1>4, ReturnRows
  <2>2. CASE r = latest
    BY <1>4, <2>1, <2>2 DEF LatestTells
  <2>3. CASE r # latest
    <3>1. request[latest].status \in {"PENDING", "SUCCESSFUL"}
      BY <1>a, <1>4, <2>1, <2>3 DEF LatestTells
    <3>2. QED
      BY <1>a, <1>4, <2>1, <2>3, <3>1 DEF LatestTells
  <2>4. QED
    BY <2>2, <2>3
<1>9. ASSUME NEW r \in Requests, Merges(r),
             request[r].status = "RUNNING", UNCHANGED <<content, deployed, latest>>,
             latest # NoRequest
      PROVE  LatestTells'
  <2>1. PICK newer \in Requests :
               /\ request[newer].status = "PENDING"
               /\ \A s \in Requests \ {r, newer} : request'[s] = request[s]
               /\ request'[newer].target = Later(request[newer].target, request[r].target)
               /\ newer # r => request'[newer].status = "PENDING"
    BY <1>9, MergeRows
  <2>2. r # latest /\ request[latest].status \in {"PENDING", "SUCCESSFUL"} /\ newer # r
    BY <1>a, <1>9, <2>1 DEF LatestTells
  <2>3. latest # newer => request'[latest] = request[latest]
    BY <1>a, <1>9, <2>1, <2>2
  <2>4. latest = newer => request'[latest].target = content
    BY <1>a, <1>9, <2>1 DEF LatestTells, Later
  <2>5. request'[latest].status = request[latest].status /\ request'[latest].target = content
    BY <1>9, <2>1, <2>2, <2>3, <2>4 DEF LatestTells
  <2>6. QED
    BY <1>9, <2>2, <2>5 DEF LatestTells
<1>5. ASSUME NEW r \in Requests, NEW actual \in 0..MaxRevision, RecordSuccess(r, actual),
             latest # NoRequest
      PROVE  LatestTells'
  <2>1. content' = content /\ latest' = latest /\ deployed' = Later(Later(deployed, 0), actual)
    BY <1>5 DEF RecordSuccess
  <2>2. deployed <= deployed' /\ actual <= deployed' /\ deployed' \in 0..MaxRevision
    BY <1>a, <2>1, MaxRevisionAssumption DEF Later, Null
  <2>3. CASE r = latest
    <3>1. request'[r].status = "SUCCESSFUL" /\ request'[r].target = content /\ content <= actual
      BY <1>a, <1>5, <2>3, SuccessRows DEF LatestTells
    <3>2. QED
      BY <1>a, <2>1, <2>2, <2>3, <3>1 DEF LatestTells
  <2>4. CASE r # latest
    <3>1. request'[latest] = request[latest]
          /\ \A s \in Requests : request'[s].status \in Outstanding => request'[s] = request[s]
      BY <1>a, <1>5, <2>4, SuccessRows
    <3>2. QED
      BY <1>a, <1>5, <2>1, <2>2, <3>1 DEF LatestTells, Null
  <2>5. QED
    BY <2>3, <2>4
<1>6. CASE UNCHANGED <<request, content, deployed, latest>>
  BY <1>6 DEF LatestTells
<1>7. CASE latest' = NoRequest
  BY <1>7 DEF LatestTells
<1>8. QED
  BY <1>1, <1>2, <1>3, <1>4, <1>9, <1>5, <1>6, <1>7, Steps DEF vars, queue, BuildSucceeds,
     RecordSuccess

-----------------------------------------------------------------------------
(* The properties the runs check, for every value of the constants.        *)

LEMMA QInvInit == Init => QInv
<1> SUFFICES ASSUME Init PROVE QInv
  OBVIOUS
<1>1. TypeOK
  BY InitType
<1>2. /\ content = 0 /\ deployed = Null /\ successes = {} /\ latest = NoRequest
      /\ \A r \in Requests : /\ request[r].status = "ABSENT" /\ request[r].target = 0
                              /\ request[r].actual = Null
  BY DEF Init, NoBuild
<1>3. Indexed /\ WaitingTakesOver
  BY <1>2 DEF Init, Indexed, WaitingTakesOver, WithStatus, Outstanding
<1>4. NothingAhead /\ NothingForgotten /\ LatestTells
  BY <1>2 DEF NothingAhead, NothingForgotten, BuildAwaited, LatestTells, Behind, Null
<1>5. OnlyDecidedRecorded
  BY <1>2 DEF OnlyDecidedRecorded
<1>6. QED
  BY <1>1, <1>3, <1>4, <1>5 DEF QInv

\* A late failure stays on record.
LEMMA LateStays == TypeOK /\ [Next]_vars /\ late => late'
<1> SUFFICES ASSUME TypeOK, Next, late PROVE late'
  BY DEF vars, builder
<1>1. late' \in {late, TRUE}
  BY Zenon
     DEF Next, PublicContentChanged, ManualRebuild, EnqueueInsert, ClaimDue, ClaimOver,
         ClaimOverRefused, Requeue, Return, ReturnRefused, TimePasses, Trigger, TriggerRaises,
         TriggerFailed, Crash, BuildSucceeds, BuildFails, RecordSuccess, RecordFailure,
         RecordLateFailure, EnqueueBegin, EnqueueRefused, SetEnabled, Restart, builder
<1>2. QED
  BY <1>1

LEMMA QInvStep == QInv /\ [Next]_vars => QInv'
<1> SUFFICES ASSUME QInv, [Next]_vars PROVE QInv'
  OBVIOUS
<1>1. TypeOK' /\ Indexed' /\ WaitingTakesOver' /\ NothingAhead' /\ OnlyDecidedRecorded'
  BY TypeStep, IndexedStep, WaitingStep, NothingAheadStep, RecordedStep DEF QInv
<1>2. ~late' => ~late
  BY LateStays DEF QInv
<1>3. NothingForgotten' /\ (late' \/ LatestTells')
  BY <1>2, AwaitedStep, LatestStep DEF QInv, NothingForgotten
<1>4. QED
  BY <1>1, <1>3 DEF QInv

(* Every reachable state satisfies the inductive invariant.                 *)
THEOREM Invariance == Spec => []QInv
  BY QInvInit, QInvStep, PTL DEF Spec

(* Rows, claims, builds and results keep the types of the schema.           *)
THEOREM TypeCorrect == Spec => []TypeOK
<1>1. QInv => TypeOK
  BY DEF QInv
<1>2. QED
  BY <1>1, Invariance, PTL

(* A request that waits beside a RUNNING one is due and asks for no less,   *)
(* however writers collide, for any number of requests and late results.    *)
THEOREM WaitingTakesOverCorrect == Spec => []WaitingTakesOver
<1>1. QInv => WaitingTakesOver
  BY DEF QInv
<1>2. QED
  BY <1>1, Invariance, PTL

(* Until a failure is recorded for a PENDING request, no publication is     *)
(* forgotten.                                                               *)
THEOREM NothingForgottenCorrect == Spec => []NothingForgotten
<1>1. QInv => NothingForgotten
  BY DEF QInv
<1>2. QED
  BY <1>1, Invariance, PTL

\* What the newest request tells is what the administrator is shown.
LEMMA LatestIsShown ==
    ASSUME TypeOK, NothingAhead, LatestTells
    PROVE  StatusIsTrue
<1>a. /\ content \in 0..MaxRevision /\ deployed \in Null..MaxRevision /\ deployed <= content
      /\ enabled \in BOOLEAN /\ latest \in Requests \cup {NoRequest}
      /\ NoRequest \notin Requests
  BY RequestsAssumption DEF TypeOK, NothingAhead
<1>1. CASE ~enabled
  BY <1>1 DEF StatusIsTrue, DisplayState
<1>2. CASE enabled /\ latest = NoRequest
  BY <1>a, <1>2 DEF StatusIsTrue, DisplayState, Null
<1>3. CASE enabled /\ latest # NoRequest /\ request[latest].status \in Outstanding
  BY <1>a, <1>3 DEF StatusIsTrue, DisplayState, Outstanding, WithStatus
<1>4. CASE enabled /\ latest # NoRequest /\ request[latest].status = "SUCCESSFUL"
  BY <1>a, <1>4 DEF StatusIsTrue, DisplayState, LatestTells, Null
<1>5. CASE enabled /\ latest # NoRequest /\ request[latest].status = "FAILED"
  <2>1. WithStatus("PENDING") \cup WithStatus("RUNNING") = {}
    BY <1>5 DEF LatestTells, WithStatus, Outstanding
  <2>2. DisplayState \in {"FAILED", "UP_TO_DATE"}
    BY <1>a, <1>5 DEF DisplayState, Null
  <2>3. DisplayState = "UP_TO_DATE" => deployed = content
    BY <1>a, <1>5 DEF DisplayState, Null
  <2>4. QED
    BY <2>1, <2>2, <2>3 DEF StatusIsTrue
<1>6. QED
  BY <1>a, <1>1, <1>2, <1>3, <1>4, <1>5 DEF LatestTells

(* Until a failure is recorded for a PENDING request, the state shown to    *)
(* the administrator is true in every interleaving of publications, claims  *)
(* and results.                                                             *)
THEOREM HonestStatusCorrect == Spec => []HonestStatus
<1>1. QInv => HonestStatus
  BY LatestIsShown DEF QInv, HonestStatus
<1>2. QED
  BY <1>1, Invariance, PTL

(* A decided request is never reopened and its revision never rewritten.    *)
THEOREM DecisionsCorrect == Spec => DecisionsStay
<1> DEFINE Stay ==
        \A r \in Requests :
        /\ request[r].status \in {"SUCCESSFUL", "FAILED"} => request'[r] = request[r]
        /\ request[r].status = "SUPERSEDED" => request'[r].status = "SUPERSEDED"
        /\ request[r].actual # Null => request'[r].actual = request[r].actual
<1>1. ASSUME QInv, Next PROVE Stay
  <2> USE DEF Outstanding, WithStatus, OnlyDecidedRecorded
  <2>a. TypeOK /\ Indexed /\ OnlyDecidedRecorded
    BY <1>1 DEF QInv
  <2>1. ASSUME NEW r \in Requests, Asks(r)
        PROVE  Stay
    BY <2>a, <2>1, AskRows
  <2>2. ASSUME NEW r \in Requests,
               ClaimDue(r) \/ (\E x \in Requests : ClaimOver(x, r)) \/ TimePasses(r)
        PROVE  Stay
    BY <2>a, <2>2, ClaimRows, TimerRows
  <2>3. ASSUME NEW r \in Requests, Merges(r), request[r].status \in {"RUNNING", "PENDING"}
        PROVE  Stay
    BY <2>a, <2>3, MergeRows
  <2>7. ASSUME NEW r \in Requests, Return(r)
        PROVE  Stay
    BY <2>a, <2>7, ReturnRows
  <2>4. ASSUME NEW r \in Requests, NEW actual \in 0..MaxRevision, RecordSuccess(r, actual)
        PROVE  Stay
    BY <2>a, <2>4, SuccessRows
  <2>5. CASE request' = request
    BY <2>5
  <2>6. QED
    BY <1>1, <2>a, <2>1, <2>2, <2>3, <2>7, <2>4, <2>5, Steps DEF BuildSucceeds, queue
<1>2. QInv /\ [Next]_vars => [Stay]_vars
  BY <1>1
<1>3. QED
  BY <1>2, Invariance, PTL DEF Spec, DecisionsStay

(* The deployed revision only moves forward, to content that exists.        *)
THEOREM DeployedCorrect == Spec => DeployedMovesForward
<1>1. Init => Projection!Init
  BY DEF Init, Projection!Init, Null
<1>2. ASSUME QInv, Next PROVE [Projection!Next]_<<content, deployed>>
  <2>a. /\ TypeOK /\ Indexed /\ NothingAhead
        /\ content \in 0..MaxRevision /\ deployed \in Null..MaxRevision
    BY <1>2 DEF QInv, TypeOK
  <2>1. ASSUME NEW r \in Requests, Asks(r)
        PROVE  Projection!Publish \/ UNCHANGED <<content, deployed>>
    <3>1. content' \in {content, content + 1} /\ deployed' = deployed
      BY <2>a, <2>1 DEF Asks, PublicContentChanged, ManualRebuild, EnqueueInsert
    <3>2. QED
      BY <3>1 DEF Projection!Publish
  <2>2. ASSUME NEW r \in Requests, BuildSucceeds(r)
        PROVE  UNCHANGED <<content, deployed>>
    BY <2>2 DEF BuildSucceeds, queue
  <2>3. ASSUME NEW r \in Requests, NEW actual \in 0..MaxRevision, RecordSuccess(r, actual)
        PROVE  Projection!Deploy \/ UNCHANGED <<content, deployed>>
    <3>1. content' = content /\ actual <= content
          /\ deployed' = Later(Later(deployed, 0), actual)
      BY <2>a, <2>3 DEF RecordSuccess, NothingAhead
    <3>2. deployed' \in deployed..content
      BY <2>a, <3>1 DEF Later, Null, NothingAhead
    <3>3. QED
      BY <2>a, <3>1, <3>2 DEF Projection!Deploy, Null
  <2>4. QED
    BY <1>2, <2>a, <2>1, <2>2, <2>3, Steps DEF Projection!Next
<1>3. QInv /\ [Next]_vars => [Projection!Next]_<<content, deployed>>
  BY <1>2 DEF vars, queue
<1>4. QED
  BY <1>1, <1>3, Invariance, PTL DEF Spec, DeployedMovesForward, Projection!Spec
=============================================================================
