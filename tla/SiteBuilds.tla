----------------------------- MODULE SiteBuilds -----------------------------
(***************************************************************************)
(* The static-site build queue of one tenant (app/site_builds): the tables *)
(* tenant_site_states and site_build_requests, the services that enqueue   *)
(* and record results, the workers that claim requests and trigger the     *)
(* external builder, and that builder.                                     *)
(*                                                                         *)
(* Each handler is one transaction that locks the rows it reads and writes *)
(* and is one action, with one exception: a row that was not found cannot  *)
(* be locked.  A handler that finds no PENDING request and is going to     *)
(* write one is two actions, and between them another handler may write    *)
(* one.  The partial unique index then refuses the second: its transaction *)
(* is rolled back, and if it was a worker's the process ends (run_forever  *)
(* catches nothing) until Docker starts it again.  A worker is three       *)
(* transactions (claim, trigger, failure of the trigger).  A transaction   *)
(* that dies or loses a deadlock before it wrote anything has not begun.   *)
(***************************************************************************)
EXTENDS Integers, FiniteSets

CONSTANTS
    Requests,       \* identities of build requests, in the order of their UUIDs
    NoRequest,      \* "no request was ever made"
    MaxAttempts,    \* KANOON_SITE_BUILD_MAX_ATTEMPTS
    MaxRevision     \* bound: content changes modelled

ASSUME RequestsAssumption == Requests \subseteq Nat /\ NoRequest \notin Requests
ASSUME MaxAttemptsAssumption == MaxAttempts \in Nat \ {0}
ASSUME MaxRevisionAssumption == MaxRevision \in Nat

VARIABLES
    content,    \* content_revision
    deployed,   \* last_successful_build_revision, or Null
    enabled,    \* TenantSiteBuildConfig.enabled
    request,    \* the table site_build_requests
    latest,     \* the request with the newest requested_at
    inserting,  \* why a handler that holds the site state inserts a request, or "NO"
    returning,  \* why a handler that holds this request ends its run, or "NO"
    polling,    \* whether a worker process polls
    claimed,    \* requests a worker has claimed and is about to trigger
    raised,     \* requests whose trigger raised, not yet written down
    builds,     \* requests the builder works on
    failures,   \* requests with a failed build the builder reports
    successes,  \* <<request, revision>>: successful builds the builder reports
    late        \* history: a failure was recorded for a request that was PENDING

queue == <<content, deployed, enabled, request, latest>>
writers == <<inserting, returning>>
workers == <<polling, claimed, raised>>
builder == <<builds, failures, successes, late>>
vars == <<queue, writers, workers, builder>>

-----------------------------------------------------------------------------

Null == -1

Outstanding == {"PENDING", "RUNNING"}

(* elapsed: the time in next_attempt_at (of a PENDING request) or in       *)
(* lease_expires_at (of a RUNNING one) has passed.  actual is Null until   *)
(* completed_at is set.  Attempts are only compared with MaxAttempts, so   *)
(* they are counted to MaxAttempts.                                        *)
BuildRequest ==
    [status : {"ABSENT", "SUCCESSFUL", "FAILED", "SUPERSEDED"} \cup Outstanding,
     target : 0..MaxRevision, attempts : 0..MaxAttempts, elapsed : BOOLEAN,
     actual : Null..MaxRevision]

NoBuild == [status |-> "ABSENT", target |-> 0, attempts |-> 0, elapsed |-> FALSE,
            actual |-> Null]

\* Who may have found no PENDING request: the reason for one, and for a return.
Reasons == {"CONTENT", "MANUAL"}
Ways == {"TRIGGER", "LEASE", "RETRY", "FATAL"}

(* Every row, claim and result has the type the schema gives it.           *)
TypeOK ==
    /\ content \in 0..MaxRevision
    /\ deployed \in Null..MaxRevision
    /\ enabled \in BOOLEAN
    /\ request \in [Requests -> BuildRequest]
    /\ latest \in Requests \cup {NoRequest}
    /\ inserting \in Reasons \cup {"NO"}
    /\ returning \in [Requests -> Ways \cup {"NO"}]
    /\ polling \in BOOLEAN
    /\ claimed \subseteq Requests /\ raised \subseteq Requests
    /\ builds \subseteq Requests /\ failures \subseteq Requests
    /\ successes \subseteq Requests \X (0..MaxRevision)
    /\ late \in BOOLEAN

WithStatus(s) == {r \in Requests : request[r].status = s}

Later(m, n) == IF m > n THEN m ELSE n

Init ==
    /\ content = 0
    /\ deployed = Null
    /\ enabled \in BOOLEAN
    /\ request = [r \in Requests |-> NoBuild]
    /\ latest = NoRequest
    /\ inserting = "NO"
    /\ returning = [r \in Requests |-> "NO"]
    /\ polling = TRUE
    /\ claimed = {} /\ raised = {}
    /\ builds = {} /\ failures = {} /\ successes = {} /\ late = FALSE

-----------------------------------------------------------------------------
(* Publishing handlers and the administrator.  They hold the site state.   *)

\* _enqueue finds a PENDING request: it takes the new target and is due.
Retarget(r, target) ==
    /\ inserting = "NO"
    /\ request[r].status = "PENDING"
    /\ request' = [request EXCEPT ![r].target = Later(request[r].target, target),
                                  ![r].elapsed = TRUE]
    /\ latest' = r

\* public_content_changed, in the transaction that publishes.
PublicContentChanged(r) ==
    /\ content < MaxRevision
    /\ content' = content + 1
    /\ Retarget(r, content + 1)
    /\ UNCHANGED <<deployed, enabled, writers, workers, builder>>

ManualRebuild(r) ==
    /\ Retarget(r, content)
    /\ UNCHANGED <<content, deployed, enabled, writers, workers, builder>>

\* Either of them finds none.
EnqueueBegin(reason) ==
    /\ inserting = "NO"
    /\ reason = "CONTENT" => content < MaxRevision
    /\ WithStatus("PENDING") = {}
    /\ WithStatus("ABSENT") # {}
    /\ inserting' = reason
    /\ UNCHANGED <<queue, returning, workers, builder>>

Inserted(target) ==
    [status |-> "PENDING", target |-> target, attempts |-> 0, elapsed |-> TRUE,
     actual |-> Null]

\* Mutation: a manual rebuild asks for the deployed revision.
EnqueueInsert_Deployed(r) ==
    LET revision == IF inserting = "CONTENT" THEN content + 1 ELSE content
    IN  /\ inserting # "NO"
        /\ WithStatus("PENDING") = {}
        /\ request[r].status = "ABSENT"
        /\ content' = revision
        /\ request' = [request EXCEPT
                         ![r] = Inserted(IF inserting = "CONTENT" THEN revision
                                         ELSE Later(deployed, 0))]
        /\ latest' = r
        /\ inserting' = "NO"
        /\ UNCHANGED <<deployed, enabled, returning, workers, builder>>

\* It inserts one, and its transaction commits.
EnqueueInsert(r) ==
    LET revision == IF inserting = "CONTENT" THEN content + 1 ELSE content
    IN  /\ inserting # "NO"
        /\ WithStatus("PENDING") = {}
        /\ request[r].status = "ABSENT"
        /\ content' = revision
        /\ request' = [request EXCEPT ![r] = Inserted(revision)]
        /\ latest' = r
        /\ inserting' = "NO"
        /\ UNCHANGED <<deployed, enabled, returning, workers, builder>>

\* The index refuses it: the publication is rolled back as a whole.
EnqueueRefused ==
    /\ inserting # "NO"
    /\ WithStatus("PENDING") # {}
    /\ inserting' = "NO"
    /\ UNCHANGED <<queue, returning, workers, builder>>

\* set_site_build_config.
SetEnabled(on) ==
    /\ enabled' = on
    /\ UNCHANGED <<content, deployed, request, latest, writers, workers, builder>>

-----------------------------------------------------------------------------
(* Workers: any number of them.                                            *)

\* The row of a request as _claim writes it.
Started(row) ==
    [row EXCEPT !.status = "RUNNING", !.elapsed = FALSE,
                !.attempts = IF row.attempts < MaxAttempts THEN row.attempts + 1
                             ELSE MaxAttempts]

\* _claim with nothing RUNNING.
ClaimDue(r) ==
    /\ polling /\ enabled
    /\ WithStatus("RUNNING") = {}
    /\ request[r].status = "PENDING"
    /\ request[r].elapsed
    /\ request' = [request EXCEPT ![r] = Started(request[r])]
    /\ claimed' = claimed \cup {r}
    /\ UNCHANGED <<content, deployed, enabled, latest, writers, polling, raised, builder>>

\* The lease of a request nobody writes to has expired.
LeaseExpired(r) ==
    /\ request[r].status = "RUNNING"
    /\ request[r].elapsed
    /\ returning[r] = "NO"

\* _claim takes over from an expired lease when a newer request waits.
ClaimOver(expired, r) ==
    /\ polling /\ enabled
    /\ LeaseExpired(expired)
    /\ request[r].status = "PENDING"
    /\ request[r].elapsed
    /\ expired < r
    /\ request' = [request EXCEPT
                     ![expired].status = "SUPERSEDED",
                     ![expired].elapsed = FALSE,
                     ![r] = [Started(request[r]) EXCEPT
                               !.target = Later(request[r].target, request[expired].target)]]
    /\ claimed' = claimed \cup {r}
    /\ UNCHANGED <<content, deployed, enabled, latest, writers, polling, raised, builder>>

(* One flush writes both rows in the order of their UUIDs.  If the new one *)
(* comes first there are two RUNNING rows, the index raises, and the worker *)
(* ends with nothing written.                                              *)
ClaimOverRefused(expired, r) ==
    /\ polling /\ enabled
    /\ LeaseExpired(expired)
    /\ request[r].status = "PENDING"
    /\ request[r].elapsed
    /\ r < expired
    /\ polling' = FALSE
    /\ UNCHANGED <<queue, writers, claimed, raised, builder>>

\* Mutation: an expired lease is closed as if a newer request waited.
Requeue_Supersedes(r) ==
    /\ polling /\ enabled
    /\ LeaseExpired(r)
    /\ WithStatus("PENDING") = {}
    /\ request' = [request EXCEPT ![r].status = "SUPERSEDED", ![r].elapsed = FALSE]
    /\ UNCHANGED <<content, deployed, enabled, latest, writers, workers, builder>>

(* _claim finds an expired lease and nothing else PENDING: the request will *)
(* be put back.  It is not flushed before the query for due requests, so it *)
(* is only claimed at the next poll.                                        *)
Requeue(r) ==
    /\ polling /\ enabled
    /\ LeaseExpired(r)
    /\ WithStatus("PENDING") = {}
    /\ returning' = [returning EXCEPT ![r] = "LEASE"]
    /\ UNCHANGED <<queue, inserting, workers, builder>>

\* The worker process is started again (docker-compose: unless-stopped).
Restart ==
    /\ ~polling
    /\ polling' = TRUE
    /\ UNCHANGED <<queue, writers, claimed, raised, builder>>

\* A lease or a backoff runs out.
TimePasses(r) ==
    /\ request[r].status \in Outstanding
    /\ ~request[r].elapsed
    /\ request' = [request EXCEPT ![r].elapsed = TRUE]
    /\ UNCHANGED <<content, deployed, enabled, latest, writers, workers, builder>>

\* _trigger: the builder accepts the webhook.
Trigger(r) ==
    /\ r \in claimed
    /\ enabled
    /\ claimed' = claimed \ {r}
    /\ builds' = builds \cup {r}
    /\ UNCHANGED <<queue, writers, polling, raised, failures, successes, late>>

\* _trigger fails; a webhook that timed out may have reached the builder.
TriggerRaises(r, reached) ==
    /\ r \in claimed
    /\ reached => enabled
    /\ claimed' = claimed \ {r}
    /\ raised' = raised \cup {r}
    /\ builds' = IF reached THEN builds \cup {r} ELSE builds
    /\ UNCHANGED <<queue, writers, polling, failures, successes, late>>

(* What _trigger_failed and a reported failure do to an outstanding        *)
(* request.  The query for a newer request takes any PENDING one; if there *)
(* is none, the request will be written as way says.                       *)
Fail(r, way) ==
    IF WithStatus("PENDING") # {}
    THEN /\ \E newer \in WithStatus("PENDING") :
                request' = [request EXCEPT
                              ![newer].target = Later(request[newer].target, request[r].target),
                              ![r].status = "SUPERSEDED",
                              ![r].elapsed = FALSE]
         /\ UNCHANGED returning
    ELSE returning' = [returning EXCEPT ![r] = way] /\ UNCHANGED request

\* Mutation: the status is not read again after the webhook.
TriggerFailed_Unchecked(r) ==
    /\ r \in raised
    /\ returning[r] = "NO"
    /\ raised' = raised \ {r}
    /\ Fail(r, "TRIGGER")
    /\ UNCHANGED <<content, deployed, enabled, latest, inserting, polling, claimed, builder>>

\* _trigger_failed: nothing is written unless the request is still RUNNING.
TriggerFailed(r) ==
    /\ r \in raised
    /\ returning[r] = "NO"
    /\ raised' = raised \ {r}
    /\ IF request[r].status = "RUNNING" THEN Fail(r, "TRIGGER")
       ELSE UNCHANGED <<request, returning>>
    /\ UNCHANGED <<content, deployed, enabled, latest, inserting, polling, claimed, builder>>

\* Mutation: a failure is retried however often the request was tried.
Returned_Uncapped(r) ==
    IF returning[r] = "FATAL" THEN "FAILED" ELSE "PENDING"

\* The status a handler that found no PENDING request writes.
Returned(r) ==
    IF returning[r] = "LEASE" \/ (returning[r] # "FATAL" /\ request[r].attempts < MaxAttempts)
    THEN "PENDING" ELSE "FAILED"

\* It is written: an expired request is due at once, a failed one backs off.
Return(r) ==
    /\ returning[r] # "NO"
    /\ Returned(r) = "PENDING" => WithStatus("PENDING") = {}
    /\ request' = [request EXCEPT ![r].status = Returned(r),
                                  ![r].elapsed = returning[r] = "LEASE"]
    /\ returning' = [returning EXCEPT ![r] = "NO"]
    /\ UNCHANGED <<content, deployed, enabled, latest, inserting, workers, builder>>

\* The index refuses it: a request was inserted meanwhile.  A worker ends.
ReturnRefused(r) ==
    /\ returning[r] # "NO"
    /\ Returned(r) = "PENDING"
    /\ WithStatus("PENDING") # {}
    /\ polling' = IF returning[r] \in {"TRIGGER", "LEASE"} THEN FALSE ELSE polling
    /\ returning' = [returning EXCEPT ![r] = "NO"]
    /\ UNCHANGED <<queue, inserting, claimed, raised, builder>>

\* A worker dies, before or after its trigger.
Crash(r) ==
    /\ r \in claimed \cup raised
    /\ \/ claimed' = claimed \ {r} /\ UNCHANGED raised
       \/ raised' = raised \ {r} /\ UNCHANGED claimed
    /\ UNCHANGED <<queue, writers, polling, builder>>

-----------------------------------------------------------------------------
(* The builder: it fetches the latest content whatever the target was,     *)
(* switches the release, and reports, late, again or never.                *)

BuildSucceeds(r) ==
    /\ r \in builds
    /\ builds' = builds \ {r}
    /\ successes' = successes \cup {<<r, content>>}
    /\ UNCHANGED <<queue, writers, workers, failures, late>>

BuildFails(r) ==
    /\ r \in builds
    /\ builds' = builds \ {r}
    /\ failures' = failures \cup {r}
    /\ UNCHANGED <<queue, writers, workers, successes, late>>

-----------------------------------------------------------------------------
(* BuildResultService.record.  It locks the request, and the site state to  *)
(* record a success.  A refused result (409, 422) and the repeat            *)
(* of a recorded one change nothing.                                        *)

\* The request of a success that is recorded.
Decided(r, actual) ==
    [request[r] EXCEPT !.status = IF request[r].status = "SUPERSEDED"
                                  THEN "SUPERSEDED" ELSE "SUCCESSFUL",
                       !.actual = actual, !.elapsed = FALSE]

Decidable(r) ==
    \/ request[r].status \in Outstanding
    \/ request[r].status = "SUPERSEDED" /\ request[r].actual = Null

\* Mutation: the revision reported last is the one deployed.
RecordSuccess_Last(r, actual) ==
    /\ <<r, actual>> \in successes
    /\ returning[r] = "NO" /\ inserting = "NO"
    /\ actual >= request[r].target
    /\ Decidable(r)
    /\ deployed' = actual
    /\ request' = [request EXCEPT ![r] = Decided(r, actual)]
    /\ UNCHANGED <<content, enabled, latest, writers, workers, builder>>

\* Mutation: a revision older than the target is accepted.
RecordSuccess_Stale(r, actual) ==
    /\ <<r, actual>> \in successes
    /\ returning[r] = "NO" /\ inserting = "NO"
    /\ Decidable(r)
    /\ deployed' = Later(Later(deployed, 0), actual)
    /\ request' = [request EXCEPT ![r] = Decided(r, actual)]
    /\ UNCHANGED <<content, enabled, latest, writers, workers, builder>>

RecordSuccess(r, actual) ==
    /\ <<r, actual>> \in successes
    /\ returning[r] = "NO" /\ inserting = "NO"
    /\ actual >= request[r].target
    /\ Decidable(r)
    /\ deployed' = Later(Later(deployed, 0), actual)
    /\ request' = [request EXCEPT ![r] = Decided(r, actual)]
    /\ UNCHANGED <<content, enabled, latest, writers, workers, builder>>

RecordFailure(r, retryable) ==
    /\ r \in failures
    /\ returning[r] = "NO"
    /\ request[r].status = "RUNNING"
    /\ Fail(r, IF retryable THEN "RETRY" ELSE "FATAL")
    /\ UNCHANGED <<content, deployed, enabled, latest, inserting, workers, builder>>

\* The same of a request that is PENDING (again): the newer request is the request itself.
RecordLateFailure(r) ==
    /\ r \in failures
    /\ returning[r] = "NO"
    /\ request[r].status = "PENDING"
    /\ Fail(r, "RETRY")
    /\ late' = TRUE
    /\ UNCHANGED <<content, deployed, enabled, latest, inserting, workers, builds, failures,
                   successes>>

-----------------------------------------------------------------------------

Next ==
    \/ \E r \in Requests :
           \/ PublicContentChanged(r)
           \/ ManualRebuild(r)
           \/ EnqueueInsert(r)
           \/ ClaimDue(r)
           \/ \E expired \in Requests : ClaimOver(expired, r) \/ ClaimOverRefused(expired, r)
           \/ Requeue(r)
           \/ Return(r)
           \/ ReturnRefused(r)
           \/ TimePasses(r)
           \/ Trigger(r)
           \/ \E reached \in BOOLEAN : TriggerRaises(r, reached)
           \/ TriggerFailed(r)
           \/ Crash(r)
           \/ BuildSucceeds(r)
           \/ BuildFails(r)
           \/ \E actual \in 0..MaxRevision : RecordSuccess(r, actual)
           \/ \E retryable \in BOOLEAN : RecordFailure(r, retryable)
           \/ RecordLateFailure(r)
    \/ \E reason \in Reasons : EnqueueBegin(reason)
    \/ EnqueueRefused
    \/ \E on \in BOOLEAN : SetEnabled(on)
    \/ Restart

Spec == Init /\ [][Next]_vars

\* What a worker's poll does, if it does anything.
Poll ==
    \E r \in Requests :
        \/ ClaimDue(r)
        \/ Requeue(r)
        \/ \E expired \in Requests : ClaimOver(expired, r) \/ ClaimOverRefused(expired, r)

(* Workers poll for ever and are started again when they end, and not      *)
(* every claim is cut off before its webhook; transactions come to an end; *)
(* leases and backoffs run out; the tenant is enabled again some day.  The *)
(* builder ends each build, and its reports get through now and then.      *)
(* No publication and no crash is ever promised.                           *)
Fairness ==
    /\ SF_vars(Poll)
    /\ WF_vars(Restart)
    /\ WF_vars(EnqueueRefused \/ \E r \in Requests : EnqueueInsert(r))
    /\ WF_vars(\E r \in Requests : Return(r) \/ ReturnRefused(r))
    /\ SF_vars(\E r \in Requests : Trigger(r))
    /\ WF_vars(\E r \in Requests : TimePasses(r))
    /\ WF_vars(SetEnabled(TRUE))
    /\ WF_vars(\E r \in Requests : BuildSucceeds(r) \/ BuildFails(r))
    /\ SF_vars(\E r \in Requests :
                  \/ \E actual \in 0..MaxRevision : RecordSuccess(r, actual)
                  \/ \E retryable \in BOOLEAN : RecordFailure(r, retryable))

FairSpec == Spec /\ Fairness

-----------------------------------------------------------------------------
(* Properties.                                                             *)

(* A request that waits beside a RUNNING one can take its place: it is due, *)
(* so a takeover never passes it by, and asks for no less, so nothing is    *)
(* lost when the RUNNING one is superseded for it, nor when the return of   *)
(* the RUNNING one collides with it in the unique index and is refused.     *)
WaitingTakesOver ==
    \A q \in WithStatus("RUNNING"), r \in WithStatus("PENDING") :
        request[r].elapsed /\ request[r].target >= request[q].target

\* The content that is not deployed has a request that will bring it.
Awaited == \E r \in WithStatus("PENDING") \cup WithStatus("RUNNING") : request[r].target = content

\* The attempts to deploy the content were used up, or failed for good.
GivenUp == \E r \in WithStatus("FAILED") : request[r].target = content

Behind == content > 0 /\ deployed < content

(* docs/static-site-builds.md:68: "the goal is latest-state convergence."   *)
(* While the site is behind its content, a PENDING or RUNNING request has   *)
(* the newest revision as its target, or one that had it is FAILED for the  *)
(* administrator to see.                                                    *)
BuildAwaited == Behind => Awaited \/ GivenUp

(* No publication is forgotten, whatever is retried, taken over, merged or  *)
(* refused by an index, as long as no failure is recorded for a request     *)
(* that is PENDING.                                                         *)
NothingForgotten == late \/ BuildAwaited

\* SiteBuildService.status.
DisplayState ==
    LET status  == IF latest = NoRequest THEN "ABSENT" ELSE request[latest].status
        current == content
    IN  CASE ~enabled -> "NOT_CONFIGURED"
          [] enabled /\ status = "RUNNING" -> "BUILDING"
          [] enabled /\ status = "PENDING" -> "PENDING"
          [] OTHER ->
               IF status = "FAILED" /\ (IF deployed \in {Null, 0} THEN -1 ELSE deployed) < current
               THEN "FAILED"
               ELSE IF deployed # Null /\ deployed >= current THEN "UP_TO_DATE" ELSE "PENDING"

StatusIsTrue ==
    /\ DisplayState = "PENDING" /\ latest # NoRequest =>
           WithStatus("PENDING") \cup WithStatus("RUNNING") # {}
    /\ DisplayState = "FAILED" =>
           WithStatus("PENDING") \cup WithStatus("RUNNING") = {}
    /\ DisplayState = "UP_TO_DATE" => deployed = content

(* The state shown to the administrator is true: PENDING means that a       *)
(* request is outstanding, once anything was requested; FAILED means that   *)
(* none is, so he must act; UP_TO_DATE means that the newest content is     *)
(* deployed.  Again but for failures recorded for PENDING requests.         *)
HonestStatus == late \/ StatusIsTrue

(* A decision on a request is final: a worker whose webhook timed out, a    *)
(* lease that ran out and a late or repeated result never reopen it, and a  *)
(* recorded revision never changes.                                         *)
DecisionsStay ==
    [][\A r \in Requests :
        /\ request[r].status \in {"SUCCESSFUL", "FAILED"} => request'[r] = request[r]
        /\ request[r].status = "SUPERSEDED" => request'[r].status = "SUPERSEDED"
        /\ request[r].actual # Null => request'[r].actual = request[r].actual]_vars

Projection == INSTANCE SiteProjection

(* The queue implements SiteProjection: whatever order builds end and are   *)
(* reported in, the deployed revision never moves back and never runs ahead *)
(* of the content.                                                          *)
DeployedMovesForward == Projection!Spec

-----------------------------------------------------------------------------
(* The inductive invariant the safety properties follow from.              *)

\* No target, no built and no deployed revision runs ahead of the content.
NothingAhead ==
    /\ deployed <= content
    /\ \A r \in Requests : request[r].target <= content
    /\ \A r \in Requests, actual \in 0..MaxRevision :
           <<r, actual>> \in successes => actual <= content

\* Only a decided request has a recorded revision.
OnlyDecidedRecorded ==
    \A r \in Requests :
        request[r].actual # Null => request[r].status \in {"SUCCESSFUL", "SUPERSEDED"}

(* The newest request tells how the queue stands: it has the newest        *)
(* revision as its target and is never merged into another one; once it    *)
(* runs or has failed nothing else waits, and once it has succeeded the    *)
(* content it was made for is deployed.                                    *)
LatestTells ==
    latest # NoRequest =>
        /\ request[latest].target = content
        /\ request[latest].status \in {"SUCCESSFUL", "FAILED"} \cup Outstanding
        /\ request[latest].status = "SUCCESSFUL" => content <= deployed
        /\ request[latest].status \in {"RUNNING", "FAILED"} =>
               \A r \in Requests : request[r].status \in Outstanding => r = latest

\* What the partial unique indexes keep, one PENDING and one RUNNING request,
\* and the locks: only a RUNNING request is held, and no revision is published
\* while one is being inserted.
Indexed ==
    /\ \A s \in Outstanding : \A q, r \in WithStatus(s) : q = r
    /\ \A r \in Requests : returning[r] # "NO" => request[r].status = "RUNNING"
    /\ inserting = "CONTENT" => content < MaxRevision

QInv ==
    /\ TypeOK
    /\ Indexed
    /\ WaitingTakesOver
    /\ NothingAhead
    /\ OnlyDecidedRecorded
    /\ NothingForgotten
    /\ late \/ LatestTells

-----------------------------------------------------------------------------
(* Liveness.                                                               *)

\* A takeover that the index refuses at every poll.
Jammed ==
    \E expired \in WithStatus("RUNNING"), r \in WithStatus("PENDING") :
        request[expired].elapsed /\ r < expired

(* A site that is behind catches up, unless its attempts are used up, or    *)
(* the takeover of an expired lease is refused for ever, which the run      *)
(* QueueJams shows to happen.                                               *)
Converges == <>[]Jammed \/ (Behind ~> (~Behind \/ GivenUp))

(* docs/static-site-builds.md:40: "Leases recover crashes."  Whatever        *)
(* happened to the worker of a request, once its lease has run out it does   *)
(* not stay RUNNING for ever.                                                *)
LeasesRecover ==
    \A r \in Requests :
        (request[r].status = "RUNNING" /\ request[r].elapsed) ~> request[r].status # "RUNNING"
=============================================================================
