# Kanoon backend: formal specification

This directory specifies the behaviour of the Kanoon backend (`app/`) in TLA+. TLC checks
the specifications on small instances, TLAPS proves the most important properties for every
value of the constants. `PROJECT.json` maps each definition to the source lines it models
and lists runs, mutations, findings, hazards and theorems; this file explains them.

Kanoon is a multi-tenant FastAPI application over one PostgreSQL database. All state lives
in that database; requests, the site-build worker, the payment gateway and the site builder
run concurrently. A handler is one transaction (`core/database.py:50-63`, READ COMMITTED)
that takes row locks with `SELECT ... FOR UPDATE`, so almost all that can go wrong lies
*between* transactions, or where a transaction awaits something outside the database.

## 1. Inventory

| Part | State | Operations | Talks to | What makes it correct |
|---|---|---|---|---|
| Registrations `registrations/` | `registrations`, `registration_contacts`, draft tokens | draft, patch, contacts, profile image, token rotation, submit | exams (lock, capacity), media, codes | only valid rows are submitted and stay valid; the capacity is kept; old tokens are dead |
| Administration `registrations/admin_*` | the same rows, audit trail | cancel, restore, note; list, export | registrations | never undoes what clients and callbacks rely on |
| One-time codes `otp/` | `otp_challenges` | send, verify; change of the phone number | SMS provider, registrations | only the newest code for the present number verifies, once; quotas hold under overlap |
| Payments `payments/` | `payment_transactions`, registration status | initiate, callback, status | gateway, registrations | one active payment, paid once, only money completes |
| Payment gateway (external) | orders | open, pay or close, verify | customer, callback | — |
| Site builds `site_builds/` | `tenant_site_states`, `site_build_requests`, `tenant_site_build_configs` | enqueue, rebuild, claim, trigger, failure, result, status | blog, builder, platform | the newest content is deployed or visibly failed; nothing runs twice or moves back |
| Site builder (external) | builds | fetch snapshot, deploy, report | snapshot, result callback | — |
| Blog posts `blog/service.py` | `posts`, media references | create, update, publish, archive | site builds (`public_content_changed`), media | each public change raises the revision in the same transaction; images are public |
| Rich text `blog/rich_text.py` | — | validate, collect images, render | blog posts | exactly the grammar is accepted, and rendered balanced |
| Snapshot `blog/public_router.py` | — (reads) | snapshot with three tries | site state, posts | the content is that of the revision it names |
| Sign-in and refresh tokens `auth/` | `authentication_attempts`, `refresh_tokens` | tenant and platform sign-in, refresh with rotation and reuse (there is no logout) | tenants | the throttle counts overlapping attempts; a family has one live token; a closed session stays closed |
| Media `media/` | `media_assets`, objects in the store | initiate, send by form, complete, download; profile images | object storage, registrations | READY describes the object that was inspected; personal images stay private |
| Tenancy `tenancy/` | tenants, domains, features, build configuration | create, suspend, add domain, set feature; resolve a host | every request (middleware) | a primary domain; a request sees one tenant |
| Database sessions `core/database.py` | the pool, settings of a transaction | global and tenant session | every handler | no role or tenant is left on a pooled connection; the pool does not stand still |
| Content administration `content/admin_*` | news, banners, honors, staff, albums, plans, exams, profile and its contacts, contact requests | create, update, archive; replace and reset; handle | audit trail | what an editor was told is what the rows say; nothing archived comes back |
| Public content `content/public_router.py` | `contact_requests` | bootstrap, paged lists, contact form | profile, content | lists lose only what moved; the form is throttled; contacts match their profile |
| Exams and pricing `exams/` | exams, plans, associations | capacity, price, plans | registrations | one capacity; an exam offers the plans last answered |
| Audit trail `audit/` | `audit_events` | append | every change of the administration | an event for each change, in order |
| Schema `migrations/` | tables, keys, policies, grants | upgrade, downgrade | all rows | migrations succeed from any level; tenants stay apart in the database |
| Release scripts `deploy/production/` | releases, links, running application | deploy, roll back | schema, CI | a release never runs on a schema it lacks; `current` moves to verified releases only |
| Start-up, configuration, CLI, logging, errors, OpenAPI | — | — | everything | — |

Where it is hard:

* **An await inside a transaction.** `PaymentService.initiate` opens an order at the gateway
  before its row is committed; a code is handed to the SMS provider before its row is; a
  completion asks the object store while it holds the asset. A crash in between undoes the
  database and not the other side.
* **Statuses overwritten unread.** OTP verification and payment callbacks write the status
  of a registration whatever it was.
* **Counting what others are about to insert.** Seats, sign-in attempts, codes and contact
  requests are counted under locks that must cover count and insert, with a clock read
  before the locks.
* **Time and repetition.** Leases, backoffs, tokens, links and forms expire; callbacks and
  results are late, repeated or lost.
* **A queue whose rows change while someone works on them.** A PENDING request takes new
  targets; a RUNNING one can be superseded, retried or finished by a result nobody waits for
  any more.
* **Several statements that see several states** (READ COMMITTED): snapshots, bootstraps,
  page and count, DELETE followed by INSERT, an UPDATE that misses a row just inserted.
* **Rules that an index enforces** (`uq_*`): a violated index is an error in a worker loop,
  not a wait.
* **Errors that undo what was written before them**: REJECTED uploads; failed attempts and
  wrong codes must survive the error that reports them.

The hazards this leads to are listed, each at its line, in `PROJECT.json` (`hazards`); every
one names the properties aimed at it.

## 2. Modules

| Module | Models | State |
|---|---|---|
| `Registrations` | the registration rows and every handler that edits, verifies, submits, cancels or restores them | `reg`, `held`, `submitting` |
| `Payments` (extends it) | transactions, gateway orders, initiation and callback; the composed specification `Spec` | `txn`, `order`, `answer` |
| `PaymentPromise` | abstract: due, pending, settled for each payer | `phase` |
| `DraftAccess` | draft tokens, their rotation and expiry; the signed link back from a payment | `draft`, `payment`, `visit`, `back`, `moment` |
| `OtpCodes` | one-time codes, their quotas and attempts, the phone number | `clock`, `reg`, `code` |
| `MediaObjects` | media rows, the objects behind them, profile images | `assets`, `object`, `touched`, `portrait`, `standing`, `call`, `tick` |
| `SiteBuilds` | the build queue of a tenant, its workers, its builder | `content`, `deployed`, `enabled`, `request`, `latest`, `inserting`, `returning`, `polling`, `claimed`, `raised`, `builds`, `failures`, `successes`, `late` |
| `SiteProjection` | abstract: content gets revisions, deployment moves forward | `content`, `deployed` |
| `BlogPosts` | blog posts, their media assets, the revision their changes are counted in | `post`, `asset`, `revision`, `bypassed` |
| `BlogSnapshots` (extends it) | the snapshot handler, statement by statement; the composed specification `Spec` | `pc`, `try`, `before`, `loaded`, `shown` |
| `RichText` | validation and rendering of documents, against a grammar | `content`, `stage`, `required`, `calls`, `at`, `counters`, `results`, `wrapped` |
| `Pages` | a client's walk through the pages of a listing | `listing`, `key`, `listed`, `page`, `step`, `total`, `seen`, ... |
| `Sessions` | sign-in attempts and their limit, refresh tokens and their families | `clock`, `attempt`, `token`, `refresh` |
| `SessionPromise` | abstract: a session is opened once and closed once | `session` |
| `Content` | rows that editors create, update and archive, plans of exams, audit events | `row`, `offers`, `answered`, `trail`, `edit` |
| `SchoolProfile` | the profile with its contacts, and the bootstrap that reads them | `last`, `profile`, `contact`, `write`, `page` |
| `ContactRequests` | the contact form and its quota | `time`, `form` |
| `Tenancy` | tenants, domains, host resolution, pooled sessions | `tenant`, `domain`, `canonical`, `adding`, `conn`, `req` |
| `Schema` | migrations, statement by statement, and rows written between them | `level`, `role`, `db`, `work`, `target`, `reached`, `done`, `stored` |
| `Releases` | `deploy.sh` and `rollback.sh`, step by step | `uploaded`, `described`, `current`, `previous`, `schema`, `running`, `proven`, `script` |
| `PaymentsProofs`, `SiteBuildsProofs`, `SessionsProofs`, `SchemaProofs` | inductive invariants and theorems of one module | |
| `BlogProofs` | of `BlogSnapshots`, `Pages` and `RichText` | |
| `ContentProofs` | of `Content`, `SchoolProfile` and `ContactRequests` | |
| `SiteProofs` | of `DraftAccess`, `MediaObjects` and `OtpCodes`, and of `MCSite` as a whole | |
| `PlatformProofs` | of `Tenancy` and `Releases`, and of `MCPlatform` as a whole | |
| `MCPayments`, `MCSiteBuilds`, `MCSessions` | instances for TLC of one specification | |
| `MCBlog`, `MCSite`, `MCPlatform` | instances for TLC of several that share no state | `turn` |

A definition whose name ends in an underscore and a word (`InitiateOpen_NoActiveQuery`) is a
*mutation*: the definition with a plausible slip. It belongs to no specification.
`PROJECT.json` pairs each property with a mutation that breaks it, which shows that the
property depends on that line of the code. A property of several named parts (`Rationed`,
`CodeProvesPhone`, `EditsAreAsTold`, `ContactsMatch`, `MediaTruthful`, `ExpiryIsFinal`,
`ReleasesMatch`, `MigrationsSucceed`, `RowsAreGuarded`, `WalksTell`, `AcceptsGrammar`) has
mutations for its parts in the module; `PROJECT.json` lists one.

How the modules fit together: `Payments` composes with `Registrations`, and `BlogSnapshots`
with `BlogPosts`, because their handlers lock each other's rows. Elsewhere the parts meet in
one fact, which the coarser module keeps as a flag or a guard and the finer one explains:
`challenge` of a registration (`OtpCodes`), its image status (`MediaObjects`), who may act
on it (`DraftAccess`), the revision of the blog (`content` of `SiteBuilds`), the schema a
release needs (`schema` of `Releases`, `level` of `Schema`).

Common to all: a row lock or an advisory lock is held from the step that takes it to commit
or rollback; a request that dies is rolled back, at any step; a statement sees what is
committed when it starts; a refusal that changes nothing is a step that does nothing, and
usually left out. A module in which handlers take one lock at their start, and do nothing
else outside the database, has one action for each handler.

### Registrations and Payments

`reg[r]` is the row of a registration. Kept of it: `status`, whether `phone_verified_at` is
set, whether a usable one-time code exists, whether the form is complete, the status of the
profile image, `payment_status`, whether `submitted_at` is set, and whether the audit trail
has an administrator's update. The statuses DRAFT and READY_FOR_SUBMISSION, which no code
writes, are left out.

A handler first locks its row, so it is one action, enabled when nobody else holds the row.
Three handlers keep the lock over a second wait and are split there:

| Code | Actions |
|---|---|
| `submit` (row lock, exam lock, count, write) | `SubmitBegin`, `SubmitCommit` / `SubmitAbort` |
| `initiate` (row lock, gateway, insert) | `InitiateOpen`, `InitiateCommit` / `InitiateAbort` |
| `verify_callback` (transaction lock, gateway, row lock, write) | `CallbackVerify`, `CallbackCommit` / `CallbackAbort` |

`held` are the rows such a request keeps, `submitting` the one that also holds the exam row,
`answer` what the gateway told a callback that has not committed. Rows of an uncommitted
initiation have status OPENING, those of one that rolled back LOST: their order stays at the
gateway, no other request ever sees them.

What is abstracted, and why that loses nothing the properties tell apart:

* Deadlines, wrong draft tokens, wrong nonces, unknown providers only refuse a request: a
  refused request is a step that does nothing. Draft tokens, their rotation and expiry, and
  the expiry of a callback's signed state are in `DraftAccess`.
* A price is "above zero or not" (`Priced`), fixed at creation as in the code. A missing
  currency refuses like a missing price.
* `callback_consumed_at` is set exactly when the status leaves PENDING.
* `challenge` says that the newest challenge of the current phone can still be verified
  (`OtpCodes` has the codes themselves). `SendOtp` may always succeed: quotas only refuse.
* Two registrations with one national code collide in an index and the second is refused;
  this is not kept.
* `capacity` NULL (no limit) is not instantiated: it removes a guard, and only
  `SeatsRespected` would lose its meaning.
* The gateway answers "paid" to a callback exactly when the customer has paid the order. A
  callback may come before he did. The repository's mock gateway, which believes the
  browser, is for tests only and is not modelled.
* A callback takes its transaction lock at `CallbackVerify`; `answer[t] # "NONE"` is that
  lock.

One parameter describes the environment. `LateVerifiers` are the registrations for which a
right one-time code may reach `otp/verify` after the row left the editable statuses: the
code allows it, so the runs let it happen. `Prompt` is the rest. `PaidOnce`,
`SubmittedStaysValid`, `SeatsRespected` and `PromiseKept` speak of `Prompt`, because the
late code breaks them: run `DuplicateCompletion` shows it. `MCPayments` keeps registrations
of the two sorts out of one behaviour (`Apart`).

### DraftAccess

A request (`visit`) brings the token it was given when it was sent, waits for the row of its
registration, is judged when it has the row (`Authorize`, `Deny`: `authorized_draft`), and
keeps the row to its end. `rotate` replaces token and expiry; `pay` signs the link to come
back with (`Signed`), waits for the gateway, and commits the payment (`Opened`). Reading
takes no lock. A callback (`back`) is judged by the signed state's expiry on arrival and
decides later. What these requests write to the registration is in `Registrations` and
`Payments`. Tokens are numbered, so an old one is a smaller number; signatures are left out.

### OtpCodes

`send` is `SendBegin` (row lock, time read), `SendAdmitted` or `SendRefused` (the advisory
locks of tenant, phone and address, the counts, the provider), `SendCommit` or `SendLost`.
The tenant's lock comes first and is held to the end, so it alone decides who waits: one
request of a tenant is between count and commit at a time. `verify` and the change of the
number (part of `patch`) are one action each. `SendLost` keeps the row of a message that
left without a commit, so that the properties can say that it verifies nothing. A code is
right or wrong; its digest is left out. One tenant.

### MediaObjects

A declaration writes a PENDING row and hands out a form. `Send` is the browser and the
object store, which enforces the form's policy: type, size, expiry, and nothing else, so an
object may be replaced after it was inspected; `touched` remembers that. A completion is
`CompleteBegin` (row lock), `InspectMatches` or `InspectDiffers` (head of the object),
`CompleteCommit`, and may die anywhere. An administrator's asset and an applicant's profile
image have handlers of their own, which differ in the locks and in REJECTED; both are an
argument (`owner`) of the same actions.

`standing` is what the status of a registration means for its image: OPEN (the applicant may
change it), SUBMITTED (a submission has checked it), IMPOSED (the administrator's restore or
a payment's callback wrote the status unchecked), CANCELLED. It moves both ways: a code that
is verified late opens a submitted row again (`VerifyReopens`), after which the image can be
replaced or removed, and the row be submitted anew.

### SiteBuilds

One tenant. `request[r]` is a row of `site_build_requests`; `elapsed` says that the time in
`next_attempt_at` (PENDING) or in `lease_expires_at` (RUNNING) has passed, `TimePasses`
makes it true. `latest` is the request with the newest `requested_at`. Any number of workers
poll: `claimed` are claims about to be triggered, `raised` triggers that failed and are not
yet written down. The claims of two workers on one request (after a lost lease) merge into
one: the builder treats the request's UUID as an idempotency key, and what the second would
do is what the first does.

The builder is external: it builds the *latest* content whatever the target was, succeeds or
fails, and its report (`successes`, `failures`) can be delivered at any time, repeatedly, or
never. `late` remembers that the failure of a request was recorded while it was PENDING
(again): the code accepts it, and `QueueForgets` shows with what result.

Two partial unique indexes allow one PENDING and one RUNNING request. The handlers have no
lock in common that would keep them from running into these: `_enqueue` holds the site
state, a report and a worker hold their request. So a handler that finds no PENDING request
and is going to write one is split at the point where another may write it first:

| Code | Actions |
|---|---|
| `_enqueue` finds none, inserts | `EnqueueBegin`, then `EnqueueInsert` / `EnqueueRefused` |
| expired lease, failed trigger, reported failure find none, put the request back | `Requeue` / `TriggerFailed` / `RecordFailure`, then `Return` / `ReturnRefused` |
| takeover of an expired lease: two UPDATEs in one flush | `ClaimOver` / `ClaimOverRefused` |

* A refused publication is rolled back as a whole, a refused report is answered with an
  error and may be sent again. In a worker nothing catches the exception: the process ends
  (`polling`) until Docker starts it again (`Restart`).
* SQLAlchemy orders the UPDATEs of a flush by primary key. A takeover succeeds if the
  expired request comes first; in the other order there are two RUNNING rows for a moment,
  and the index refuses it. `Requests` are numbers in the order of their UUIDs, which are
  random: requests are created in any order.
* All other handlers are one action; a transaction that dies or loses a deadlock has written
  nothing, and is a step that does nothing.
* `attempts` is only compared with `MaxAttempts`, so it is counted to `MaxAttempts`; this is
  exact. `completed_at` is set exactly when `actual_revision` is.

### BlogPosts and BlogSnapshots

`post[p]` is a row of kind BLOG: its status, its `document` (all fields an editor writes,
with the HTML and the reference rows each write derives from them) and its `cover` (the
cover or the Open Graph image; both are checked and shown alike). `Inline[d]` are the assets
that the images of `d` name. `asset[m]` is a row of `media_assets`. `revision` is the
`content` of `SiteBuilds`, whose queue is left out: `PublicContentChanged` here is the same
step seen from the blog.

* A handler locks its post, so it is one action; it reads media without a lock, which is
  harmless because an asset that is READY and PUBLIC stays so.
* Slugs only refuse (a unique index); the feature flag and permissions as well.
* The object store is left out of `CompleteUpload`: an object that is missing or not as
  declared refuses the request. REJECTED is written just before that error and rolled back
  with it, so no row ever has it.
* `ArchiveResource` is `DELETE /admin/posts/{id}`, a handler for all kinds of content, which
  archives a BLOG post like any other and counts no change: run `BypassedArchive`.
  `bypassed` are the published posts it has archived since the revision last changed, so the
  properties of revision and snapshot can say exactly how far this reaches.

A snapshot request reads the revision (`ReadBefore`), the posts, their media and the
revision again (`ReadAfter`); between any two of these every other handler may commit.
`loaded` are the `Post` objects the session still references when it tries again: SQLAlchemy
does not refresh them, so `Row` prefers them to the database. Media are read afresh: nothing
references their objects after `_media_map`. One request at a time is enough, for a snapshot
writes nothing and two of them cannot meet.

### Sessions

A sign-in holds the advisory lock of its scope (e-mail and address) from the count of
failures (`LoginBegin`) to the commit of its own row; the password check lies between. A
tenant's sign-in issues its pair in a second transaction (`TenantIssue`), the platform's in
the same (`PlatformIssue`). A refresh locks the row of its token (`RefreshBegin`), then
inserts the new one (`RotateCommit`). The reuse of a revoked token starts an UPDATE of the
family, which sees the rows committed then (`ReuseDetected`), waits for those a rotation
holds, and revokes what it saw (`RevokeFamily`). `Session(f)` maps a family to
`SessionPromise`: none, open while a token is live, closed. Access tokens and roles are left
out, as nothing revokes them.

### Content, SchoolProfile, ContactRequests

`Content` has one module for the resources of the administration, because they share
`admin_service.py`: rows with a status and rows with `is_active` and `archived_at`. An edit
is `Get` (row lock, check), then commit or failure. `Get` also fixes which plans of an exam
the DELETE has seen (`offered`), since under READ COMMITTED it might miss others; the lock
of the exam is what keeps the union of two bodies out. `SchoolProfile` has one action for
each statement: a replacement looks for the row, deletes each kind of contacts, and only then
sends the INSERT of a row it did not find, for the session does not flush by itself
(`core/database.py:42`). FOR UPDATE locks nothing while there is no row; two first
replacements delete side by side, and only the unique index (`InsertRow`, `EntryTaken`)
makes one of them wait or fail. Rows are named by the replacement that wrote them. `Readers` are the
site's bootstrap, which reads four tables in four statements. `ContactRequests` waits for
two locks, address before phone, with the start of the hour read before either.

### Pages

A page is a count and a slice, two statements that see two states; the administration's list
of registrations takes them in the other order. A listing's ORDER BY is an operator; rows it
does not separate may come in any arrangement, anew for each statement. Editors publish,
withdraw and reorder between any two statements. Entries are numbers because ids break ties.

### RichText

A document is the sequence of its nodes in the order in which they are written, each with
its level below the root; `Compose` adds a node at any level up to one below the last one's,
so every tree there is can be composed, well-formed or not. Saving it walks the nodes twice.
The recursion of `_validate_node` and of `_render_node` is the variable `calls`, the nodes
whose frames are on the stack, outermost first: `ValidateNode` and `RenderNode` are calls,
`ReturnValid` and `ReturnRendered` returns, `at` is the node that the loop of the innermost
call comes to next. `Checked` is the loop's test of the child's type and then what the call
does before its own children, counters first, in the order of the code; the first fault
is the exception (`Refuse`). `counters` is the dictionary that goes through the recursion.
`results` holds what each call of the renderer has joined so far, the page first; a mark
encloses the string of its text (`RenderMark`), a return joins the block to the caller's
string. `Raise` is the one exception that an accepted document can meet: an ordered list
whose attrs are null.

The grammar (`Grammatical`) says nothing of walks: it asks of every node that its parent, the
last node before it one level up, allows it, and compares sizes with limits. `Balanced` is
stated of any sequence of tags, by how many elements are open after each. The strings of the
properties are classes (`"blank"`, `"unsafe"`, `"m1"`).

### Tenancy

A request resolves its host in a session of its own, gives the connection back, and takes
another for its handler; `Doubles` are the routes whose handler opens a second session while
the first is held, `Callbacks` those that name their tenant by signed state. `local` says
that role and tenant were set for the transaction only. `adding` holds the primary domains
being added: the UPDATE picks the rows committed at its start (`seen`) and waits for whoever
holds them; the unique index on the host name makes a second insertion of one name wait
(`Free`). `Leave` is an answer, an error, a crash, or the pool's timeout.

### Schema and Releases

`Schema` has the three migrations as sequences of statements with what each needs and does:
tables, foreign keys (with or without the tenant), policies, FORCE, grants, the backfill of
posts. The lists of tables are those of the migrations (`TenantTables` is the one that gets
policies). One alembic command is one transaction: `work` is the schema as it sees it,
`reached` the level and `done` the statements of the next migration that it has come to, on
its way to `target`. `role` is the database role the policies are to hold for: missing, fit
or able to bypass them when the database is set up, created by the container's first start
(`Provision`, `deploy/postgres/init/00-kanoon-roles.sh`) if it is missing, and checked by
the first migration before its first statement (`RoleAccepted`). The application writes rows
of granted tables between migrations, for any owner and with any reference, as a defect
might; the policy, unless the role bypasses it, and the keys decide.

`Releases` has every step of both scripts, the file lock, the traps of
`deploy.sh`, and death at any step. `Level` is the last migration of a release. The part of
`deploy.sh` that is commented out (lines 118-158) is not modelled: the links are written by
`rollback.sh` only, and `Init` has a host that an earlier version has linked.

## 3. Runs

| Run | Instance | Shows |
|---|---|---|
| `Payments` | 2 registrations without late codes (one priced), capacity 1, 2 transactions, 2 keys; or 1 priced registration with late codes, 3 transactions, 2 keys | `OneActivePayment`, `WaitsForAPayment`, `CompletedIsPaid`, `DecidedOnce`, `PaidOnce`, `SubmittedStaysValid`, `SeatsRespected`, `PromiseKept` |
| `DuplicateCompletion` | 1 registration with late codes, 2 transactions | finding: `NoDuplicateCompletion` violated |
| `QueueSafety` | 2 requests, 2 attempts, 2 publications, late failures, UUIDs in any order | `WaitingTakesOver`, `NothingForgotten`, `HonestStatus`, `DecisionsStay`, `DeployedMovesForward` |
| `QueueConverges` | 2 requests, 2 attempts, 1 publication, UUIDs in any order, fairness | `Converges` |
| `QueueJams` | 2 requests, 1 attempt, fairness | finding: `LeasesRecover` violated |
| `QueueForgets` | 2 requests, 2 attempts | finding: `BuildAwaited` violated |
| `BlogSnapshots` | 2 posts, 1 asset, 3 documents, 3 publications, 3 tries; listings of 3 entries with 2 sort keys, pages of 2, 2 changes; documents of 3 nodes of 17 kinds, of 5 nodes of 5 sound kinds; limits: 5 nodes with the root, 3 levels, one text | `PublishedMediaIsPublic`, `ChangesAreCounted`, `SnapshotListsRevision`; `WalksTell`; `AcceptsGrammar`, `RendersAccepted` |
| `BypassedArchive` | the same | finding: `ArchivingRequestsBuild` violated |
| `Sessions` | 3 sign-ins, 4 tokens, 2 refreshes, 1 scope, limit 2, window 1, times 0 to 2 | `GuessesThrottled`, `OneChain`, `SessionKept` |
| `FamilyRevoked` | 1 sign-in, 4 tokens, 2 refreshes | finding: `FamilyRevoked` violated |
| `Site` | 2 editors of 3 rows; 2 writers and 1 reader of 2 kinds of contacts, 2 replacements; 2 forms, limit 1; 3 codes, 2 registrations, 2 numbers, 2 addresses; 2 assets, 2 completions, 1 registration; 1 draft, 2 visits, 2 callbacks, 2 tokens, 2 payments | `EditsAreAsTold`; `ContactsMatch`; `FormsThrottled`; `Rationed`, `CodeProvesPhone`; `MediaTruthful`; `OldTokensAreDead`, `ExpiryIsFinal`; `SiteTypeOK` |
| `Platform` | 2 tenants, 3 hosts, 3 requests (two with two sessions, one callback), 2 connections; 3 releases, 2 levels, 2 scripts; 3 migrations, 2 tenants, 2 rows, 3 roles | `Isolated`, `OnlyDoublesExhaust`, `Routed`; `ReleasesMatch`, `MovesToProven`; `MigrationsSucceed`, `RowsAreGuarded`; `PlatformTypeOK` |

`BlogSnapshots`, `Site` and `Platform` check several modules. These share no variable, so no
behaviour of all of them can do more to a property than its own module does; `turn` is
chosen at the start and one module runs while the others stay in their initial states. The
type invariants of `Payments`, `SiteBuilds`, `BlogSnapshots` and `Sessions` are theorems for
all instances and are not run again.

Why the bounds are enough. A second payment needs a second transaction and a second key;
three transactions let one be lost, one fail and one succeed. A race for seats needs two
registrations and one seat; that the second one is free of charge changes nothing in that
race. In the queue, one PENDING and one RUNNING request are all that can be outstanding;
with two requests every pair of interacting rows occurs, a third would only add decided
rows, which `DecisionsStay` freezes. Two publications let a target grow while a build of an
older one is under way, and let a publication collide in the index with a retry. Two
attempts give one retry and one refusal to retry. The run of `Converges` is smaller: one
publication and manual rebuilds, which give the second request; the tenant is disabled only
while there is no second request, and no failure is recorded late (`NextQuiet`, since
`QueueForgets` breaks the property at once). A snapshot whose three tries all fail needs
three changes; two posts let one change while another is listed.

A throttle is broken by one request more than its limit: three sign-ins against two, three
codes against two, two forms against one, two requests that overlap, and enough ticks that a
window begins in the past and ends. A chain of tokens needs three members to branch (an old
one, the one being rotated, the one inserted), and a fourth for another family. A page of
two and three entries gives a full page, a short one and one that moves from the one to the
other; two changes let one compensate the other. Three nodes of all kinds put each kind
below and beside each other one; what is accepted goes up to four nodes on three levels, as
an image beside a heading in an item of a list; five nodes, five levels and two texts are
more than the limits. Two writers are all that a lock separates, and two
replacements are a first one and one after it; two kinds of contacts let a reader see one
before and one after a commit. Two scripts are all that the file lock separates; three
releases on two levels include a rollback over a migration. Two connections and two double
routes are the smallest demand that stops the pool, which the run reaches. The clocks run one step past each expiry that is compared.
For all properties but one of liveness (the end of section 5), the theorems remove the
bounds.

Deadlock is not checked in `Sessions`, `FamilyRevoked`, `Site` and `Platform`: clocks,
identities and trails are bounded, and at their bounds nothing may be left to do.
`OnlyDoublesExhaust` asks the question for the pool.

### Properties worth a remark

* `OneActivePayment` says that the partial unique index never has to refuse what the handlers
  write. The indexes of the queue do refuse writes; `WaitingTakesOver` is why that loses
  nothing: whoever is refused finds a request that asks for no less and is due.
* `WaitsForAPayment`: no handler leaves a registration in PAYMENT_PENDING without a pending
  transaction that can move it on. A failed callback must therefore change the status. It
  does so whatever the status was: a row cancelled meanwhile is SUBMITTED again.
* `SeatsRespected` counts the rows that neither an administrator nor a late code moved:
  `AdminUpdate` cancels any row but a COMPLETED one and restores it to SUBMITTED, past the
  capacity and the checks of `submit`, even if it was never submitted.
* `NothingForgotten` relates targets of requests to the content: the case that matters is a
  request superseded by another whose target must have grown, and a return that collides
  with a publication. `late` exempts what follows a failure recorded for a PENDING request;
  without the exemption the statement is `BuildAwaited`, which `QueueForgets` refutes.
* `Converges` allows the two ends of a demand that the code knows (deployed, or its attempts
  used up) and the one it does not: the jam that `QueueJams` shows.
* `HonestStatus` is about `SiteBuildService.status`, which looks only at the newest request,
  and at `(deployed or -1)`; it has the same exemption.
* `ChangesAreCounted` goes both ways: a change visitors can notice is counted once, and
  nothing else is. The generic archive handler is the exception the property states: what it
  takes off, and nothing more, may differ at the same revision. It needs
  `PublishedMediaIsPublic`: an upload that is completed would otherwise change a published
  post without a save.
* `SnapshotListsRevision` is what remains of the snapshot's promise when a later try
  answers: the right posts, maybe with the fields of an earlier revision; and a post that
  was archived uncounted may still be listed, or not.
* `PortraitsStayPrivate` (in `MediaTruthful`): a row that the applicant's own submission put
  into a submitted status still has the image it was checked with. It says nothing of a
  status that the administrator or a callback wrote (IMPOSED), for these check nothing.
* `Rationed` counts rows. A request that dies after the provider took the message sends a
  code that no row counts; it verifies nothing either.
* `ExpiryIsFinal` includes what an abandoned payment comes to: its link expires, and the
  registration can neither be paid again nor decided (`AbandonedStaysPending`).
* `ServedAsDeclared` (in `MediaTruthful`) says how much of READY survives a form that can be
  used again: type and size, not the content.
* `NoStaleContacts` (in `ContactsMatch`) allows a bootstrap to mix a profile with contacts
  of a *later* replacement, which its four statements cannot prevent; never with older ones.
* `WalksTell` bounds what a walk loses by what moved during it. Lists ordered by name or by
  time alone get the weaker `OnlyTiesSlip`; the generic list of the administration has no
  ORDER BY and gets none.
* `OnlyDoublesExhaust`: the pool does stand still when each connection is held by a request
  that wants a second one. The property says that nothing else stops it: not host
  resolution, which every request does first, and no request that holds more than one.
* `FamilyRevoked` is refuted, `SessionKept` holds: a family may survive a reported reuse,
  but once it has no live token it never has one again.

## 4. Fairness

`SiteBuilds!Fairness` is used by `QueueConverges`:

* strong fairness of `Poll` and weak fairness of `Restart`: workers run `run_forever`, and
  are started again when an exception ends them (`docker-compose`: unless-stopped); strong
  because disabling the tenant, or the end of a worker, disables the poll;
* weak fairness of the ends of transactions (`EnqueueInsert`, `EnqueueRefused`, `Return`,
  `ReturnRefused`);
* strong fairness of `Trigger`: not every claim dies before its webhook;
* strong fairness of recording reports: the builder repeats its report until it is accepted,
  while rows change under it; it is one fairness for all of them, so no single report is
  promised to get through;
* weak fairness of time and of the end of each build;
* weak fairness of `SetEnabled(TRUE)`: a disabled tenant is enabled some day (an assumption
  on the administrator, without which nothing is ever built).

Nothing is assumed about publications, rebuilds, crashes and failures of triggers: they may
go on for ever or never happen. No other component has a liveness property: their steps are
requests of customers, editors and operators, who owe none, and each request may die. What
can be said of them is safety: that no state is reached from which the next request cannot
go on (`WaitsForAPayment`, `OnlyDoublesExhaust`, `MigrationsSucceed`).

## 5. Proofs

All theorems are checked by TLAPS with the SMT, Zenon and LS4 backends. Constants are as
general as their assumptions say, finite sets only where something is counted.

`PaymentsProofs`: any finite sets of registrations and transactions, any keys, any capacity
above zero, any `LateVerifiers` and `Priced`. Type correctness is proved first. `IInv` adds
to the properties what they need to be inductive: `LockedRows` (what a request in the middle
of a transaction may rely on: the row it holds keeps its status), `TxnRows` (a callback's
answer agrees with the gateway and its transaction is still PENDING), `SubmittedIsClosed` (a
submitted row is out of the editable statuses, so no PATCH can reach it), `PayersAreSeated`
and `Seats` (a submission in flight is counted with the seats it will take). The handlers of
the registration module are first reduced to what they may do to a row (`Edit`), then there
is a lemma for each payment action. `Implements` maps each transaction table to a phase:
`InitiateCommit` opens, `CallbackCommit` settles or fails, all else stutters.

`SiteBuildsProofs`: any set of natural numbers as requests, any bounds on attempts and
revisions, nothing else assumed. `QInv` is `TypeOK`, `Indexed` (the indexes, and what a
handler relies on between its two steps), `WaitingTakesOver`, `NothingAhead`,
`OnlyDecidedRecorded`, `NothingForgotten` and, unless a failure was recorded late,
`LatestTells`. The `...Rows` lemmas say once what each operation does to the table; the
invariants cite only these. `AwaitedStep` is the step of `NothingForgotten`, `LateStays` says
that the history is not undone. `LatestTells` is what `HonestStatusCorrect` rests on: the
status shown is computed from the newest request alone, so that one must have the newest
revision as its target, must never be merged into another one, must be the only one left
once it runs or has failed, and must have deployed its content once it has succeeded.
`LatestStep` is its step, `LatestIsShown` what the status then says.

`BlogProofs`: any posts, assets, documents and number of tries, with the generic archive
handler. `VisibleIsAll` says that of a post whose images are public a visitor sees
everything; from it `Counted` derives that a step of the blog leaves the published rows
alone, but for those in `bypassed`, or changes the public content together with the
revision. `ReadsHold` makes the reader inductive: what a request has read is true, up to
`bypassed`, as long as the revision is that in `before`, and since no revision comes back, a
change voids it for good.

The second part is about `Pages`: any finite set of entries, any keys, size of a page and
number of changes. The argument counts places. `Rank(e)` is how many entries stand before
`e`; a slice returns the entries whose ranks lie in its page, because a listing without ties
has one arrangement (`ArrangedAtRank` and the lemmas before it). One change moves ranks by one.
So `WalkInv` says that the entries of rank below the rows read that were never seen
(`Passed`) are at most as many as the entries withdrawn, and those seen that lie at or
beyond the rows read (`Doubled`) at most as many as those published, a reordered entry being
one of each; the number of rows is bounded by the total that was read and the later publications.
`Undisturbed` is the same without changes, for the orders that have ties: an entry whose
place is fixed is seen once. `WalksTellCorrect` follows when the walk ends.

The third part is about `RichText`: any kinds of nodes, documents of any length and depth,
any limits. What a recursive function computes for every tree would need an induction over
trees; written as a walk, it needs an invariant of the walk. `Path` says that the calls under
way are the ancestors of the node at hand, one on each level, and all nodes since are deeper
than they; so the innermost one is the parent that the grammar speaks of (`ParentCalls`), and
the check of `allowed_children` is the grammar's rule about parents (`CallerAllows`).
`Tallied` says that the counters count the nodes passed, their texts and whether one of them
can be seen. `CheckedIs` then reads the whole of `_validate_node` as a condition on one node:
it passes exactly if the node is well placed and the limits hold with it. So a refusal
exhibits a rule that is broken (`RefuseStep`), and when no call is left every node has been
passed (`AcceptStep`). For the renderer, `Drawn` says that each string joined so far is
`Made` (it nests, its tags are elements of HTML) and that together they show the images of
the nodes passed, and something if one of these can be seen. It rests on two lemmas about any
strings: joined (`BalancedJoined`) and enclosed (`BalancedEnclosed`), strings that nest nest;
their proofs count the elements open in each prefix. `TextInv` has these as its parts, and
`AcceptsGrammarCorrect` and `RendersAcceptedCorrect` follow. The assumptions are that the
limits are positive and that the marks of a text are a list.

`SessionsProofs`: any finite set of sign-ins, any tokens, scopes, limit and window.
`ThrottleInv` says that what a sign-in in flight has counted stays true until it commits,
because it holds the lock of its scope; a window's wrong answers are then compared with the
count of the last one in it. `ChainInv` relates tokens and refresh requests: a token being
rotated is live and not replaced, no two requests hold it, and a family has one token that
is not replaced. `KeepsPromise` maps every step to `SessionPromise`: a rotation revokes and
inserts at once, so the session it is about stays open.

`ContentProofs`: any editors, writers, readers and forms, any quota and hour.
`FormsInv` is types, `CountsFromArrival`, `LocksExclude` (one request holds the lock of an
address, one that of a number), `CountHolds` (what an admitted request has counted stays
below the limit until it commits, since whoever could add to it waits for one of the two
locks) and `FormsThrottled`. As with codes, rows may be committed out of the order of their
times. `ContentInv` adds to `EditsAreAsTold` that a row has `OneEditor` and that `EditsKnow`
what they write over: the row is there, an update does not meet an archived one, and the
plans an edit will delete are all that the exam has. `ProfileInv` has `ProfileHeld` (the
writer that holds the profile's row has deleted all contacts there are of the kinds it is
done with), `EntryHeld` (while there is no row, the entry of the unique index is one
writer's) and `PagesBehind` (a bootstrap shows the profile there is or an earlier one), and
with them `ContactsMatch`. The argument for a first replacement is not a lock: its DELETEs
run before it can be made to wait, but while it holds the entry there is no profile, so by
`OneVersion` there is no contact either that its DELETEs could have missed.

`SiteProofs`: `AccessInv` is types, `AboutDrafts`, `OneHolder` (a row has one holder),
`OldTokensAreDead` and `SignedIsUnpaid` (whoever is at the gateway holds the row of a
registration with no pending payment). `ExpiryFinal` is an action property derived from it.
`MediaInv` has what an inspection found as long as its row is locked: `OneInspects`,
`ObjectsAsAgreed` (the form's policy), `InspectionsHold`, and `PortraitsStayPrivate`, which
is inductive because only an OPEN row's image can be changed; from these `MediaCorrect`.

`OtpInv`, in the same module, is types, `HoldsRow` (one request holds a registration),
`AdmissionHolds` (the limits an admitted request has checked still hold when it commits,
since it has the tenant's lock), `CountedCodes` (attempts are counted up to the limit and not
past it), `QuotasKept`, `OneLiveCode` and `VerifiedIsCurrent`. Times are read before the
locks, so rows may be committed out of the order of their times; a window that contains the
new row still begins no earlier than its count did, which is all that the quotas need.

`PlatformProofs`: `TenancyInv` is types, `BoundToUser` (a connection in use has the settings
of its user), `KnowsTenant`, `HoldsOne` (how many connections a request has at each point),
`Reserved` (host names about to be inserted are free, and what an UPDATE has seen belongs to
the tenant) and `Routed`. `OnlyDoublesExhaustCorrect` assumes nothing of the size of the
pool or the number of double routes.

`ReleasesInv` is types, `OneWorks` (the file lock), `LinksApplied` (linked
releases have their migrations applied), `FromLinks` (what a rollback read before the lock
was linked and still has) and `ReleasesMatch`. `MovesCorrect` follows step by step.

`SchemaProofs`: any tenants, any rows; the migrations are those of the repository. The 35
tables are named in the order of their creation (`Name`, `Place`), and the argument is that
every migration uses them as a stack. `Stacked` says it of the statements that create them:
the i-th creates the i-th table, with keys that lead to earlier tables or to itself, and to
tenants' tables with the tenant only. It is proved table by table, and the lemmas about
`Joint` carry it through the concatenations. `Formed` then describes a schema by six values
(how many tables, which later keys, how far policies and grants reach, what is relieved of
FORCE, which posts are filled), and `Shaped` by where a command is. For each migration, up
and down, a lemma says that its next statement can be executed and leads to the next shape
(`StatementGoes` for all of them). `SchemaInv` is `Course` (the committed schema is
`Settled` at its level, the one at work is `Shaped`), `Filled` (beyond the backfill every
post has its document) and `RowsSound` (rows are in tables there are, were written for their
own tenant and refer along some key, to rows of the same owner unless these are global), and
`RoleFits` (beyond the first statement of the first migration the role is the fit one).
Rows survive a commit because keys lead down the stack: whatever a surviving row refers to
is in a table that survives, too. `FreshIs` compares with a database created at the level.

`SiteTypesCorrect` and `PlatformTypesCorrect` put the modules of `MCSite` and `MCPlatform`
together: a behaviour of all of them is a behaviour of each, so each keeps its invariant.

Only model-checked: `Converges`, since TLAPS has no liveness under fairness. The violations
are what TLC found; nothing is proved of them.

## 6. Findings

Five runs show that the code departs from what the repository says of it; their traces are
a few steps long.

1. `DuplicateCompletion`: a code verified after completion sets PHONE_VERIFIED, the row can
   be submitted and paid again (`otp/service.py:190`).
2. `QueueForgets`: a failure reported to a PENDING request supersedes the request by itself
   (`site_builds/result_service.py:76`).
3. `FamilyRevoked`: a client is told (`auth/router.py:59`, `103`) that the family of its
   token was revoked while a rotation has inserted a live member that the UPDATE did not see
   (`auth/service.py:147`).
4. `QueueJams`: a takeover in the wrong UUID order is refused by an index at every poll, and
   the request stays RUNNING for ever (`site_builds/worker.py:92`;
   `docs/static-site-builds.md:40`).
5. `BypassedArchive`: the generic archive handler takes a published blog post off the public
   API and counts nothing (`content/admin_router.py:774`; `docs/blog.md:14-15`, `17-18`).

Further divergences met while modelling, which the modules reproduce and no run is spent on:

* Lost leases are retried without limit, the cap holds for reported failures only
  (`site_builds/worker.py:86`; `docs/static-site-builds.md:26-27`).
* The second try of a snapshot answers old fields under the new revision
  (`blog/public_router.py:104`; `docs/blog.md:49-50`).
* `orderedList` with `attrs` null is accepted and raises when it is rendered
  (`blog/rich_text.py:151`, `236-239`).
* Two kinds of routes take a second session while the first is held
  (`registrations/router.py:314`; `docs/multitenancy.md:15-16`).
* A payment whose customer does not come back in time stays PENDING, and blocks every
  further one (`payments/service.py:64`).
* The part of `deploy.sh` that checks the OpenAPI document and moves the links is commented
  out (lines 118-158; `docs/github-cicd.md:137`, `140-141`); a rollback that dies between
  its two renames leaves both links at one release, and refuses to run after that
  (`rollback.sh:113-114`).

## 7. What is not modelled

* **Permissions and token formats** (`auth/permissions.py`, `auth/security.py`): pure
  functions of a request and of rows that no handler changes. Of signed states only the
  expiry is modelled.
* **Signatures of the builder's requests** and their time window: they refuse and keep no
  state.
* **Gallery items**: one insert each, under no rule but their album's existence.
* **The mock gateway**, which believes the browser; it is for tests.
* **Columns, checks, unique keys and indexes of the schema**, where no handler relies on
  them; those that handlers rely on are guards of the module concerned.
* **Field validation, CSV, OpenAPI, logging, configuration, start-up, the CLI** (its worker
  is `SiteBuilds`): wiring and formatting.
* **Attributes of the role after the first migration**: the code looks at them once.
* **Deadlocks of the database**: one side is aborted as a whole, before it wrote anything.
* **`.tmp/`**: one-off scripts that test a deployment and write reports.

What would come next, in the order of what it might reveal: the builder fed from
`BlogSnapshots`, so that what is deployed is compared with its revision; convergence with
more publications and with a tenant disabled at any time; backoff, mobile numbers and
national codes against reference definitions.
