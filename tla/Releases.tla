------------------------------ MODULE Releases ------------------------------
(***************************************************************************)
(* Releases on the production host (deploy/production/deploy.sh and        *)
(* rollback.sh, started by .github/workflows/ci.yml and by an operator):   *)
(* the links current and previous, the database schema, and the running    *)
(* application.  Both scripts hold an exclusive file lock while they work; *)
(* either may be killed at any step, and the lock is then free.            *)
(*                                                                         *)
(* deploy.sh reads the link current and never writes it: what follows its  *)
(* readiness check (the OpenAPI check, release.env, both links, pruning)   *)
(* is commented out.                                                       *)
(***************************************************************************)
EXTENDS Naturals

CONSTANTS
    Bundles, NoBundle,  \* releases: directories below releases/
    Level(_),           \* the last migration that a release brings
    MaxLevel,           \* bound: the migrations
    Scripts             \* scripts that run at the same time

ASSUME BundlesAssumption ==
    /\ NoBundle \notin Bundles
    /\ MaxLevel \in Nat /\ \A b \in Bundles : Level(b) \in 1..MaxLevel

VARIABLES
    uploaded,   \* the releases whose bundle is on the host
    described,  \* those that have a release.env
    current, previous,  \* the links
    schema,     \* the migrations applied
    running,    \* the release the application runs
    proven,     \* what its readiness and OpenAPI checks have shown since it started
    script      \* the scripts in flight

releaseVars == <<uploaded, described, current, previous, schema, running, proven, script>>

-----------------------------------------------------------------------------

Linked == Bundles \cup {NoBundle}

(* WAITING: for the lock; LOCKED, MIGRATED, CHECKING: the application is   *)
(* started; PROVEN: rollback may swap the links; SWAPPED: previous is.     *)
(* to: the release it starts; from: the release that current named.        *)
Idle == [pc |-> "IDLE", op |-> "NONE", to |-> NoBundle, from |-> NoBundle]

Script == {Idle} \cup
    [pc : {"WAITING", "LOCKED", "MIGRATED", "CHECKING", "PROVEN", "SWAPPED"},
     op : {"DEPLOY", "ROLLBACK"}, to : Bundles, from : Linked]

\* Links, application and scripts have their types.
ReleasesTypeOK ==
    /\ uploaded \subseteq Bundles /\ described \subseteq uploaded
    /\ current \in described \cup {NoBundle} /\ previous \in described \cup {NoBundle}
    /\ schema \in 0..MaxLevel
    /\ running \in Linked /\ proven \in {"NO", "READY", "MATCHED"}
    /\ script \in [Scripts -> Script]

(* A new host; or one with two releases that an operator, or a deploy.sh   *)
(* that still did so, has described and linked.                            *)
ReleasesInit ==
    /\ script = [p \in Scripts |-> Idle]
    /\ proven = "NO"
    /\ \/ /\ uploaded = {} /\ described = {}
          /\ current = NoBundle /\ previous = NoBundle
          /\ schema = 0 /\ running = NoBundle
       \/ \E b, c \in Bundles :
             /\ b # c /\ Level(c) <= Level(b)
             /\ uploaded = {b, c} /\ described = {b, c}
             /\ current = b /\ previous = c
             /\ schema = Level(b) /\ running = b

LockHeld == \E p \in Scripts : script[p].pc \notin {"IDLE", "WAITING"}

At(p, state, op) == script[p].pc = state /\ script[p].op = op

Goes(p, state) == script' = [script EXCEPT ![p].pc = state]

\* An image that the ERR trap of deploy.sh can bring back.
Managed(b) == b \in described

-----------------------------------------------------------------------------
(* Mutations: slips in a script that the properties must notice.  They are *)
(* no part of ReleasesNext.                                                *)

\* deploy.sh does not take the lock.
DeployLock_Free(p) ==
    /\ At(p, "WAITING", "DEPLOY")
    /\ script' = [script EXCEPT ![p].pc = "LOCKED", ![p].from = current]
    /\ UNCHANGED <<uploaded, described, current, previous, schema, running, proven>>

\* rollback.sh does not take the lock.
RollbackLock_Free(p) ==
    /\ At(p, "WAITING", "ROLLBACK")
    /\ Goes(p, "LOCKED")
    /\ UNCHANGED <<uploaded, described, current, previous, schema, running, proven>>

\* The application does not wait for the migrations.
DeployMigrate_NoWait(p) ==
    /\ At(p, "LOCKED", "DEPLOY")
    /\ Goes(p, "MIGRATED")
    /\ UNCHANGED <<uploaded, described, current, previous, schema, running, proven>>

\* The release is linked before it is uploaded.
Upload_Described(b) ==
    /\ described' = described \cup {b}
    /\ UNCHANGED <<uploaded, current, previous, schema, running, proven, script>>

-----------------------------------------------------------------------------
(* deploy.sh                                                               *)

\* The workflow loads the image and unpacks the bundle.
Upload(b) ==
    /\ b \notin uploaded
    /\ uploaded' = uploaded \cup {b}
    /\ UNCHANGED <<described, current, previous, schema, running, proven, script>>

DeployBegin(p, b) ==
    /\ script[p] = Idle /\ b \in uploaded
    /\ script' = [script EXCEPT ![p] = [pc |-> "WAITING", op |-> "DEPLOY",
                                        to |-> b, from |-> NoBundle]]
    /\ UNCHANGED <<uploaded, described, current, previous, schema, running, proven>>

\* The lock, and then the link.
DeployLock(p) ==
    /\ At(p, "WAITING", "DEPLOY") /\ ~LockHeld
    /\ script' = [script EXCEPT ![p].pc = "LOCKED", ![p].from = current]
    /\ UNCHANGED <<uploaded, described, current, previous, schema, running, proven>>

(* alembic upgrade head: one transaction.  It fails if the schema is at a  *)
(* migration that this release does not have.                              *)
DeployMigrate(p) ==
    /\ At(p, "LOCKED", "DEPLOY")
    /\ schema <= Level(script[p].to)
    /\ schema' = Level(script[p].to)
    /\ Goes(p, "MIGRATED")
    /\ UNCHANGED <<uploaded, described, current, previous, running, proven>>

DeployUp(p) ==
    /\ At(p, "MIGRATED", "DEPLOY")
    /\ running' = script[p].to /\ proven' = "NO"
    /\ Goes(p, "CHECKING")
    /\ UNCHANGED <<uploaded, described, current, previous, schema>>

DeployReady(p) ==
    /\ At(p, "CHECKING", "DEPLOY")
    /\ proven' = "READY"
    /\ script' = [script EXCEPT ![p] = Idle]
    /\ UNCHANGED <<uploaded, described, current, previous, schema, running>>

(* The trap of an error after the start: the image of the release that     *)
(* current names is started again, or else the application is stopped.     *)
DeployFails(p) ==
    /\ script[p].op = "DEPLOY" /\ script[p].pc \in {"LOCKED", "MIGRATED", "CHECKING"}
    /\ running' = IF Managed(script[p].from) THEN script[p].from ELSE NoBundle
    /\ proven' = "NO"
    /\ script' = [script EXCEPT ![p] = Idle]
    /\ UNCHANGED <<uploaded, described, current, previous, schema>>

-----------------------------------------------------------------------------
(* rollback.sh                                                             *)

\* It reads the links before it waits for the lock.
RollbackBegin(p) ==
    /\ script[p] = Idle
    /\ current # NoBundle /\ previous \in described /\ current # previous
    /\ script' = [script EXCEPT ![p] = [pc |-> "WAITING", op |-> "ROLLBACK",
                                        to |-> previous, from |-> current]]
    /\ UNCHANGED <<uploaded, described, current, previous, schema, running, proven>>

RollbackLock(p) ==
    /\ At(p, "WAITING", "ROLLBACK") /\ ~LockHeld
    /\ Goes(p, "LOCKED")
    /\ UNCHANGED <<uploaded, described, current, previous, schema, running, proven>>

\* The application alone: no migration runs.
RollbackUp(p) ==
    /\ At(p, "LOCKED", "ROLLBACK")
    /\ running' = script[p].to /\ proven' = "NO"
    /\ Goes(p, "CHECKING")
    /\ UNCHANGED <<uploaded, described, current, previous, schema>>

\* Ready, and verify_openapi.py finds the document of the release.
RollbackProven(p) ==
    /\ At(p, "CHECKING", "ROLLBACK")
    /\ proven' = "MATCHED"
    /\ Goes(p, "PROVEN")
    /\ UNCHANGED <<uploaded, described, current, previous, schema, running>>

SwapPrevious(p) ==
    /\ At(p, "PROVEN", "ROLLBACK")
    /\ previous' = script[p].from
    /\ Goes(p, "SWAPPED")
    /\ UNCHANGED <<uploaded, described, current, schema, running, proven>>

SwapCurrent(p) ==
    /\ At(p, "SWAPPED", "ROLLBACK")
    /\ current' = script[p].to
    /\ script' = [script EXCEPT ![p] = Idle]
    /\ UNCHANGED <<uploaded, described, previous, schema, running, proven>>

(* A script gives up before it starts anything, or is killed; a rollback   *)
(* has no trap and leaves what it started.  A start that is cut off may    *)
(* leave the application stopped.                                          *)
ScriptDies(p) ==
    /\ script[p] # Idle
    /\ \/ UNCHANGED <<running, proven>>
       \/ /\ script[p].pc \in {"LOCKED", "MIGRATED"}
          /\ running' = NoBundle /\ proven' = "NO"
    /\ script' = [script EXCEPT ![p] = Idle]
    /\ UNCHANGED <<uploaded, described, current, previous, schema>>

-----------------------------------------------------------------------------

ReleasesNext ==
    \/ \E b \in Bundles : Upload(b)
    \/ \E p \in Scripts :
          \/ \E b \in Bundles : DeployBegin(p, b)
          \/ DeployLock(p)
          \/ DeployMigrate(p)
          \/ DeployUp(p)
          \/ DeployReady(p)
          \/ DeployFails(p)
          \/ RollbackBegin(p)
          \/ RollbackLock(p)
          \/ RollbackUp(p)
          \/ RollbackProven(p)
          \/ SwapPrevious(p)
          \/ SwapCurrent(p)
          \/ ScriptDies(p)

ReleasesSpec == ReleasesInit /\ [][ReleasesNext]_releaseVars

-----------------------------------------------------------------------------
(* Properties.                                                             *)

(* However deployments and rollbacks overlap, a script judges the release  *)
(* it has started and no other, until it ends.                             *)
JudgesItsOwn ==
    \A p \in Scripts :
        script[p].pc \in {"CHECKING", "PROVEN", "SWAPPED"} => running = script[p].to

(* Although rollback.sh reads the links before it has the lock, current    *)
(* only ever moves to the release that runs then, and "only after          *)
(* verification" (docs/github-cicd.md:180).                                *)
MovesToProven ==
    [][current' # current => current' = running /\ proven = "MATCHED"]_releaseVars

(* Rollbacks and restorations skip the migrations, and yet no release runs *)
(* on a schema that lacks one of its migrations.                           *)
SchemaNotBehind == running # NoBundle => Level(running) <= schema

(* Whatever overlaps, fails or dies, the application runs on a schema that *)
(* has its migrations, and each script looks at its own release.           *)
ReleasesMatch == JudgesItsOwn /\ SchemaNotBehind
=============================================================================
