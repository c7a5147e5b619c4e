----------------------------- MODULE MCPlatform -----------------------------
(***************************************************************************)
(* What the platform's operators run, on small instances: Tenancy,         *)
(* Releases and Schema.  The three have no state in common, so the run     *)
(* takes one at a time, while the others do not start.                     *)
(***************************************************************************)
EXTENDS Tenancy, Releases, Schema, TLC

VARIABLE turn   \* the module that this behaviour is about

AllInit ==
    /\ Init /\ ReleasesInit /\ SchemaInit
    /\ turn \in {"tenancy", "releases", "schema"}
    \* one state for the others to stay in
    /\ turn # "releases" => uploaded = {}
    /\ turn # "schema" => role = "FIT"

AllNext ==
    /\ \/ turn = "tenancy" /\ Next /\ UNCHANGED <<releaseVars, schemaVars>>
       \/ turn = "releases" /\ ReleasesNext /\ UNCHANGED <<vars, schemaVars>>
       \/ turn = "schema" /\ SchemaNext /\ UNCHANGED <<vars, releaseVars>>
    /\ UNCHANGED turn

AllSpec == AllInit /\ [][AllNext]_<<vars, releaseVars, schemaVars, turn>>

CONSTANTS b1, b2, b3

\* The newest release brings no migration.
LevelOf(b) == IF b = b1 THEN 1 ELSE 2

Identities == Permutations(Tenants) \cup Permutations(Hosts) \cup Permutations(Conns)

(* The tables and the requests of all modules have their types.            *)
PlatformTypeOK == TypeOK /\ ReleasesTypeOK /\ SchemaTypeOK
=============================================================================
