------------------------------- MODULE Schema -------------------------------
(***************************************************************************)
(* The database schema and its migrations (migrations/versions, applied by *)
(* migrations/env.py), statement by statement: tables, the foreign keys    *)
(* between them, row-level security, the grants of the application's role, *)
(* and the backfill of posts.  Alembic runs the migrations of one command  *)
(* in one transaction; a failing statement or a crash rolls it back.       *)
(*                                                                         *)
(* An application's row carries one of its references; the migrations lock *)
(* the tables they alter, so rows are written while no migration runs.     *)
(* Columns, checks, unique keys and indexes are left out.                  *)
(***************************************************************************)
EXTENDS FiniteSets, Naturals, Sequences

CONSTANTS
    Owners, NoOwner,    \* tenants, as the owners of rows
    RowIds, NoRowId

ASSUME OwnersAssumption == NoOwner \notin Owners /\ NoRowId \notin RowIds

VARIABLES
    level,      \* alembic_version: the last migration applied
    role,       \* the role that requests take on, kanoon_app
    db,         \* the committed schema
    work,       \* the schema as the command in flight sees it
    target,     \* the level it leads to
    reached,    \* the level of work
    done,       \* the statements of the next migration that are done
    stored      \* the application's rows

schemaVars == <<level, role, db, work, target, reached, done, stored>>

-----------------------------------------------------------------------------
(* The tables.  A foreign key that carries the tenant (own) refers to      *)
(* (tenant_id, id), a plain one to id.                                     *)

To(col, table) == [col |-> col, to |-> table, own |-> FALSE]

\* Mutation: the foreign key leaves the tenant out.
Own_Plain(col, table) == [col |-> col, to |-> table, own |-> FALSE]

Own(col, table) == [col |-> col, to |-> table, own |-> TRUE]

Keys(table, refs) == {[from |-> table, col |-> r.col, to |-> r.to, own |-> r.own] : r \in refs}

Table(name, refs) == [op |-> "CREATE", tables |-> {name}, keys |-> Keys(name, refs)]

\* A table with a tenant_id.
Owned(name, refs) == Table(name, refs \cup {To("tenant", "tenants")})

Image == Own("image", "media_assets")

Accounts == <<
    Table("authentication_attempts", {}), Table("school_directory_entries", {}),
    Table("tenants", {}), Table("users", {}),
    Owned("audit_events", {To("actor", "users")}) >>

Offers == <<
    Owned("contact_requests", {To("handler", "users")}),
    Owned("exam_offerings", {}), Owned("honor_categories", {}) >>

Assets == <<
    Owned("media_assets", {}), Owned("pricing_plans", {}),
    Owned("refresh_tokens", {To("replacement", "refresh_tokens"), To("user", "users")}) >>

Identity == <<
    Owned("registration_form_definitions", {}), Owned("tenant_addresses", {}),
    Owned("tenant_domains", {}), Owned("tenant_features", {}),
    Owned("tenant_memberships", {To("user", "users")}) >>

Profiles == <<
    Owned("tenant_phones", {}), Owned("tenant_profiles", {}), Owned("tenant_social_links", {}),
    Owned("banners", {Image}),
    Owned("exam_pricing_plans", {Own("exam", "exam_offerings"), Own("plan", "pricing_plans")}) >>

Publications == <<
    Owned("gallery_albums", {Image}),
    Owned("honors", {Own("category", "honor_categories"), Image}),
    Owned("posts", {Image}) >>

Applications == <<
    Owned("registrations", {
        To("current_school", "school_directory_entries"),
        To("previous_school", "school_directory_entries"),
        Own("exam", "exam_offerings"), Own("form", "registration_form_definitions"),
        Own("plan", "pricing_plans"), Image}) >>

Showcase == <<
    Owned("sample_exams", {Image, Own("file", "media_assets")}),
    Owned("staff_members", {Image}),
    Owned("gallery_items", {Own("album", "gallery_albums"), Image}) >>

Receipts == <<
    Owned("otp_challenges", {Own("registration", "registrations")}),
    Owned("payment_transactions", {Own("registration", "registrations")}) >>

Contacts == << Owned("registration_contacts", {Own("registration", "registrations")}) >>

Created == Accounts \o Offers \o Assets \o Identity \o Profiles \o Publications \o
           Applications \o Showcase \o Receipts \o Contacts

Names(statements) == UNION {statements[i].tables : i \in DOMAIN statements}

(* Tables whose rows belong to no tenant, and the two with a tenant_id that *)
(* are read before the tenant is known.                                    *)
Unscoped == {"authentication_attempts", "school_directory_entries", "tenants", "users",
             "refresh_tokens", "tenant_domains"}

-----------------------------------------------------------------------------
(* The migrations.                                                         *)

On(op, tables) == [op |-> op, tables |-> tables, keys |-> {}]

TenantTables == {
    "audit_events", "banners", "contact_requests", "exam_offerings", "exam_pricing_plans",
    "gallery_albums", "gallery_items", "honor_categories", "honors", "media_assets",
    "otp_challenges", "payment_transactions", "posts", "pricing_plans", "registration_contacts",
    "registration_form_definitions", "registrations", "sample_exams", "staff_members",
    "tenant_addresses", "tenant_features", "tenant_memberships", "tenant_phones",
    "tenant_profiles", "tenant_social_links" }

\* bfd7cd1209eb: row-level security for its list of tenant tables, and grants.
Initial == Created \o << On("PROTECT", TenantTables), On("GRANT", Names(Created)) >>

InitialUndone == [i \in 1..Len(Created) |-> On("DROP", Created[Len(Created) + 1 - i].tables)]

PostKeys == [op |-> "REFER", tables |-> {"posts"},
             keys |-> Keys("posts", {To("creator", "users"), To("editor", "users"),
                                     Own("og_image", "media_assets")})]

BuildTables == <<
    Owned("tenant_site_build_configs", {}), Owned("tenant_site_states", {}),
    Owned("post_media_references", {Own("media", "media_assets"), Own("post", "posts")}),
    Owned("site_build_requests", {To("creator", "users")}) >>

\* Mutation: the owner backfills while FORCE ROW LEVEL SECURITY holds for it.
Builds_StillForced ==
    << On("BACKFILL", {"posts"}), PostKeys >> \o BuildTables \o
    << On("PROTECT", Names(BuildTables)), On("GRANT", Names(BuildTables)) >>

(* 8f3a2d6b9c10: the owner of posts is relieved of its own policy for the  *)
(* backfill of all tenants' rows.                                          *)
Builds ==
    << On("RELAX", {"posts"}), On("BACKFILL", {"posts"}), On("FORCE", {"posts"}), PostKeys >>
        \o BuildTables
        \o << On("PROTECT", Names(BuildTables)), On("GRANT", Names(BuildTables)) >>

BuildsUndone ==
    << On("DROP", {"site_build_requests"}), On("DROP", {"post_media_references"}),
       On("DROP", {"tenant_site_states"}), On("DROP", {"tenant_site_build_configs"}),
       [PostKeys EXCEPT !.op = "UNREFER"] >>

\* c6e4a12b7f90: archived_at of two tables.
Markers == << On("ALTER", {"honor_categories", "staff_members"}) >>

Up == << Initial, Builds, Markers >>

Down == << InitialUndone, BuildsUndone, Markers >>

-----------------------------------------------------------------------------
(* What a statement needs, and what it does to the schema.  policy: tables *)
(* with the policy tenant_isolation; forced: for their owner, too; filled: *)
(* the posts that have their document.                                     *)

Empty == [tables |-> {}, keys |-> {}, policy |-> {}, forced |-> {}, granted |-> {}, filled |-> {}]

Can(s, w) ==
    \/ /\ s.op = "CREATE" /\ s.tables \cap w.tables = {}
       /\ \A k \in s.keys : k.to \in w.tables \cup s.tables
    \/ /\ s.op = "DROP" /\ s.tables \subseteq w.tables
       /\ \A k \in w.keys : k.to \in s.tables => k.from \in s.tables
    \/ /\ s.op = "REFER" /\ s.tables \subseteq w.tables /\ s.keys \cap w.keys = {}
       /\ \A k \in s.keys : k.to \in w.tables
    \/ s.op = "UNREFER" /\ s.keys \subseteq w.keys
    \/ /\ s.op \in {"PROTECT", "GRANT", "RELAX", "FORCE", "BACKFILL", "ALTER"}
       /\ s.tables \subseteq w.tables

Posts == {i \in RowIds : stored[i].table = "posts"}

Done(s, w) ==
    CASE s.op = "CREATE" -> [w EXCEPT !.tables = @ \cup s.tables, !.keys = @ \cup s.keys]
      [] s.op = "DROP" ->
            [w EXCEPT !.tables = @ \ s.tables, !.policy = @ \ s.tables,
                      !.forced = @ \ s.tables, !.granted = @ \ s.tables,
                      !.keys = {k \in @ : k.from \notin s.tables}]
      [] s.op = "REFER" -> [w EXCEPT !.keys = @ \cup s.keys]
      [] s.op = "UNREFER" -> [w EXCEPT !.keys = @ \ s.keys, !.filled = {}]
      [] s.op = "PROTECT" -> [w EXCEPT !.policy = @ \cup s.tables, !.forced = @ \cup s.tables]
      [] s.op = "GRANT" -> [w EXCEPT !.granted = @ \cup s.tables]
      [] s.op = "RELAX" -> [w EXCEPT !.forced = @ \ s.tables]
      [] s.op = "FORCE" -> [w EXCEPT !.forced = @ \cup s.tables]
      [] s.op = "BACKFILL" -> IF "posts" \in w.forced THEN w ELSE [w EXCEPT !.filled = Posts]
      [] OTHER -> w

Idling == target = level

(* UNSAFE: it is a superuser, has BYPASSRLS or another attribute that the  *)
(* initial migration refuses.                                              *)
Roles == {"MISSING", "UNSAFE", "FIT"}

\* Mutation: the migration asks only whether the role is there.
RoleAccepted_Present == target > level /\ reached = 0 /\ done = 0 => role # "MISSING"

\* The initial migration starts with the check of the role.
RoleAccepted == target > level /\ reached = 0 /\ done = 0 => role = "FIT"

Row == [table : Names(Created \o BuildTables) \cup {""}, owner : Owners \cup {NoOwner},
        by : Owners \cup {NoOwner}, ref : RowIds \cup {NoRowId}]

NoRecord == [table |-> "", owner |-> NoOwner, by |-> NoOwner, ref |-> NoRowId]

SchemaInit ==
    /\ level = 0 /\ target = 0 /\ reached = 0 /\ done = 0
    /\ db = Empty /\ work = Empty
    /\ role \in Roles
    /\ stored = [i \in RowIds |-> NoRecord]

-----------------------------------------------------------------------------

\* The first start of the database creates the role, unless there is one.
Provision ==
    /\ role = "MISSING"
    /\ role' = "FIT"
    /\ UNCHANGED <<level, db, work, target, reached, done, stored>>

\* alembic upgrade, to the head of some release.
Upgrade(n) ==
    /\ Idling /\ n > level
    /\ target' = n
    /\ UNCHANGED <<level, role, db, work, reached, done, stored>>

Downgrade ==
    /\ Idling /\ level > 0
    /\ target' = level - 1
    /\ UNCHANGED <<level, role, db, work, reached, done, stored>>

\* The migration that is next, and its next statement.
Migration == IF target > level THEN Up[reached + 1] ELSE Down[reached]

Statement == Migration[done + 1]

Execute ==
    /\ reached # target /\ RoleAccepted /\ Can(Statement, work)
    /\ work' = Done(Statement, work)
    /\ IF done + 1 < Len(Migration)
       THEN done' = done + 1 /\ UNCHANGED reached
       ELSE done' = 0 /\ reached' = IF target > level THEN reached + 1 ELSE reached - 1
    /\ UNCHANGED <<level, role, db, target, stored>>

\* The rows of dropped tables are gone.
CommitSchema ==
    /\ ~Idling /\ reached = target
    /\ level' = target /\ db' = work
    /\ stored' = [i \in RowIds |->
                     IF stored[i].table \in work.tables THEN stored[i] ELSE NoRecord]
    /\ UNCHANGED <<role, work, target, reached, done>>

\* A statement or the check of the role fails, or the command is killed.
RollbackSchema ==
    /\ ~Idling
    /\ target' = level /\ reached' = level /\ done' = 0 /\ work' = db
    /\ UNCHANGED <<level, role, db, stored>>

(* A request of the tenant `by` writes a row of any table, as a defect of  *)
(* the application might: for any owner, with a reference to any row.  The *)
(* policy checks the owner, unless the role bypasses it; the check of a    *)
(* foreign key sees all rows.                                              *)
Insert(i, x, owner, by, j) ==
    /\ stored[i] = NoRecord
    /\ owner # NoOwner <=> \E k \in db.keys : k.from = x /\ k.col = "tenant"
    /\ x \in db.policy /\ role # "UNSAFE" => owner = by
    /\ j # NoRowId =>
          \E k \in db.keys : /\ k.from = x /\ k.to = stored[j].table
                             /\ k.own => stored[j].owner = owner
    /\ stored' = [stored EXCEPT ![i] = [table |-> x, owner |-> owner, by |-> by, ref |-> j]]
    /\ db' = IF x = "posts" /\ level >= 2 THEN [db EXCEPT !.filled = @ \cup {i}] ELSE db
    /\ work' = db'
    /\ UNCHANGED <<level, role, target, reached, done>>

SchemaNext ==
    \/ Provision
    \/ \E n \in 1..3 : Upgrade(n)
    \/ Downgrade
    \/ Execute
    \/ CommitSchema
    \/ RollbackSchema
    \/ Idling /\ \E i \in RowIds, x \in db.granted, by \in Owners :
          \E owner \in Owners \cup {NoOwner}, j \in RowIds \cup {NoRowId} :
              Insert(i, x, owner, by, j)

SchemaSpec == SchemaInit /\ [][SchemaNext]_schemaVars

-----------------------------------------------------------------------------
(* Properties.                                                             *)

\* Levels, schemas and rows have their types.
SchemaTypeOK ==
    /\ role \in Roles
    /\ level \in 0..3 /\ target \in 0..3 /\ reached \in 0..3 /\ done \in Nat
    /\ \A w \in {db, work} :
          /\ w.policy \subseteq w.tables /\ w.forced \subseteq w.policy
          /\ w.granted \subseteq w.tables /\ w.filled \subseteq RowIds
          /\ \A k \in w.keys : {k.from, k.to} \subseteq w.tables
    /\ stored \in [RowIds -> Row]

(* Whatever rows there are and from whatever level it starts, a migration, *)
(* forward or back, never meets a statement that it cannot execute: no     *)
(* table is created before or dropped after one it is needed by.  Only the *)
(* check of the role can stop the first one.                               *)
NeverFails == reached # target => Can(Statement, work)

\* The tables and keys of a database that was created at a level.
Fresh == [n \in 0..3 |->
    LET statements == UNION {{Up[m][i] : i \in DOMAIN Up[m]} : m \in 1..n}
    IN  [tables |-> UNION {s.tables : s \in {c \in statements : c.op = "CREATE"}},
         keys |-> UNION {s.keys : s \in statements}]]

(* After any sequence of migrations, rollbacks and downgrades, every table *)
(* that holds tenants' rows is under the policy, "FORCE also subjects the  *)
(* table owner" (docs/multitenancy.md:42), and the application has its     *)
(* grants; and a level has the tables and keys it has on a new database.   *)
Guarded ==
    /\ db.policy = db.tables \ Unscoped
    /\ db.forced = db.policy /\ db.granted = db.tables
    /\ db.tables = Fresh[level].tables /\ db.keys = Fresh[level].keys

(* The posts that were written before documents were introduced have one   *)
(* afterwards, those of all tenants, although the migration runs as the    *)
(* owner of the table, on whom the policy is forced.                       *)
AllFilled == level >= 2 => Posts \subseteq db.filled

(* "Thus an application defect cannot connect tenant A's row to tenant     *)
(* B's" (docs/multitenancy.md:57): a tenant's requests write rows of their *)
(* own only, and these refer to rows of the tenant or to global ones,      *)
(* whatever role there was when the database was set up.                   *)
RowsStayInTenant ==
    \A i \in RowIds :
        stored[i].table \notin Unscoped \cup {""} =>
            /\ stored[i].owner = stored[i].by
            /\ LET j == stored[i].ref
               IN  j \in RowIds /\ stored[j].table \notin Unscoped =>
                       stored[j].owner = stored[i].owner

(* Migrations succeed from any level and with any rows, and do all that    *)
(* they are for.                                                           *)
MigrationsSucceed == NeverFails /\ AllFilled

(* The database keeps tenants apart, by policies and by foreign keys,      *)
(* after any sequence of migrations.                                       *)
RowsAreGuarded == Guarded /\ RowsStayInTenant
=============================================================================
