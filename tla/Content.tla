------------------------------- MODULE Content -------------------------------
(***************************************************************************)
(* What a tenant's editors publish (app/content/admin_router.py and        *)
(* admin_service.py): news and announcements, banners, honors and their    *)
(* categories, staff, sample exams, gallery albums, pricing plans, and     *)
(* exams with the pricing plans they offer.  A request locks its row, is   *)
(* checked, writes and commits; another editor's request runs in between,  *)
(* and each may die and is then rolled back.  Blog posts have handlers of  *)
(* their own (BlogPosts).                                                  *)
(***************************************************************************)
EXTENDS Naturals, Sequences

CONSTANTS
    StatusRows,     \* rows with a status: all but the next
    FlagRows,       \* honor categories and staff: rows with is_active and archived_at
    Plans,          \* the pricing plans among the StatusRows
    Exams,          \* the exams among the StatusRows
    Editors, NoRow,
    MaxTrail        \* bound: the changes of a row

Rows == StatusRows \cup FlagRows

ASSUME RowsAssumption ==
    /\ NoRow \notin Rows /\ StatusRows \cap FlagRows = {}
    /\ Plans \subseteq StatusRows /\ Exams \subseteq StatusRows \ Plans
    /\ MaxTrail \in Nat

VARIABLES
    row,        \* the tables of content
    offers,     \* the table exam_pricing_plans
    answered,   \* the plans the last answer to a write of the exam listed
    trail,      \* audit_events of each row, in the order of created_at
    edit        \* the requests in flight

contentVars == <<row, offers, answered, trail, edit>>

-----------------------------------------------------------------------------

(* PUBLIC is what the public pages select: PUBLISHED, REGISTRATION_OPEN of *)
(* an exam, is_active; ARCHIVED is that status, or archived_at.            *)
RowState == {"ABSENT", "HIDDEN", "PUBLIC", "ARCHIVED"}

Event == {"created", "updated", "archived"}

Idle == [row |-> NoRow, op |-> "NONE", offered |-> {}]

\* offered: the associations of the exam that the DELETE has seen.
Edit == {Idle} \cup [row : Rows, op : {"UPDATE", "ARCHIVE"}, offered : SUBSET Plans]

\* Rows, associations, events and requests have their types.
ContentTypeOK ==
    /\ row \in [Rows -> RowState]
    /\ offers \in [Exams -> SUBSET Plans]
    /\ answered \in [Exams -> SUBSET Plans]
    /\ trail \in [Rows -> Seq(Event)]
    /\ edit \in [Editors -> Edit]

ContentInit ==
    /\ row = [r \in Rows |-> "ABSENT"]
    /\ offers = [e \in Exams |-> {}]
    /\ answered = [e \in Exams |-> {}]
    /\ trail = [r \in Rows |-> <<>>]
    /\ edit = [a \in Editors |-> Idle]

\* What the body of a request may ask for: a status, or is_active.
Body(r) == IF r \in StatusRows THEN {"HIDDEN", "PUBLIC", "ARCHIVED"} ELSE {"HIDDEN", "PUBLIC"}

PlansOf(r) == IF r \in Exams THEN offers[r] ELSE {}

\* Plans an exam can be given: session.get finds them, whatever their status.
Known == {p \in Plans : row[p] # "ABSENT"}

Taken(r) == \E a \in Editors : edit[a].row = r

Audited(r, e) == trail' = [trail EXCEPT ![r] = Append(@, e)]

Room(r) == Len(trail[r]) < MaxTrail

-----------------------------------------------------------------------------
(* Mutations: slips in a handler that the properties must notice.  They    *)
(* are no part of ContentNext.                                             *)

\* archived_at of a row with is_active is not set.
ArchiveCommit_NotStamped(a) ==
    /\ edit[a].op = "ARCHIVE" /\ Room(edit[a].row)
    /\ row' = [row EXCEPT ![edit[a].row] =
                  IF edit[a].row \in FlagRows THEN "HIDDEN" ELSE "ARCHIVED"]
    /\ Audited(edit[a].row, "archived")
    /\ edit' = [edit EXCEPT ![a] = Idle]
    /\ UNCHANGED <<offers, answered>>

\* The row is read without FOR UPDATE.
Get_NoLock(a, r, op) ==
    /\ edit[a] = Idle
    /\ row[r] # "ABSENT"
    /\ op = "UPDATE" => row[r] # "ARCHIVED"
    /\ edit' = [edit EXCEPT ![a] = [row |-> r, op |-> op, offered |-> PlansOf(r)]]
    /\ UNCHANGED <<row, offers, answered, trail>>

\* A state that no table has.
Create_Deleted(r, state, plans) ==
    /\ row[r] = "ABSENT" /\ Room(r)
    /\ row' = [row EXCEPT ![r] = IF state = "ARCHIVED" THEN "DELETED" ELSE state]
    /\ Audited(r, "created")
    /\ UNCHANGED <<edit, offers, answered>>

-----------------------------------------------------------------------------

\* create, for an exam with set_exam_plans: no other request knows the row.
Create(r, state, plans) ==
    /\ row[r] = "ABSENT" /\ Room(r)
    /\ plans \subseteq Known
    /\ row' = [row EXCEPT ![r] = state]
    /\ IF r \in Exams
       THEN /\ offers' = [offers EXCEPT ![r] = plans]
            /\ answered' = [answered EXCEPT ![r] = plans]
       ELSE UNCHANGED <<offers, answered>>
    /\ Audited(r, "created")
    /\ UNCHANGED edit

\* get, FOR UPDATE, and update's check that the row is not archived.
Get(a, r, op) ==
    /\ edit[a] = Idle
    /\ row[r] # "ABSENT" /\ ~Taken(r)
    /\ op = "UPDATE" => row[r] # "ARCHIVED"
    /\ edit' = [edit EXCEPT ![a] = [row |-> r, op |-> op, offered |-> PlansOf(r)]]
    /\ UNCHANGED <<row, offers, answered, trail>>

\* update, and for an exam set_exam_plans: those it saw go, the body's come.
UpdateCommit(a, state, plans) ==
    LET r == edit[a].row
    IN  /\ edit[a].op = "UPDATE" /\ Room(r)
        /\ state \in Body(r) /\ plans \subseteq Known
        /\ row' = [row EXCEPT ![r] = state]
        /\ IF r \in Exams
           THEN /\ offers' = [offers EXCEPT ![r] = (@ \ edit[a].offered) \cup plans]
                /\ answered' = [answered EXCEPT ![r] = plans]
           ELSE UNCHANGED <<offers, answered>>
        /\ Audited(r, "updated")
        /\ edit' = [edit EXCEPT ![a] = Idle]

\* archive_or_delete: every kind of row has a status or is_active.
ArchiveCommit(a) ==
    /\ edit[a].op = "ARCHIVE" /\ Room(edit[a].row)
    /\ row' = [row EXCEPT ![edit[a].row] = "ARCHIVED"]
    /\ Audited(edit[a].row, "archived")
    /\ edit' = [edit EXCEPT ![a] = Idle]
    /\ UNCHANGED <<offers, answered>>

\* A conflict, a plan that is not known, a disabled feature, or death.
EditFails(a) ==
    /\ edit[a] # Idle
    /\ edit' = [edit EXCEPT ![a] = Idle]
    /\ UNCHANGED <<row, offers, answered, trail>>

\* The POST routes: one for each kind of row.
Creations == \E r \in Rows, plans \in SUBSET Plans : \E state \in Body(r) : Create(r, state, plans)

\* The PUT routes.
Updates ==
    \E a \in Editors :
        \/ \E r \in Rows : Get(a, r, "UPDATE")
        \/ \E state \in RowState, plans \in SUBSET Plans : UpdateCommit(a, state, plans)

\* The DELETE route.
Archivals ==
    \E a \in Editors :
        \/ \E r \in Rows : Get(a, r, "ARCHIVE")
        \/ ArchiveCommit(a)

ContentNext ==
    \/ Creations
    \/ Updates
    \/ Archivals
    \/ \E a \in Editors : EditFails(a)

ContentSpec == ContentInit /\ [][ContentNext]_contentVars

-----------------------------------------------------------------------------
(* Properties.                                                             *)

(* The audit trail tells the history of the row: it begins with the        *)
(* creation, nothing but another archival follows an archival, and a row   *)
(* with an archival is archived, whatever update had read it before; a row *)
(* without events does not exist.                                          *)
TrailTells ==
    \A r \in Rows :
        /\ trail[r] = <<>> <=> row[r] = "ABSENT"
        /\ \A i \in 1..Len(trail[r]) : trail[r][i] = "created" <=> i = 1
        /\ \A i, j \in 1..Len(trail[r]) :
              trail[r][i] = "archived" /\ i < j => trail[r][j] = "archived"
        /\ (\E i \in 1..Len(trail[r]) : trail[r][i] = "archived") => row[r] = "ARCHIVED"

(* An exam offers the plans that the last successful write of it was       *)
(* answered with, never the union of two writes that overlapped.           *)
OffersAsAnswered == offers = answered

(* However edits of one row overlap, it is left as its editors were told.  *)
EditsAreAsTold == TrailTells /\ OffersAsAnswered
=============================================================================
