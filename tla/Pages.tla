------------------------------- MODULE Pages -------------------------------
(***************************************************************************)
(* Listings in pages (app/core/pagination.py): a client asks for page      *)
(* after page while editors publish, withdraw and reorder entries.  A page *)
(* is two statements that see two states: one counts, one takes a slice of *)
(* the rows in the listing's order.                                        *)
(***************************************************************************)
EXTENDS FiniteSets, Naturals

CONSTANTS
    Entries,        \* ids of rows, numbers: the order that breaks ties
    SortKeys,       \* sort_order, published_at, created_at, name: numbers, few
    PageSize,
    MaxChanges      \* bound: changes during a walk

ASSUME PagesAssumption ==
    /\ Entries \subseteq Nat /\ IsFiniteSet(Entries) /\ Entries # {}
    /\ SortKeys \subseteq Nat
    /\ PageSize \in Nat \ {0} /\ MaxChanges \in Nat

VARIABLES
    listing,    \* the listing of this behaviour
    key,        \* the sort key of every entry
    listed,     \* the entries that satisfy the listing's condition
    page,       \* the page the client is at
    step,       \* the statement that is next, or "read" between two pages
    total,      \* as the last page reported it
    seen,       \* how often the client has got an entry
    stayed,     \* listed all the time, in the same place
    gone, come, \* how many entries were withdrawn and published so far,
    late        \* and published between the two statements of a page

pageVars == <<listing, key, listed, page, step, total, seen, stayed, gone, come, late>>

Listings == {"posts", "honors", "registrations", "schools", "admin"}

-----------------------------------------------------------------------------
(* Orders: Before(a, b) says that a has to come before b.                  *)

\* Mutation: without the id.
BySortOrder_Ties(a, b) == key[a] < key[b]

\* honors, sample_exams, gallery: sort_order, id.
BySortOrder(a, b) == key[a] < key[b] \/ (key[a] = key[b] /\ a < b)

\* _post_page: published_at DESC, id.
NewestFirst(a, b) == key[a] > key[b] \/ (key[a] = key[b] /\ a < b)

\* The registrations of the administration: created_at DESC.
NewestOnly(a, b) == key[a] > key[b]

\* Mutation: the rows are not ordered.
ByName_None(a, b) == FALSE

\* school_directory: name.
ByName(a, b) == key[a] < key[b]

Before(a, b) ==
    \/ listing = "posts" /\ NewestFirst(a, b)
    \/ listing = "honors" /\ BySortOrder(a, b)
    \/ listing = "registrations" /\ NewestOnly(a, b)
    \/ listing = "schools" /\ ByName(a, b)

\* The orders in which the rows may come; the administration asks for none.
Arrangements ==
    {s \in [1..Cardinality(listed) -> listed] :
        \A i, j \in DOMAIN s : i < j => s[i] # s[j] /\ ~Before(s[j], s[i])}

\* Mutation: the offset of the first page is not zero.
Offset_OneBased(p) == p * PageSize

Offset(p) == (p - 1) * PageSize

Slice(s, p) ==
    {s[i] : i \in {n \in DOMAIN s : Offset(p) < n /\ n <= Offset(p) + PageSize}}

-----------------------------------------------------------------------------

PagesInit ==
    /\ listing \in Listings
    /\ key \in [Entries -> SortKeys]
    /\ listed \in SUBSET Entries
    /\ page = 1 /\ step = "read" /\ total = 0
    /\ seen = [e \in Entries |-> 0]
    /\ stayed = listed
    /\ gone = 0 /\ come = 0 /\ late = 0

\* The administration's registrations are counted after the rows are read.
CountsFirst == listing # "registrations"

\* Mutation: the reported total is not looked at.
Ask_Endless ==
    /\ step = "read"
    /\ step' = IF CountsFirst THEN "count" ELSE "rows"
    /\ UNCHANGED <<listing, key, listed, page, total, seen, stayed, gone, come, late>>

\* The client wants the first page, or a further one that should exist.
Ask ==
    /\ step = "read" /\ (page > 1 => Offset(page) < total)
    /\ step' = IF CountsFirst THEN "count" ELSE "rows"
    /\ UNCHANGED <<listing, key, listed, page, total, seen, stayed, gone, come, late>>

Count ==
    /\ step = "count"
    /\ total' = Cardinality(listed)
    /\ step' = IF CountsFirst THEN "rows" ELSE "read"
    /\ page' = IF CountsFirst THEN page ELSE page + 1
    /\ UNCHANGED <<listing, key, listed, seen, stayed, gone, come, late>>

Rows ==
    /\ step = "rows"
    /\ \E s \in Arrangements :
          seen' = [e \in Entries |-> IF e \in Slice(s, page) THEN seen[e] + 1 ELSE seen[e]]
    /\ step' = IF CountsFirst THEN "read" ELSE "count"
    /\ page' = IF CountsFirst THEN page + 1 ELSE page
    /\ UNCHANGED <<listing, key, listed, total, stayed, gone, come, late>>

Finished == step = "read" /\ page > 1 /\ Offset(page) >= total

\* Another walk begins.
Again ==
    /\ Finished
    /\ page' = 1 /\ total' = 0
    /\ seen' = [e \in Entries |-> 0]
    /\ stayed' = listed
    /\ gone' = 0 /\ come' = 0 /\ late' = 0
    /\ UNCHANGED <<listing, key, listed, step>>

-----------------------------------------------------------------------------
(* The editors.                                                            *)

InTime == gone + come < MaxChanges /\ ~Finished

Show(e) ==
    /\ InTime /\ e \notin listed
    /\ listed' = listed \cup {e}
    /\ come' = come + 1
    /\ late' = IF step \in {"rows", "count"} THEN late + 1 ELSE late
    /\ UNCHANGED <<listing, key, page, step, total, seen, stayed, gone>>

Hide(e) ==
    /\ InTime /\ e \in listed
    /\ listed' = listed \ {e}
    /\ stayed' = stayed \ {e}
    /\ gone' = gone + 1
    /\ UNCHANGED <<listing, key, page, step, total, seen, come, late>>

\* An update of the sort key: the entry leaves one place and comes to another.
Reorder(e, k) ==
    /\ InTime /\ e \in listed /\ k # key[e]
    /\ key' = [key EXCEPT ![e] = k]
    /\ stayed' = stayed \ {e}
    /\ gone' = gone + 1 /\ come' = come + 1
    /\ late' = IF step \in {"rows", "count"} THEN late + 1 ELSE late
    /\ UNCHANGED <<listing, listed, page, step, total, seen>>

PagesNext ==
    \/ Ask \/ Count \/ Rows \/ Again
    \/ \E e \in Entries : Show(e) \/ Hide(e) \/ \E k \in SortKeys : Reorder(e, k)

PagesSpec == PagesInit /\ [][PagesNext]_pageVars

-----------------------------------------------------------------------------
(* Properties.                                                             *)

\* The walk and what it has collected have their types.
PagesTypeOK ==
    /\ listing \in Listings /\ key \in [Entries -> SortKeys]
    /\ stayed \subseteq listed /\ listed \subseteq Entries
    /\ page \in 1..Cardinality(Entries) + 1 /\ total \in 0..Cardinality(Entries)
    /\ step \in {"read", "count", "rows"}
    /\ seen \in [Entries -> 0..page]
    /\ gone + come \in 0..MaxChanges + 1 /\ late \in 0..come

Ordered == listing \in {"posts", "honors"}

(* A walk through a listing whose order ends with the id loses at most one *)
(* entry for each one that was withdrawn meanwhile, or published between   *)
(* the count and the rows of a page, and repeats at most one for each one  *)
(* published: an undisturbed walk shows everything once.  The listings     *)
(* ordered by name only, by creation only or not at all give no such       *)
(* bound: two pages may arrange the same rows differently.                 *)
WalkTells ==
    Finished /\ Ordered =>
        /\ Cardinality({e \in stayed : seen[e] = 0}) <= gone + late
        /\ Cardinality({e \in stayed : seen[e] > 1}) <= come

(* Ordered by name or by time only, an undisturbed walk loses or repeats   *)
(* none but entries that share the name or the time with another one.      *)
OnlyTiesSlip ==
    Finished /\ listing \in {"registrations", "schools"} /\ gone + come = 0 =>
        \A e \in listed :
            seen[e] # 1 => \E other \in listed \ {e} : key[other] = key[e]

(* A walk ends, and has shown what its listing's order lets it promise.    *)
WalksTell == PagesTypeOK /\ WalkTells /\ OnlyTiesSlip
=============================================================================
