--------------------------- MODULE BlogSnapshots ----------------------------
(***************************************************************************)
(* GET /public/blog/snapshot, from which the site builder builds           *)
(* (app/blog/public_router.py), against everything that changes the blog.  *)
(*                                                                         *)
(* The handler reads the revision, the posts, their media, and the         *)
(* revision again: four statements, each of which sees what is committed   *)
(* when it runs (READ COMMITTED).  It tries again when the revision moved. *)
(* All tries share one session: a row whose object is still referenced     *)
(* keeps the fields it was first loaded with.                              *)
(***************************************************************************)
EXTENDS BlogPosts

CONSTANT Tries  \* the 3 of blog_snapshot

ASSUME TriesAssumption == Tries \in Nat \ {0}

VARIABLES
    pc,      \* the statement that is next, or how the last request ended
    try,     \* the try it is at
    before,  \* the revision read first in this try
    loaded,  \* the posts the session holds, as they were loaded
    shown    \* what is going to be answered: posts with their covers

reader == <<pc, try, before, loaded, shown>>
vars == <<blog, reader>>

-----------------------------------------------------------------------------

Ended == {"ANSWERED", "CONFLICT"}

View == [document : Documents, cover : Covers]

Views == UNION {[S -> View] : S \in SUBSET Posts}

Nothing == [p \in {} |-> p]

(* Every row and every local variable of the request has its type.         *)
TypeOK ==
    /\ BlogTypeOK
    /\ pc \in {"BEFORE", "POSTS", "MEDIA", "AFTER"} \cup Ended
    /\ try \in 1..Tries
    /\ before \in 0..MaxRevision
    /\ loaded \in Views
    /\ shown \in Views

Init ==
    /\ BlogInit
    /\ pc = "CONFLICT" /\ try = 1 /\ before = 0
    /\ loaded = Nothing /\ shown = Nothing

\* A request: a session that holds nothing yet.
Request ==
    /\ pc \in Ended
    /\ pc' = "BEFORE" /\ try' = 1 /\ before' = 0
    /\ loaded' = Nothing /\ shown' = Nothing
    /\ UNCHANGED blog

ReadBefore ==
    /\ pc = "BEFORE"
    /\ pc' = "POSTS"
    /\ before' = revision
    /\ UNCHANGED <<blog, try, loaded, shown>>

\* The row as it is, unless the session holds it from the try before.
Row(p) ==
    IF p \in DOMAIN loaded
    THEN loaded[p]
    ELSE [document |-> post[p].document, cover |-> post[p].cover]

ReadPosts ==
    /\ pc = "POSTS"
    /\ pc' = "MEDIA"
    /\ loaded' = [p \in Published |-> Row(p)]
    /\ UNCHANGED <<blog, try, before, shown>>

\* _media_map and _detail.
ReadMedia ==
    /\ pc = "MEDIA"
    /\ pc' = "AFTER"
    /\ shown' = [p \in DOMAIN loaded |-> Visible(loaded[p].document, loaded[p].cover)]
    /\ UNCHANGED <<blog, try, before, loaded>>

\* Mutation: the revision is not read again after the posts.
ReadAfter_Unchecked ==
    /\ pc = "AFTER"
    /\ pc' = "ANSWERED"
    /\ UNCHANGED <<blog, try, before, loaded, shown>>

\* The answer names the revision just read, which is that in before.
ReadAfter ==
    /\ pc = "AFTER"
    /\ \/ /\ before = revision
          /\ pc' = "ANSWERED" /\ try' = try
       \/ /\ before # revision /\ try < Tries
          /\ pc' = "BEFORE" /\ try' = try + 1
       \/ /\ before # revision /\ try = Tries
          /\ pc' = "CONFLICT" /\ try' = try
    /\ UNCHANGED <<blog, before, loaded, shown>>

Snapshot == Request \/ ReadBefore \/ ReadPosts \/ ReadMedia \/ ReadAfter

Next ==
    \/ BlogNext /\ UNCHANGED reader
    \/ Snapshot

Spec == Init /\ [][Next]_vars

-----------------------------------------------------------------------------
(* Properties.                                                             *)

\* The request is answered in this step.
Answers == pc = "AFTER" /\ pc' = "ANSWERED"

(* Whatever is published, saved, archived and uploaded between the          *)
(* statements of a snapshot, an answer names the revision that is current   *)
(* when it is given and lists the posts published at that revision, besides *)
(* them at most posts the generic handler took off at that revision; and a  *)
(* request answered at its first try shows the published ones as they are.  *)
SnapshotListsRevision ==
    [][Answers =>
        /\ before = revision
        /\ Published \subseteq DOMAIN shown /\ DOMAIN shown \subseteq Published \cup bypassed
        /\ try = 1 => \A p \in Published : shown[p] = PublicContent[p]]_vars

-----------------------------------------------------------------------------
(* The inductive invariant the properties follow from.                     *)

\* The posts as a session that holds none of them loads them.
Fresh == [p \in Published |-> [document |-> post[p].document, cover |-> post[p].cover]]

\* A reading of the posts at this revision, or at its first try of all they show.
Reads(posts, all) ==
    /\ Published \subseteq DOMAIN posts /\ DOMAIN posts \subseteq Published \cup bypassed
    /\ try = 1 => \A p \in Published : posts[p] = all[p]

(* While the revision stays at what was read first, what was read since is  *)
(* still true; a later revision voids it, and no earlier one can come.  A   *)
(* post that was taken off and counts for nothing is not published again.   *)
ReadsHold ==
    /\ before <= revision
    /\ bypassed \cap Published = {}
    /\ pc \in {"BEFORE", "POSTS"} /\ try = 1 => loaded = Nothing
    /\ pc = "MEDIA" /\ before = revision => Reads(loaded, Fresh)
    /\ pc = "AFTER" /\ before = revision => Reads(shown, PublicContent)

IInv ==
    /\ TypeOK
    /\ PublishedMediaIsPublic
    /\ ReadsHold

=============================================================================
