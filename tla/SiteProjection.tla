--------------------------- MODULE SiteProjection ---------------------------
(***************************************************************************)
(* What the site-build queue promises about a tenant's static site: its    *)
(* content gets new revisions, and the deployed revision only ever moves   *)
(* forward, to a revision the content has reached.                         *)
(***************************************************************************)
EXTENDS Integers

VARIABLES content, deployed

Init == content = 0 /\ deployed = -1

Publish == content' = content + 1 /\ UNCHANGED deployed

Deploy ==
    /\ deployed' \in (deployed + 1)..content
    /\ UNCHANGED content

Next == Publish \/ Deploy

Spec == Init /\ [][Next]_<<content, deployed>>
=============================================================================
