----------------------------- MODULE BlogPosts ------------------------------
(***************************************************************************)
(* The blog of one tenant (app/blog/service.py), the media assets its      *)
(* posts show (app/media), and the content revision that every change of   *)
(* the public content must count.                                          *)
(*                                                                         *)
(* A handler is one transaction.  It locks the post it writes, and the     *)
(* site state when it counts; media rows it only reads, without a lock.    *)
(* A request that is refused is rolled back and is no step.                *)
(***************************************************************************)
EXTENDS Integers

CONSTANTS
    Posts,          \* identities of BLOG posts
    Assets,         \* identities of media assets
    NoAsset,        \* "no cover image"
    Documents,      \* values of a post's editorial fields
    EmptyDocument,  \* the document of a new draft, which cannot be published
    Inline,         \* Inline[d]: the assets the images of document d name
    MaxRevision     \* bound: content changes modelled

ASSUME DocumentsAssumption ==
    /\ EmptyDocument \in Documents
    /\ Inline \in [Documents -> SUBSET Assets]
ASSUME NoAssetAssumption == NoAsset \notin Assets
ASSUME RevisionsAssumption == MaxRevision \in Nat

VARIABLES
    post,       \* the rows of kind BLOG in the table posts
    asset,      \* the table media_assets
    revision,   \* TenantSiteState.content_revision
    bypassed    \* history: published posts the generic handler has archived since then

blog == <<post, asset, revision, bypassed>>

-----------------------------------------------------------------------------

Covers == Assets \cup {NoAsset}

(* document stands for all fields an editor writes, with the HTML and the  *)
(* reference rows that each write derives from them; cover for the cover   *)
(* and the Open Graph image, which are checked and shown in the same way.  *)
Post == [status : {"ABSENT", "DRAFT", "PUBLISHED", "ARCHIVED"},
         document : Documents, cover : Covers]

NoPost == [status |-> "ABSENT", document |-> EmptyDocument, cover |-> NoAsset]

(* REJECTED is never stored: the error that follows it rolls it back.      *)
Asset == [status : {"ABSENT", "PENDING", "READY"}, visibility : {"PUBLIC", "PRIVATE"}]

NoUpload == [status |-> "ABSENT", visibility |-> "PRIVATE"]

BlogTypeOK ==
    /\ post \in [Posts -> Post]
    /\ asset \in [Assets -> Asset]
    /\ revision \in 0..MaxRevision
    /\ bypassed \subseteq Posts

BlogInit ==
    /\ post = [p \in Posts |-> NoPost]
    /\ asset = [m \in Assets |-> NoUpload]
    /\ revision = 0
    /\ bypassed = {}

IsPublic(m) == asset[m].status = "READY" /\ asset[m].visibility = "PUBLIC"

Published == {p \in Posts : post[p].status = "PUBLISHED"}

\* _all_media_ids.
MediaIds(d, c) == Inline[d] \cup ({c} \ {NoAsset})

\* _validate_media, for a draft and for the public.
Known(d, c)  == \A m \in MediaIds(d, c) : asset[m].status # "ABSENT"
Public(d, c) == \A m \in MediaIds(d, c) : IsPublic(m)

\* validate_document with require_content.
HasContent(d) == d # EmptyDocument

-----------------------------------------------------------------------------
(* Media.                                                                  *)

\* Both upload endpoints; that of profile images always asks for PRIVATE.
InitiateUpload(m, visibility) ==
    /\ asset[m].status = "ABSENT"
    /\ asset' = [asset EXCEPT ![m] = [status |-> "PENDING", visibility |-> visibility]]
    /\ UNCHANGED <<post, revision, bypassed>>

\* The object has been uploaded and is as declared.
CompleteUpload(m) ==
    /\ asset[m].status = "PENDING"
    /\ asset' = [asset EXCEPT ![m].status = "READY"]
    /\ UNCHANGED <<post, revision, bypassed>>

-----------------------------------------------------------------------------
(* Posts.                                                                  *)

\* What a change of published content adds to its transaction.
PublicContentChanged ==
    /\ revision < MaxRevision
    /\ revision' = revision + 1
    /\ bypassed' = {}

Create(p, d, c) ==
    /\ post[p].status = "ABSENT"
    /\ Known(d, c)
    /\ post' = [post EXCEPT ![p] = [status |-> "DRAFT", document |-> d, cover |-> c]]
    /\ UNCHANGED <<asset, revision, bypassed>>

\* Mutation: the media of a public save are checked as those of a draft.
Update_DraftRules(p, d, c) ==
    /\ post[p].status # "ABSENT"
    /\ <<d, c>> # <<post[p].document, post[p].cover>>
    /\ Known(d, c)
    /\ post' = [post EXCEPT ![p].document = d, ![p].cover = c]
    /\ IF post[p].status = "PUBLISHED"
       THEN HasContent(d) /\ PublicContentChanged
       ELSE UNCHANGED <<revision, bypassed>>
    /\ UNCHANGED asset

\* PATCH: an autosave of a draft, a public save of a published post.
Update(p, d, c) ==
    /\ post[p].status # "ABSENT"
    /\ <<d, c>> # <<post[p].document, post[p].cover>>
    /\ Known(d, c)
    /\ post' = [post EXCEPT ![p].document = d, ![p].cover = c]
    /\ IF post[p].status = "PUBLISHED"
       THEN HasContent(d) /\ Public(d, c) /\ PublicContentChanged
       ELSE UNCHANGED <<revision, bypassed>>
    /\ UNCHANGED asset

\* Mutation: a post that is PUBLISHED already is published and counted again.
Publish_Again(p) ==
    /\ post[p].status # "ABSENT"
    /\ HasContent(post[p].document)
    /\ Public(post[p].document, post[p].cover)
    /\ post' = [post EXCEPT ![p].status = "PUBLISHED"]
    /\ PublicContentChanged
    /\ UNCHANGED asset

\* Drafts, and archived posts once more.
Publish(p) ==
    /\ post[p].status \in {"DRAFT", "ARCHIVED"}
    /\ HasContent(post[p].document)
    /\ Public(post[p].document, post[p].cover)
    /\ post' = [post EXCEPT ![p].status = "PUBLISHED"]
    /\ PublicContentChanged
    /\ UNCHANGED asset

Archive(p) ==
    /\ post[p].status \in {"DRAFT", "PUBLISHED"}
    /\ post' = [post EXCEPT ![p].status = "ARCHIVED"]
    /\ IF post[p].status = "PUBLISHED"
       THEN PublicContentChanged
       ELSE UNCHANGED <<revision, bypassed>>
    /\ UNCHANGED asset

\* archive_resource on the resource "posts": the generic handler counts nothing.
ArchiveResource(p) ==
    /\ post[p].status \in {"DRAFT", "PUBLISHED"}
    /\ post' = [post EXCEPT ![p].status = "ARCHIVED"]
    /\ bypassed' = IF post[p].status = "PUBLISHED" THEN bypassed \cup {p} ELSE bypassed
    /\ UNCHANGED <<asset, revision>>

BlogNext ==
    \/ \E m \in Assets, v \in {"PUBLIC", "PRIVATE"} : InitiateUpload(m, v)
    \/ \E m \in Assets : CompleteUpload(m)
    \/ \E p \in Posts, d \in Documents, c \in Covers : Create(p, d, c) \/ Update(p, d, c)
    \/ \E p \in Posts : Publish(p) \/ Archive(p) \/ ArchiveResource(p)

-----------------------------------------------------------------------------
(* Properties.                                                             *)

(* What a visitor can see of a post: a cover that is not public is left    *)
(* out.                                                                    *)
Visible(d, c) == [document |-> d, cover |-> IF c \in Assets /\ IsPublic(c) THEN c ELSE NoAsset]

PublicContent == [p \in Published |-> Visible(post[p].document, post[p].cover)]

(* Every image of a published post is READY and PUBLIC, although            *)
(* _validate_media reads the assets without a lock and a post that is       *)
(* PUBLISHED can be edited: no visitor meets a broken or a private image.   *)
PublishedMediaIsPublic == \A p \in Published : Public(post[p].document, post[p].cover)

(* The public content and the revision change together: whatever a visitor  *)
(* could notice requests a build, and what he could not (drafts, uploads,   *)
(* a repeated publication) requests none.  The one exception are posts that *)
(* the generic handler takes off: they vanish and nothing is counted.       *)
ChangesAreCounted ==
    [][IF revision' = revision
       THEN PublicContent' = [p \in Published \ bypassed' |-> PublicContent[p]]
       ELSE revision' = revision + 1 /\ PublicContent' # PublicContent]_blog

-----------------------------------------------------------------------------
(* What the repository says of the blog and the code does not keep.        *)

(* docs/blog.md:14-18: "Archiving a published post requests a build", and   *)
(* "The legacy generic `/admin/posts` write endpoints reject BLOG input so  *)
(* callers cannot bypass these semantics."                                  *)
ArchivingRequestsBuild ==
    [][\A p \in Posts :
        post[p].status = "PUBLISHED" /\ post'[p].status = "ARCHIVED" =>
            revision' = revision + 1]_blog
=============================================================================
