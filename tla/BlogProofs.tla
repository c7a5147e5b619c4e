------------------------------ MODULE BlogProofs ------------------------------
(***************************************************************************)
(* Proofs about what the visitors of a site read: BlogSnapshots, for any   *)
(* posts, assets, documents and number of tries; Pages, for any entries,   *)
(* keys, size of a page and number of changes; and RichText, for any kinds *)
(* of nodes, any length of documents and any limits.                       *)
(***************************************************************************)
EXTENDS BlogSnapshots, Pages, RichText, Integers, FiniteSetTheorems, FunctionTheorems,
        SequenceTheorems, TLAPS

-----------------------------------------------------------------------------
(* BlogSnapshots.                                                          *)

(* What a visitor sees of a post whose images are public is the post.      *)
LEMMA VisibleIsAll ==
    ASSUME NEW d \in Documents, NEW c \in Covers, Public(d, c)
    PROVE  Visible(d, c) = [document |-> d, cover |-> c]
  BY DEF Visible, Public, MediaIds, Covers

(* A step of the media endpoints leaves an asset that is public as it is.  *)
LEMMA MediaSteps ==
    ASSUME BlogTypeOK,
           NEW m \in Assets,
           (\E v \in {"PUBLIC", "PRIVATE"} : InitiateUpload(m, v)) \/ CompleteUpload(m)
    PROVE  /\ BlogTypeOK'
           /\ UNCHANGED <<post, revision, bypassed>>
           /\ \A n \in Assets : IsPublic(n) => IsPublic(n)'
  BY DEF BlogTypeOK, InitiateUpload, CompleteUpload, IsPublic, Asset

(* A step of the blog keeps types and the promise about images.            *)
LEMMA BlogInvariant ==
    ASSUME BlogTypeOK, PublishedMediaIsPublic, BlogNext
    PROVE  BlogTypeOK' /\ PublishedMediaIsPublic'
<1> USE DocumentsAssumption, RevisionsAssumption
<1>1. ASSUME NEW m \in Assets,
             (\E v \in {"PUBLIC", "PRIVATE"} : InitiateUpload(m, v)) \/ CompleteUpload(m)
      PROVE  BlogTypeOK' /\ PublishedMediaIsPublic'
  <2>1. /\ BlogTypeOK'
        /\ UNCHANGED <<post, revision, bypassed>>
        /\ \A n \in Assets : IsPublic(n) => IsPublic(n)'
    BY <1>1, MediaSteps
  <2>2. ASSUME NEW p \in Published' PROVE Public(post[p].document, post[p].cover)'
    <3>1. p \in Published /\ post[p] \in Post
      BY <2>1 DEF Published, BlogTypeOK
    <3>2. MediaIds(post[p].document, post[p].cover) \subseteq Assets
      BY <3>1 DEF MediaIds, Post, Covers
    <3> QED
      BY <2>1, <3>1, <3>2 DEF PublishedMediaIsPublic, Public
  <2> QED
    BY <2>1, <2>2 DEF PublishedMediaIsPublic
<1>2. ASSUME NEW p \in Posts, NEW d \in Documents, NEW c \in Covers, Create(p, d, c)
      PROVE  BlogTypeOK' /\ PublishedMediaIsPublic'
  BY <1>2 DEF Create, BlogTypeOK, Post, PublishedMediaIsPublic, Published, Public, IsPublic
<1>3. ASSUME NEW p \in Posts, NEW d \in Documents, NEW c \in Covers, Update(p, d, c)
      PROVE  BlogTypeOK' /\ PublishedMediaIsPublic'
  <2>1. BlogTypeOK' /\ asset' = asset
    <3>1. post[p] \in Post /\ [post[p] EXCEPT !.document = d, !.cover = c] \in Post
      BY DEF BlogTypeOK, Post
    <3>2. post' = [post EXCEPT ![p] = [post[p] EXCEPT !.document = d, !.cover = c]]
      BY <1>3, <3>1 DEF Update, BlogTypeOK
    <3> QED
      BY <1>3, <3>1, <3>2 DEF Update, PublicContentChanged, BlogTypeOK
  <2>2. /\ post[p].status = "PUBLISHED" => Public(d, c)
        /\ post'[p].status = post[p].status
        /\ post'[p].document = d /\ post'[p].cover = c
        /\ \A q \in Posts \ {p} : post'[q] = post[q]
    BY <1>3 DEF Update, BlogTypeOK, Post
  <2> QED
    BY <2>1, <2>2 DEF PublishedMediaIsPublic, Published, Public, IsPublic
<1>4. ASSUME NEW p \in Posts, Publish(p)
      PROVE  BlogTypeOK' /\ PublishedMediaIsPublic'
  BY <1>4 DEF Publish, PublicContentChanged, BlogTypeOK, Post, PublishedMediaIsPublic,
              Published, Public, IsPublic
<1>5. ASSUME NEW p \in Posts, Archive(p) \/ ArchiveResource(p)
      PROVE  BlogTypeOK' /\ PublishedMediaIsPublic'
  BY <1>5 DEF Archive, ArchiveResource, PublicContentChanged, BlogTypeOK, Post,
              PublishedMediaIsPublic, Published, Public, IsPublic
<1> QED
  BY <1>1, <1>2, <1>3, <1>4, <1>5 DEF BlogNext

(* A step of the blog leaves the published rows and the public content     *)
(* alone, or changes both with the revision, or takes one post off.        *)
LEMMA Counted ==
    ASSUME BlogTypeOK, PublishedMediaIsPublic, BlogNext
    PROVE  \/ UNCHANGED <<revision, PublicContent, Fresh, Published, bypassed>>
           \/ /\ PublicContent' # PublicContent
              /\ revision' = revision + 1 /\ bypassed' = {}
           \/ \E p \in Published :
                 /\ revision' = revision
                 /\ Published' = Published \ {p} /\ bypassed' = bypassed \cup {p}
                 /\ PublicContent' = [q \in Published \ {p} |-> PublicContent[q]]
                 /\ Fresh' = [q \in Published \ {p} |-> Fresh[q]]
<1> DEFINE Same   == UNCHANGED <<revision, PublicContent, Fresh, Published, bypassed>>
           Change == /\ PublicContent' # PublicContent
                     /\ revision' = revision + 1 /\ bypassed' = {}
           TakenOff(p) == /\ revision' = revision
                          /\ Published' = Published \ {p} /\ bypassed' = bypassed \cup {p}
                          /\ PublicContent' = [q \in Published \ {p} |-> PublicContent[q]]
                          /\ Fresh' = [q \in Published \ {p} |-> Fresh[q]]
<1>1. ASSUME UNCHANGED <<asset, revision, bypassed>>, UNCHANGED Published,
             \A p \in Published : UNCHANGED post[p]
      PROVE  Same
  BY <1>1 DEF PublicContent, Fresh, Visible, IsPublic
<1>2. ASSUME NEW m \in Assets,
             (\E v \in {"PUBLIC", "PRIVATE"} : InitiateUpload(m, v)) \/ CompleteUpload(m)
      PROVE  Same
  <2>1. /\ UNCHANGED <<post, revision, bypassed>>
        /\ BlogTypeOK'
    BY <1>2, MediaSteps
  <2>2. UNCHANGED <<Published, Fresh>>
    BY <2>1 DEF Published, Fresh
  <2>3. PublishedMediaIsPublic'
    BY <1>2, BlogInvariant DEF BlogNext
  <2>4. ASSUME NEW p \in Published
        PROVE  Visible(post[p].document, post[p].cover)'
                 = Visible(post[p].document, post[p].cover)
    <3>1. /\ post[p].document \in Documents /\ post[p].cover \in Covers
          /\ post'[p].document \in Documents /\ post'[p].cover \in Covers
      BY <2>1 DEF Published, BlogTypeOK, Post
    <3>2. Public(post[p].document, post[p].cover)
      BY DEF PublishedMediaIsPublic
    <3>3. Public(post[p].document, post[p].cover)'
      BY <2>2, <2>3 DEF PublishedMediaIsPublic
    <3>4. Visible(post[p].document, post[p].cover)
            = [document |-> post[p].document, cover |-> post[p].cover]
      BY <3>1, <3>2, VisibleIsAll
    <3>5. Visible(post[p].document, post[p].cover)'
            = [document |-> post'[p].document, cover |-> post'[p].cover]
      BY <2>1, <3>1, <3>3 DEF Visible, Public, MediaIds, Covers
    <3> QED
      BY <2>1, <3>4, <3>5
  <2> QED
    BY <2>1, <2>2, <2>4 DEF PublicContent
<1>3. ASSUME NEW p \in Posts, NEW d \in Documents, NEW c \in Covers, Create(p, d, c)
      PROVE  Same
  BY <1>1, <1>3 DEF Create, Published, BlogTypeOK
<1>4. ASSUME NEW p \in Posts, NEW d \in Documents, NEW c \in Covers, Update(p, d, c)
      PROVE  Same \/ Change
  <2>1. CASE post[p].status # "PUBLISHED"
    BY <1>1, <1>4, <2>1 DEF Update, Published, BlogTypeOK, Post
  <2>2. CASE post[p].status = "PUBLISHED"
    <3>1. p \in Published /\ p \in Published'
      BY <1>4, <2>2 DEF Update, Published, BlogTypeOK
    <3>2. /\ revision' = revision + 1 /\ bypassed' = {}
          /\ post'[p].document = d /\ post'[p].cover = c
          /\ Public(d, c) /\ asset' = asset
          /\ d # post[p].document \/ c # post[p].cover
      BY <1>4, <2>2 DEF Update, PublicContentChanged, BlogTypeOK, Post
    <3>3. post[p].document \in Documents /\ post[p].cover \in Covers
      BY DEF BlogTypeOK, Post
    <3>4. Visible(post[p].document, post[p].cover)
            = [document |-> post[p].document, cover |-> post[p].cover]
      BY <3>1, <3>3, VisibleIsAll DEF PublishedMediaIsPublic
    <3>5. Visible(d, c) = [document |-> d, cover |-> c]
      BY <3>2, VisibleIsAll
    <3>6. PublicContent[p] = Visible(post[p].document, post[p].cover)
      BY <3>1 DEF PublicContent
    <3>7. PublicContent'[p] = Visible(d, c)
      BY <3>1, <3>2 DEF PublicContent, Visible, IsPublic
    <3>8. PublicContent'[p] # PublicContent[p]
      BY <3>2, <3>4, <3>5, <3>6, <3>7
    <3> QED
      BY <3>2, <3>8
  <2> QED
    BY <2>1, <2>2
<1>5. ASSUME NEW p \in Posts, Publish(p)
      PROVE  Change
  <2>1. p \notin Published /\ p \in Published'
    BY <1>5 DEF Publish, Published, BlogTypeOK, Post
  <2>2. DOMAIN PublicContent = Published /\ DOMAIN PublicContent' = Published'
    BY DEF PublicContent
  <2> QED
    BY <1>5, <2>1, <2>2 DEF Publish, PublicContentChanged
<1>6. ASSUME NEW p \in Posts, Archive(p)
      PROVE  Same \/ Change
  <2>1. CASE post[p].status # "PUBLISHED"
    BY <1>1, <1>6, <2>1 DEF Archive, Published, BlogTypeOK, Post
  <2>2. CASE post[p].status = "PUBLISHED"
    <3>1. p \in Published /\ p \notin Published' /\ revision' = revision + 1 /\ bypassed' = {}
      BY <1>6, <2>2 DEF Archive, PublicContentChanged, Published, BlogTypeOK, Post
    <3>2. DOMAIN PublicContent = Published /\ DOMAIN PublicContent' = Published'
      BY DEF PublicContent
    <3> QED
      BY <3>1, <3>2
  <2> QED
    BY <2>1, <2>2
<1>7. ASSUME NEW p \in Posts, ArchiveResource(p)
      PROVE  Same \/ \E q \in Published : TakenOff(q)
  <2>1. CASE post[p].status # "PUBLISHED"
    BY <1>1, <1>7, <2>1 DEF ArchiveResource, Published, BlogTypeOK, Post
  <2>2. CASE post[p].status = "PUBLISHED"
    <3>1. /\ p \in Published /\ Published' = Published \ {p}
          /\ UNCHANGED <<asset, revision>> /\ bypassed' = bypassed \cup {p}
          /\ \A q \in Published \ {p} : post'[q] = post[q]
      BY <1>7, <2>2 DEF ArchiveResource, Published, BlogTypeOK, Post
    <3>2. PublicContent' = [q \in Published \ {p} |-> PublicContent[q]]
      BY <3>1 DEF PublicContent, Visible, IsPublic
    <3>3. Fresh' = [q \in Published \ {p} |-> Fresh[q]]
      BY <3>1 DEF Fresh
    <3> QED
      BY <3>1, <3>2, <3>3
  <2> QED
    BY <2>1, <2>2
<1> HIDE DEF Same, Change, TakenOff
<1>8. Same \/ Change \/ \E q \in Published : TakenOff(q)
  BY <1>2, <1>3, <1>4, <1>5, <1>6, <1>7 DEF BlogNext
<1> QED
  BY <1>8 DEF Same, Change, TakenOff

-----------------------------------------------------------------------------
(* The reader.                                                             *)

LEMMA NothingIsViews == Nothing \in Views
<1>1. [p \in {} |-> p] \in [{} -> View]
  OBVIOUS
<1> QED
  BY <1>1 DEF Nothing, Views

LEMMA SnapshotTypes ==
    ASSUME TypeOK, Snapshot
    PROVE  TypeOK'
<1> USE TriesAssumption, RevisionsAssumption DEF TypeOK, blog
<1> SUFFICES UNCHANGED blog => BlogTypeOK'
  <2>1. UNCHANGED blog
    BY DEF Snapshot, Request, ReadBefore, ReadPosts, ReadMedia, ReadAfter
  <2> HIDE DEF blog
  <2> SUFFICES ASSUME BlogTypeOK' PROVE TypeOK'
    BY <2>1
  <2>2. CASE Request
    BY <2>2, NothingIsViews DEF Request, Ended
  <2>3. CASE ReadBefore
    BY <2>3 DEF ReadBefore, BlogTypeOK
  <2>4. CASE ReadPosts
    <3>1. ASSUME NEW p \in Published PROVE Row(p) \in View
      BY <3>1 DEF Row, View, Views, Published, BlogTypeOK, Post
    <3>2. [p \in Published |-> Row(p)] \in Views
      <4>1. [p \in Published |-> Row(p)] \in [Published -> View]
        BY <3>1
      <4> QED
        BY <4>1 DEF Views, Published
    <3> QED
      BY <2>4, <3>2 DEF ReadPosts
  <2>5. CASE ReadMedia
    <3> DEFINE answer == [p \in DOMAIN loaded |-> Visible(loaded[p].document, loaded[p].cover)]
    <3>1. ASSUME NEW p \in DOMAIN loaded
          PROVE  Visible(loaded[p].document, loaded[p].cover) \in View
      BY <3>1 DEF Visible, View, Views, Covers
    <3>2. DOMAIN loaded \in SUBSET Posts
      BY DEF Views
    <3>3. answer \in [DOMAIN loaded -> View]
      BY <3>1
    <3>4. answer \in Views
      BY <3>2, <3>3 DEF Views
    <3> QED
      BY <2>5, <3>4 DEF ReadMedia
  <2>6. CASE ReadAfter
    BY <2>6 DEF ReadAfter, Ended
  <2> QED
    BY <2>2, <2>3, <2>4, <2>5, <2>6 DEF Snapshot
<1> QED
  BY DEF BlogTypeOK, Published, IsPublic

(* What the reader read stays true until the revision moves.               *)
LEMMA SnapshotReadsHold ==
    ASSUME TypeOK, ReadsHold, Snapshot
    PROVE  ReadsHold'
<1>1. UNCHANGED <<blog, Published, Fresh, PublicContent>>
  BY DEF Snapshot, Request, ReadBefore, ReadPosts, ReadMedia, ReadAfter, blog,
         Published, Fresh, PublicContent, Visible, IsPublic
<1>2. revision \in Nat
  BY RevisionsAssumption DEF TypeOK, BlogTypeOK
<1> SUFFICES ASSUME UNCHANGED <<revision, bypassed, Published, Fresh, PublicContent>>
             PROVE  ReadsHold'
  BY <1>1 DEF blog
<1>3. CASE Request
  BY <1>2, <1>3 DEF Request, ReadsHold
<1>4. CASE ReadBefore
  BY <1>2, <1>4 DEF ReadBefore, ReadsHold
<1>5. CASE ReadPosts
  <2>1. DOMAIN loaded' = Published
    BY <1>5 DEF ReadPosts
  <2>2. try = 1 => loaded' = Fresh
    <3> SUFFICES ASSUME try = 1 PROVE loaded' = Fresh
      OBVIOUS
    <3>1. loaded = Nothing
      BY <1>5 DEF ReadPosts, ReadsHold
    <3>2. \A p : Row(p) = [document |-> post[p].document, cover |-> post[p].cover]
      BY <3>1 DEF Row, Nothing
    <3> QED
      BY <1>5, <3>2 DEF ReadPosts, Fresh
  <2>3. Reads(loaded, Fresh)'
    BY <1>5, <2>1, <2>2 DEF ReadPosts, Reads
  <2> QED
    BY <1>5, <2>3 DEF ReadPosts, ReadsHold
<1>6. CASE ReadMedia
  <2>1. DOMAIN shown' = DOMAIN loaded
    BY <1>6 DEF ReadMedia
  <2>2. ASSUME Reads(loaded, Fresh) PROVE Reads(shown, PublicContent)'
    <3>1. ASSUME try = 1, NEW p \in Published PROVE shown'[p] = PublicContent[p]
      <4>1. p \in DOMAIN loaded /\ loaded[p] = Fresh[p]
        BY <2>2, <3>1 DEF Reads
      <4>2. Fresh[p] = [document |-> post[p].document, cover |-> post[p].cover]
        BY <3>1 DEF Fresh
      <4>3. PublicContent[p] = Visible(post[p].document, post[p].cover)
        BY <3>1 DEF PublicContent
      <4>4. shown'[p] = Visible(loaded[p].document, loaded[p].cover)
        BY <1>6, <4>1 DEF ReadMedia
      <4> QED
        BY <4>1, <4>2, <4>3, <4>4
    <3>2. try' = try /\ Published' = Published /\ bypassed' = bypassed
          /\ PublicContent' = PublicContent
      BY <1>6 DEF ReadMedia
    <3>3. Published \subseteq DOMAIN loaded /\ DOMAIN loaded \subseteq Published \cup bypassed
      BY <2>2 DEF Reads
    <3> QED
      BY <2>1, <3>1, <3>2, <3>3 DEF Reads
  <2> QED
    BY <1>6, <2>2 DEF ReadMedia, ReadsHold
<1>7. CASE ReadAfter
  BY <1>7 DEF ReadAfter, ReadsHold, Ended, TypeOK
<1> QED
  BY <1>3, <1>4, <1>5, <1>6, <1>7 DEF Snapshot

LEMMA InitInvariant == Init => IInv
<1> SUFFICES ASSUME Init PROVE IInv
  OBVIOUS
<1>1. TypeOK
  BY NothingIsViews, DocumentsAssumption, RevisionsAssumption, TriesAssumption
     DEF Init, BlogInit, TypeOK, BlogTypeOK, NoPost, NoUpload, Post, Asset, Covers, Ended
<1>2. Published = {}
  BY DEF Init, BlogInit, Published, NoPost
<1>3. ReadsHold
  BY DEF Init, BlogInit, ReadsHold, Ended
<1> QED
  BY <1>1, <1>2, <1>3 DEF IInv, PublishedMediaIsPublic

LEMMA NextInvariant == IInv /\ [Next]_vars => IInv'
<1> SUFFICES ASSUME IInv, [Next]_vars PROVE IInv'
  OBVIOUS
<1>1. CASE BlogNext /\ UNCHANGED reader
  <2>1. BlogTypeOK' /\ PublishedMediaIsPublic'
    BY <1>1, BlogInvariant DEF IInv, TypeOK
  <2>2. TypeOK'
    BY <1>1, <2>1 DEF IInv, TypeOK, reader
  <2>3. ReadsHold'
    <3>1. ReadsHold /\ before \in Nat /\ revision \in Nat
      BY RevisionsAssumption DEF IInv, TypeOK, BlogTypeOK
    <3>2. CASE UNCHANGED <<revision, PublicContent, Fresh, Published, bypassed>>
      BY <1>1, <3>1, <3>2 DEF ReadsHold, Reads, reader
    <3>3. CASE revision' = revision + 1 /\ bypassed' = {}
      BY <1>1, <3>1, <3>3 DEF ReadsHold, reader
    <3>4. ASSUME NEW p \in Published, revision' = revision,
                 Published' = Published \ {p}, bypassed' = bypassed \cup {p},
                 PublicContent' = [q \in Published \ {p} |-> PublicContent[q]],
                 Fresh' = [q \in Published \ {p} |-> Fresh[q]]
          PROVE  ReadsHold'
      <4>1. ASSUME NEW posts, Reads(posts, Fresh), UNCHANGED try
            PROVE  /\ Published' \subseteq DOMAIN posts
                   /\ DOMAIN posts \subseteq Published' \cup bypassed'
                   /\ try' = 1 => \A q \in Published' : posts[q] = Fresh'[q]
        BY <3>4, <4>1 DEF Reads
      <4>2. ASSUME NEW posts, Reads(posts, PublicContent), UNCHANGED try
            PROVE  /\ Published' \subseteq DOMAIN posts
                   /\ DOMAIN posts \subseteq Published' \cup bypassed'
                   /\ try' = 1 => \A q \in Published' : posts[q] = PublicContent'[q]
        BY <3>4, <4>2 DEF Reads
      <4> QED
        BY <1>1, <3>1, <3>4, <4>1, <4>2 DEF ReadsHold, Reads, reader
    <3> QED
      BY <1>1, <3>2, <3>3, <3>4, Counted DEF IInv, TypeOK
  <2> QED
    BY <2>1, <2>2, <2>3 DEF IInv
<1>2. CASE Snapshot
  <2>1. UNCHANGED blog
    BY <1>2 DEF Snapshot, Request, ReadBefore, ReadPosts, ReadMedia, ReadAfter
  <2>2. PublishedMediaIsPublic'
    BY <2>1 DEF IInv, PublishedMediaIsPublic, Published, Public, IsPublic, blog
  <2> QED
    BY <1>2, <2>2, SnapshotTypes, SnapshotReadsHold DEF IInv
<1>3. CASE UNCHANGED vars
  BY <1>3 DEF vars, blog, reader, IInv, TypeOK, BlogTypeOK, PublishedMediaIsPublic, ReadsHold,
              Reads, Published, Public, IsPublic, Fresh, PublicContent, Visible
<1> QED
  BY <1>1, <1>2, <1>3 DEF Next

-----------------------------------------------------------------------------
(* The theorems.                                                           *)

(* The inductive invariant holds whatever the constants are.               *)
THEOREM InvariantCorrect == Spec => []IInv
  BY InitInvariant, NextInvariant, PTL DEF Spec

(* Every row and every local variable of a snapshot has its type.          *)
THEOREM TypeCorrect == Spec => []TypeOK
<1>1. IInv => TypeOK
  BY DEF IInv
<1> QED
  BY InvariantCorrect, <1>1, PTL

(* Every image of a published post is READY and PUBLIC: publish and the    *)
(* public save may read the assets without a lock.                         *)
THEOREM ImagesArePublic == Spec => []PublishedMediaIsPublic
<1>1. IInv => PublishedMediaIsPublic
  BY DEF IInv
<1> QED
  BY InvariantCorrect, <1>1, PTL

(* The public content and the revision change together, in every handler   *)
(* but the generic one: a post that vanishes uncounted was taken off there, *)
(* and nothing else of the content changed with it.                        *)
THEOREM ChangesCounted == Spec => ChangesAreCounted
<1> DEFINE Step == IF revision' = revision
                   THEN PublicContent' = [p \in Published \ bypassed' |-> PublicContent[p]]
                   ELSE revision' = revision + 1 /\ PublicContent' # PublicContent
<1>1. IInv /\ [Next]_vars => [Step]_blog
  <2> SUFFICES ASSUME IInv, [Next]_vars, ~UNCHANGED blog PROVE Step
    OBVIOUS
  <2>1. BlogNext
    BY DEF Next, Snapshot, Request, ReadBefore, ReadPosts, ReadMedia, ReadAfter, vars
  <2>2. revision \in Nat /\ bypassed \cap Published = {}
    BY RevisionsAssumption DEF IInv, TypeOK, BlogTypeOK, ReadsHold
  <2>3. PublicContent = [p \in Published |-> PublicContent[p]]
    BY DEF PublicContent
  <2>4. CASE UNCHANGED <<revision, PublicContent, Published, bypassed>>
    <3>1. Published \ bypassed' = Published
      BY <2>2, <2>4
    <3> QED
      BY <2>3, <2>4, <3>1
  <2>5. CASE PublicContent' # PublicContent /\ revision' = revision + 1
    BY <2>2, <2>5
  <2>6. ASSUME NEW p \in Published, revision' = revision, bypassed' = bypassed \cup {p},
               PublicContent' = [q \in Published \ {p} |-> PublicContent[q]]
        PROVE  Step
    <3>1. Published \ bypassed' = Published \ {p}
      BY <2>2, <2>6
    <3> QED
      BY <2>6, <3>1
  <2> QED
    BY <2>1, <2>4, <2>5, <2>6, Counted DEF IInv, TypeOK
<1> QED
  BY InvariantCorrect, <1>1, PTL DEF Spec, ChangesAreCounted

(* An answered snapshot lists the posts of the revision it names, and at   *)
(* most those the generic handler took off since; if its first try was     *)
(* good it shows the published ones as they are.                           *)
THEOREM SnapshotLists == Spec => SnapshotListsRevision
<1> DEFINE Lists == /\ before = revision
                    /\ Published \subseteq DOMAIN shown
                    /\ DOMAIN shown \subseteq Published \cup bypassed
                    /\ try = 1 => \A p \in Published : shown[p] = PublicContent[p]
<1>1. IInv /\ [Next]_vars => [Answers => Lists]_vars
  <2> SUFFICES ASSUME IInv, Next, Answers PROVE Lists
    OBVIOUS
  <2>1. pc = "AFTER" /\ before = revision
    BY DEF Next, Answers, Snapshot, Request, ReadBefore, ReadPosts, ReadMedia, ReadAfter,
           reader, Ended
  <2> QED
    BY <2>1 DEF IInv, ReadsHold, Reads
<1> QED
  BY InvariantCorrect, <1>1, PTL DEF Spec, SnapshotListsRevision

-----------------------------------------------------------------------------
(* Pages.                                                                  *)

(* The place of an entry.                                                  *)

Ahead(e) == {x \in listed : Before(x, e)}

Rank(e) == Cardinality(Ahead(e))

\* The order decides between the entry and every other one.
Placed(e) == \A x \in listed \ {e} : Before(x, e) <=> ~Before(e, x)

LEMMA Parameters ==
    /\ Entries \subseteq Nat /\ IsFiniteSet(Entries) /\ Entries # {} /\ SortKeys \subseteq Nat
    /\ PageSize \in Nat /\ PageSize > 0 /\ MaxChanges \in Nat
    /\ Cardinality(Entries) \in Nat /\ Cardinality(Entries) > 0
<1>1. Cardinality(Entries) \in Nat
  BY PagesAssumption, FS_CardinalityType
<1>2. Cardinality(Entries) # 0
  BY PagesAssumption, FS_EmptySet
<1>. QED BY <1>1, <1>2, PagesAssumption

LEMMA Listed ==
    ASSUME listed \subseteq Entries
    PROVE  /\ IsFiniteSet(listed) /\ Cardinality(listed) \in 0..Cardinality(Entries)
           /\ \A e : IsFiniteSet(Ahead(e)) /\ Rank(e) \in 0..Cardinality(listed)
<1>1. IsFiniteSet(listed) /\ Cardinality(listed) <= Cardinality(Entries)
  BY Parameters, FS_Subset
<1>2. Cardinality(listed) \in Nat
  BY <1>1, FS_CardinalityType
<1>3. ASSUME NEW e
      PROVE  IsFiniteSet(Ahead(e)) /\ Rank(e) \in 0..Cardinality(listed)
  <2>1. Ahead(e) \subseteq listed
    BY DEF Ahead
  <2>2. IsFiniteSet(Ahead(e)) /\ Cardinality(Ahead(e)) <= Cardinality(listed)
    BY <1>1, <2>1, FS_Subset
  <2>3. Cardinality(Ahead(e)) \in Nat
    BY <2>2, FS_CardinalityType
  <2>. QED BY <1>2, <2>2, <2>3 DEF Rank
<1>. QED BY <1>1, <1>2, <1>3, Parameters

LEMMA NotBeforeItself ==
    ASSUME key \in [Entries -> SortKeys], NEW e \in Entries
    PROVE  ~Before(e, e)
<1>1. e \in Nat /\ key[e] \in Nat
  BY Parameters
<1>. QED BY <1>1 DEF Before, NewestFirst, BySortOrder, NewestOnly, ByName

LEMMA RankIsBelow ==
    ASSUME listed \subseteq Entries, key \in [Entries -> SortKeys], NEW e \in listed
    PROVE  Rank(e) < Cardinality(listed)
<1>1. Ahead(e) \subseteq listed \ {e}
  BY NotBeforeItself DEF Ahead
<1>2. IsFiniteSet(listed \ {e}) /\ Cardinality(listed \ {e}) = Cardinality(listed) - 1
  BY Listed, FS_RemoveElement
<1>3. Cardinality(Ahead(e)) <= Cardinality(listed \ {e})
  BY <1>1, <1>2, FS_Subset
<1>. QED BY <1>2, <1>3, Listed DEF Rank

(* Wherever the order decides, an arrangement has no choice: the entry     *)
(* comes after exactly those it has to come after.                         *)
LEMMA ArrangedAtRank ==
    ASSUME listed \subseteq Entries, key \in [Entries -> SortKeys],
           NEW s \in Arrangements, NEW e \in listed, Placed(e)
    PROVE  /\ Rank(e) + 1 \in DOMAIN s /\ s[Rank(e) + 1] = e
           /\ \A i \in DOMAIN s : s[i] = e => i = Rank(e) + 1
<1> DEFINE n == Cardinality(listed)
<1>1. n \in Nat /\ IsFiniteSet(listed)
  BY Listed
<1>2. /\ s \in [1..n -> listed]
      /\ \A i, j \in 1..n : i < j => s[i] # s[j] /\ ~Before(s[j], s[i])
  BY DEF Arrangements
<1>3. \A i, j \in 1..n : s[i] = s[j] => i = j
  BY <1>1, <1>2
<1>4. \A x \in listed : \E i \in 1..n : s[i] = x
  <2>1. s \in Injection(1..n, listed)
    BY <1>2, <1>3, Fun_IsInj
  <2>2. IsFiniteSet(1..n) /\ Cardinality(1..n) = n
    BY <1>1, FS_Interval
  <2>3. s \in Surjection(1..n, listed)
    BY <1>1, <2>1, <2>2, FS_Injection
  <2>. QED BY <2>3 DEF Surjection
<1>5. ASSUME NEW i \in 1..n, s[i] = e
      PROVE  Rank(e) = i - 1
  <2> DEFINE first == 1..(i - 1)
             front == [j \in first |-> s[j]]
  <2>1. \A j \in 1..n : Before(s[j], e) <=> j < i
    <3>1. ASSUME NEW j \in 1..n, j < i
          PROVE  Before(s[j], e)
      BY <1>2, <1>5, <3>1 DEF Placed
    <3>2. ASSUME NEW j \in 1..n, j > i
          PROVE  ~Before(s[j], e)
      BY <1>2, <1>5, <3>2
    <3>3. ~Before(e, e)
      BY NotBeforeItself
    <3>. QED BY <1>1, <1>5, <3>1, <3>2, <3>3
  <2>2. first \subseteq 1..n /\ i \in Nat /\ i >= 1
    BY <1>1
  <2>3. /\ front \in [first -> Ahead(e)]
        /\ \A j, k \in first : front[j] = front[k] => j = k
        /\ \A x \in Ahead(e) : \E j \in first : front[j] = x
    <3>1. \A j \in first : s[j] \in Ahead(e)
      BY <1>2, <2>1, <2>2 DEF Ahead
    <3>2. ASSUME NEW x \in Ahead(e)
          PROVE  \E j \in first : front[j] = x
      <4>1. PICK j \in 1..n : s[j] = x
        BY <1>4 DEF Ahead
      <4>2. j \in first
        BY <1>1, <2>1, <2>2, <4>1 DEF Ahead
      <4>. QED BY <4>1, <4>2
    <3>3. \A j, k \in first : front[j] = front[k] => j = k
      BY <1>3, <2>2
    <3>. QED BY <3>1, <3>2, <3>3
  <2>4. IsFiniteSet(1..(i - 1)) /\ Cardinality(1..(i - 1)) = i - 1
    <3>1. 1 \in Int /\ i - 1 \in Int
      BY <2>2
    <3>. QED BY <2>2, <3>1, FS_Interval
  <2>5. IsFiniteSet(first) /\ Cardinality(first) = i - 1
    BY <2>4
  <2> HIDE DEF first, front
  <2>6. front \in Bijection(first, Ahead(e))
    BY <2>3, Fun_IsBij
  <2>7. Cardinality(Ahead(e)) = Cardinality(first)
    BY <2>5, <2>6, FS_Bijection DEF ExistsBijection
  <2>. QED BY <2>5, <2>7 DEF Rank
<1>6. DOMAIN s = 1..n
  BY <1>2
<1> HIDE DEF n
<1>7. \A i \in 1..n : s[i] = e => Rank(e) = i - 1 /\ i \in Nat
  BY <1>5
<1>. QED BY <1>1, <1>4, <1>6, <1>7

LEMMA OrderedIsTotal ==
    ASSUME listed \subseteq Entries, key \in [Entries -> SortKeys], Ordered
    PROVE  /\ \A e \in listed : Placed(e)
           /\ \A a, b, c \in listed : Before(a, b) /\ Before(b, c) => Before(a, c)
<1>1. \A e \in listed : e \in Nat /\ key[e] \in Nat
  BY Parameters
<1>2. CASE listing = "posts"
  BY <1>1, <1>2 DEF Placed, Before, NewestFirst
<1>3. CASE listing = "honors"
  BY <1>1, <1>3 DEF Placed, Before, BySortOrder
<1>. QED BY <1>2, <1>3 DEF Ordered

\* In a listing whose order is total, no two entries have one place.
LEMMA RanksDiffer ==
    ASSUME listed \subseteq Entries, key \in [Entries -> SortKeys], Ordered,
           NEW a \in listed, NEW b \in listed, a # b
    PROVE  Rank(a) # Rank(b)
<1>1. ASSUME NEW e \in listed, NEW f \in listed, Before(e, f)
      PROVE  Rank(e) < Rank(f)
  <2>1. Ahead(e) \cup {e} \subseteq Ahead(f)
    BY <1>1, OrderedIsTotal DEF Ahead
  <2>2. e \notin Ahead(e)
    BY NotBeforeItself DEF Ahead
  <2>3. IsFiniteSet(Ahead(e)) /\ IsFiniteSet(Ahead(f)) /\ Rank(e) \in Nat /\ Rank(f) \in Nat
    BY Listed
  <2>4. Cardinality(Ahead(e) \cup {e}) = Rank(e) + 1
    BY <2>2, <2>3, FS_AddElement DEF Rank
  <2>5. Cardinality(Ahead(e) \cup {e}) <= Rank(f)
    BY <2>1, <2>3, FS_Subset DEF Rank
  <2>. QED BY <2>3, <2>4, <2>5
<1>2. Before(a, b) \/ Before(b, a)
  BY OrderedIsTotal DEF Placed
<1>. QED BY <1>1, <1>2, Listed

-----------------------------------------------------------------------------
(* Counting.                                                               *)

LEMMA OneApart ==
    ASSUME NEW A, NEW B, IsFiniteSet(A), IsFiniteSet(B), NEW x, A \ {x} = B \ {x}
    PROVE  Cardinality(A) <= Cardinality(B) + 1
<1>1. Cardinality(A) \in Nat /\ Cardinality(B) \in Nat
  BY FS_CardinalityType
<1>2. Cardinality(A \ {x}) = IF x \in A THEN Cardinality(A) - 1 ELSE Cardinality(A)
  BY FS_RemoveElement
<1>3. Cardinality(B \ {x}) = IF x \in B THEN Cardinality(B) - 1 ELSE Cardinality(B)
  BY FS_RemoveElement
<1>. QED BY <1>1, <1>2, <1>3

LEMMA AtMostOneMore ==
    ASSUME NEW A, IsFiniteSet(A), NEW X, \A a, b \in X : a = b, NEW W, W \subseteq A \cup X
    PROVE  IsFiniteSet(W) /\ Cardinality(W) <= Cardinality(A) + 1
<1>1. PICK x : X \subseteq {x}
  <2>1. CASE X = {}
    BY <2>1
  <2>2. ASSUME NEW y \in X
        PROVE  X \subseteq {y}
    OBVIOUS
  <2>. QED BY <2>1, <2>2
<1>2. /\ IsFiniteSet(A \cup {x})
      /\ Cardinality(A \cup {x}) = IF x \in A THEN Cardinality(A) ELSE Cardinality(A) + 1
  BY FS_AddElement
<1>3. W \subseteq A \cup {x}
  BY <1>1
<1>4. IsFiniteSet(W) /\ Cardinality(W) <= Cardinality(A \cup {x})
  BY <1>2, <1>3, FS_Subset
<1>5. Cardinality(A) \in Nat
  BY FS_CardinalityType
<1>6. Cardinality(W) \in Nat
  BY <1>4, FS_CardinalityType
<1>. QED BY <1>2, <1>4, <1>5, <1>6

LEMMA SubsetIsSmaller ==
    ASSUME NEW A, IsFiniteSet(A), NEW W, W \subseteq A
    PROVE  /\ IsFiniteSet(W) /\ Cardinality(W) <= Cardinality(A)
           /\ Cardinality(W) \in Nat /\ Cardinality(A) \in Nat
  BY FS_Subset, FS_CardinalityType

-----------------------------------------------------------------------------
(* The walk.                                                               *)

\* The pages whose rows have been read, and the rows they had.
PagesRead == IF step = "count" /\ ~CountsFirst THEN page ELSE page - 1

RowsRead == PagesRead * PageSize

\* Of the entries that stayed: those the walk has passed without getting them,
Passed == {e \in stayed : seen[e] = 0 /\ Rank(e) < RowsRead}

\* and those it has got once too often, or will.
Doubled == {e \in stayed : seen[e] > 1 \/ (seen[e] > 0 /\ Rank(e) >= RowsRead)}

(* Without a change the counts agree, and whatever has one place only has  *)
(* been shown once when the walk is past it.                               *)
Undisturbed ==
    /\ page > 1 \/ (step = "rows" /\ CountsFirst) => total = Cardinality(listed)
    /\ \A e \in listed : Placed(e) => seen[e] = IF Rank(e) < RowsRead THEN 1 ELSE 0

WalkInv ==
    /\ PagesTypeOK
    /\ gone \in Nat /\ come \in Nat
    /\ \A e \in Entries : seen[e] <= PagesRead
    /\ step # "read" => page <= Cardinality(Entries)
    /\ Ordered => Cardinality(Passed) <= gone /\ Cardinality(Doubled) <= come
    /\ Ordered /\ (step = "rows" \/ Finished) => Cardinality(listed) <= total + late
    /\ gone + come = 0 => Undisturbed

LEMMA WalkTypes ==
    ASSUME WalkInv
    PROVE  /\ listed \subseteq Entries /\ stayed \subseteq listed /\ key \in [Entries -> SortKeys]
           /\ page \in Nat /\ page >= 1 /\ total \in Nat /\ late \in Nat
           /\ PagesRead \in Nat /\ RowsRead \in Nat
           /\ seen \in [Entries -> Nat]
           /\ IsFiniteSet(stayed) /\ IsFiniteSet(Passed) /\ IsFiniteSet(Doubled)
           /\ Cardinality(listed) \in Nat
<1>1. /\ listed \subseteq Entries /\ stayed \subseteq listed /\ key \in [Entries -> SortKeys]
      /\ page \in Nat /\ page >= 1 /\ total \in Nat
  BY Parameters DEF WalkInv, PagesTypeOK
<1>2. late \in Nat
  BY DEF WalkInv, PagesTypeOK
<1>3. PagesRead \in Nat /\ RowsRead \in Nat
  BY <1>1, Parameters DEF PagesRead, RowsRead
<1>4. seen \in [Entries -> Nat]
  BY <1>1 DEF WalkInv, PagesTypeOK
<1>5. IsFiniteSet(stayed) /\ Cardinality(listed) \in Nat
  BY <1>1, Listed, FS_Subset
<1>6. IsFiniteSet(Passed) /\ IsFiniteSet(Doubled)
  BY <1>5, FS_Subset DEF Passed, Doubled
<1>. QED BY <1>1, <1>2, <1>3, <1>4, <1>5, <1>6

LEMMA WalkBegins == PagesInit => WalkInv
<1> SUFFICES ASSUME PagesInit PROVE WalkInv
  OBVIOUS
<1> USE DEF PagesInit
<1>1. PagesTypeOK
  BY Parameters DEF PagesTypeOK
<1>2. PagesRead = 0 /\ RowsRead = 0
  BY Parameters DEF PagesRead, RowsRead
<1>3. stayed \subseteq Entries /\ \A e \in Entries : seen[e] = 0 /\ ~(Rank(e) < 0)
  BY Listed
<1>4. Passed = {} /\ Doubled = {}
  <2>1. \A e \in stayed : seen[e] = 0 /\ ~(Rank(e) < RowsRead)
    BY <1>2, <1>3
  <2>. QED BY <2>1 DEF Passed, Doubled
<1>5. Undisturbed
  BY <1>2, <1>3 DEF Undisturbed
<1>. QED BY <1>1, <1>2, <1>3, <1>4, <1>5, FS_EmptySet DEF WalkInv, Finished

LEMMA AskKeeps == WalkInv /\ Ask => WalkInv'
<1> SUFFICES ASSUME WalkInv, Ask PROVE WalkInv'
  OBVIOUS
<1>a. /\ step = "read" /\ step' = IF CountsFirst THEN "count" ELSE "rows"
      /\ UNCHANGED <<listing, key, listed, page, total, seen, stayed, gone, come, late>>
      /\ page > 1 => Offset(page) < total
  BY DEF Ask
<1>1. PagesRead' = PagesRead /\ RowsRead' = RowsRead /\ CountsFirst' = CountsFirst
  <2>1. CountsFirst' = CountsFirst
    BY <1>a DEF CountsFirst
  <2>2. PagesRead = page - 1 /\ PagesRead' = page' - 1
    BY <1>a, <2>1 DEF PagesRead
  <2>. QED BY <1>a, <2>1, <2>2 DEF RowsRead
<1>2. \A e : /\ Rank(e)' = Rank(e) /\ Placed(e)' = Placed(e)
  BY <1>a DEF Rank, Ahead, Placed, Before, NewestFirst, BySortOrder, NewestOnly, ByName
<1>3. Passed' = Passed /\ Doubled' = Doubled
  BY <1>a, <1>1, <1>2 DEF Passed, Doubled
<1>4. page <= Cardinality(Entries)
  <2>1. total <= Cardinality(Entries) /\ page \in Nat /\ page >= 1
    BY WalkTypes DEF WalkInv, PagesTypeOK
  <2>2. Offset(page) >= page - 1
    BY <2>1, Parameters DEF Offset
  <2>. QED BY <1>a, <2>1, <2>2, WalkTypes, Parameters DEF Offset
<1>5. PagesTypeOK'
  BY <1>a DEF WalkInv, PagesTypeOK
<1>6. gone + come = 0 => Undisturbed'
  BY <1>a, <1>1, <1>2 DEF WalkInv, Undisturbed
<1>. QED BY <1>a, <1>1, <1>3, <1>4, <1>5, <1>6
         DEF WalkInv, Ordered, Finished, CountsFirst

LEMMA CountKeeps == WalkInv /\ Count => WalkInv'
<1> SUFFICES ASSUME WalkInv, Count PROVE WalkInv'
  OBVIOUS
<1>a. /\ step = "count" /\ total' = Cardinality(listed)
      /\ IF CountsFirst THEN step' = "rows" /\ page' = page ELSE step' = "read" /\ page' = page + 1
      /\ UNCHANGED <<listing, key, listed, seen, stayed, gone, come, late>>
  BY DEF Count
<1>b. page \in Nat /\ page <= Cardinality(Entries) /\ Cardinality(Entries) \in Nat
         /\ Cardinality(listed) \in 0..Cardinality(Entries) /\ late \in Nat
  BY <1>a, WalkTypes, Listed, Parameters DEF WalkInv
<1>1. PagesRead' = PagesRead /\ RowsRead' = RowsRead /\ CountsFirst' = CountsFirst
  BY <1>a, <1>b DEF PagesRead, RowsRead, CountsFirst
<1>2. \A e : /\ Rank(e)' = Rank(e) /\ Placed(e)' = Placed(e)
  BY <1>a DEF Rank, Ahead, Placed, Before, NewestFirst, BySortOrder, NewestOnly, ByName
<1>3. Passed' = Passed /\ Doubled' = Doubled
  BY <1>a, <1>1, <1>2 DEF Passed, Doubled
<1>4. PagesTypeOK'
  BY <1>a, <1>b DEF WalkInv, PagesTypeOK
<1>5. gone + come = 0 => Undisturbed'
  BY <1>a, <1>1, <1>2 DEF WalkInv, Undisturbed
<1>6. Ordered => CountsFirst /\ step' = "rows"
  BY <1>a DEF Ordered, CountsFirst
<1>. QED BY <1>a, <1>b, <1>1, <1>3, <1>4, <1>5, <1>6
         DEF WalkInv, Ordered, Finished, CountsFirst

\* A slice has the entries whose place is on the page.
LEMMA SliceByRank ==
    ASSUME listed \subseteq Entries, key \in [Entries -> SortKeys], page \in Nat,
           NEW s \in Arrangements, NEW e \in listed, Placed(e)
    PROVE  e \in Slice(s, page) <=> Offset(page) <= Rank(e) /\ Rank(e) < Offset(page) + PageSize
<1>1. /\ Rank(e) + 1 \in DOMAIN s /\ s[Rank(e) + 1] = e
      /\ \A i \in DOMAIN s : s[i] = e => i = Rank(e) + 1
  BY ArrangedAtRank
<1>2. Rank(e) \in Nat /\ Offset(page) \in Int /\ PageSize \in Nat
  BY Listed, Parameters DEF Offset
<1>. QED BY <1>1, <1>2 DEF Slice

LEMMA RowsKeeps == WalkInv /\ Rows => WalkInv'
<1> SUFFICES ASSUME WalkInv, Rows PROVE WalkInv'
  OBVIOUS
<1>a. /\ step = "rows"
      /\ IF CountsFirst THEN step' = "read" /\ page' = page + 1 ELSE step' = "count" /\ page' = page
      /\ UNCHANGED <<listing, key, listed, total, stayed, gone, come, late>>
  BY DEF Rows
<1>b. PICK s \in Arrangements :
          seen' = [e \in Entries |-> IF e \in Slice(s, page) THEN seen[e] + 1 ELSE seen[e]]
  BY DEF Rows
<1>c. /\ page \in Nat /\ page >= 1 /\ page <= Cardinality(Entries) /\ Cardinality(Entries) \in Nat
      /\ seen \in [Entries -> Nat] /\ PageSize \in Nat /\ PageSize > 0
      /\ listed \subseteq Entries /\ stayed \subseteq listed /\ key \in [Entries -> SortKeys]
  BY <1>a, WalkTypes, Parameters DEF WalkInv
<1>1. /\ PagesRead = page - 1 /\ PagesRead' = page /\ RowsRead = Offset(page)
      /\ RowsRead' = RowsRead + PageSize /\ RowsRead \in Nat /\ CountsFirst' = CountsFirst
  BY <1>a, <1>c, WalkTypes DEF PagesRead, RowsRead, CountsFirst, Offset
<1>2. \A e : /\ Rank(e)' = Rank(e) /\ Placed(e)' = Placed(e)
  BY <1>a DEF Rank, Ahead, Placed, Before, NewestFirst, BySortOrder, NewestOnly, ByName
<1>3. \A e \in listed : Placed(e) =>
         /\ Rank(e) \in Nat
         /\ seen'[e] = IF RowsRead <= Rank(e) /\ Rank(e) < RowsRead + PageSize
                       THEN seen[e] + 1 ELSE seen[e]
  BY <1>b, <1>c, <1>1, SliceByRank, Listed
<1>4. \A e \in Entries : seen'[e] \in {seen[e], seen[e] + 1} /\ seen[e] <= page - 1
  BY <1>b, <1>1 DEF WalkInv
<1>5. PagesTypeOK'
  <2>1. seen' \in [Entries -> 0..page]
    BY <1>b, <1>c, <1>4
  <2>2. page' \in 1..Cardinality(Entries) + 1 /\ page <= page'
    BY <1>a, <1>c
  <2>3. seen' \in [Entries -> 0..page']
    BY <1>c, <2>1, <2>2
  <2>. QED BY <1>a, <2>2, <2>3 DEF WalkInv, PagesTypeOK
<1>6. Ordered => Cardinality(Passed') <= gone /\ Cardinality(Doubled') <= come
  <2>1. ASSUME Ordered
        PROVE  Passed' \subseteq Passed /\ Doubled' \subseteq Doubled
    <3>1. \A e \in stayed : /\ Rank(e) \in Nat /\ seen[e] \in Nat
                            /\ seen'[e] = IF RowsRead <= Rank(e) /\ Rank(e) < RowsRead + PageSize
                                          THEN seen[e] + 1 ELSE seen[e]
      BY <1>c, <1>3, <2>1, OrderedIsTotal
    <3>2. Passed' \subseteq Passed
      BY <1>a, <1>1, <1>2, <1>c, <3>1 DEF Passed
    <3>3. Doubled' \subseteq Doubled
      BY <1>a, <1>1, <1>2, <1>c, <3>1 DEF Doubled
    <3>. QED BY <3>2, <3>3
  <2>2. ASSUME Ordered
        PROVE  Cardinality(Passed') <= gone /\ Cardinality(Doubled') <= come
    <3>1. /\ Cardinality(Passed') <= Cardinality(Passed)
          /\ Cardinality(Passed') \in Nat /\ Cardinality(Passed) \in Nat
      BY <2>1, <2>2, WalkTypes, SubsetIsSmaller
    <3>2. /\ Cardinality(Doubled') <= Cardinality(Doubled)
          /\ Cardinality(Doubled') \in Nat /\ Cardinality(Doubled) \in Nat
      BY <2>1, <2>2, WalkTypes, SubsetIsSmaller
    <3>. QED BY <2>2, <3>1, <3>2 DEF WalkInv
  <2>. QED BY <2>2
<1>7. gone + come = 0 => Undisturbed'
  <2>1. ASSUME gone + come = 0, NEW e \in listed, Placed(e)
        PROVE  seen'[e] = IF Rank(e) < RowsRead + PageSize THEN 1 ELSE 0
    <3>1. seen[e] = IF Rank(e) < RowsRead THEN 1 ELSE 0
      BY <2>1 DEF WalkInv, Undisturbed
    <3>. QED BY <1>1, <1>3, <1>c, <2>1, <3>1
  <2>2. gone + come = 0 /\ (page' > 1 \/ (step' = "rows" /\ CountsFirst')) =>
           total = Cardinality(listed)
    BY <1>a DEF WalkInv, Undisturbed
  <2>. QED BY <1>a, <1>1, <1>2, <2>1, <2>2 DEF Undisturbed
<1>8. Ordered => Cardinality(listed) <= total + late
  BY <1>a DEF WalkInv
<1>9. \A e \in Entries : seen'[e] <= PagesRead'
  BY <1>c, <1>1, <1>4
<1>10. step' # "read" => page' <= Cardinality(Entries)
  BY <1>a, <1>c
<1>11. Ordered' = Ordered
  BY <1>a DEF Ordered
<1>. QED BY <1>a, <1>5, <1>6, <1>7, <1>8, <1>9, <1>10, <1>11 DEF WalkInv

LEMMA WalkAgain == WalkInv /\ Again => WalkInv'
<1> SUFFICES ASSUME WalkInv, Again PROVE WalkInv'
  OBVIOUS
<1>a. /\ step = "read" /\ step' = step /\ page' = 1 /\ total' = 0 /\ stayed' = listed
      /\ seen' = [e \in Entries |-> 0] /\ gone' = 0 /\ come' = 0 /\ late' = 0
      /\ UNCHANGED <<listing, key, listed>>
  BY DEF Again, Finished
<1>1. PagesTypeOK'
  BY <1>a, Parameters DEF WalkInv, PagesTypeOK
<1>2. PagesRead' = 0 /\ RowsRead' = 0
  BY <1>a, Parameters DEF PagesRead, RowsRead
<1>3. \A e : Rank(e)' = Rank(e)
  BY <1>a DEF Rank, Ahead, Before, NewestFirst, BySortOrder, NewestOnly, ByName
<1>4. \A e \in listed : seen'[e] = 0 /\ ~(Rank(e)' < RowsRead')
  BY <1>a, <1>2, <1>3, Listed, WalkTypes
<1>5. Passed' = {} /\ Doubled' = {}
  BY <1>a, <1>4 DEF Passed, Doubled
<1>6. Undisturbed'
  BY <1>a, <1>4 DEF Undisturbed
<1>. QED BY <1>a, <1>1, <1>2, <1>5, <1>6, FS_EmptySet DEF WalkInv, Finished

-----------------------------------------------------------------------------
(* The editors.                                                            *)

(* What a change of the entry x does: another entry that stayed has the    *)
(* same entries ahead of it, but for x.  If none is taken from ahead of    *)
(* it, the walk passes none; if none is put there, it repeats none.        *)
Changes(x) ==
    /\ UNCHANGED <<listing, page, step, total, seen>> /\ ~Finished
    /\ key' \in [Entries -> SortKeys] /\ listed' \subseteq Entries
    /\ stayed' \subseteq stayed /\ stayed' \subseteq listed'
    /\ gone' \in Nat /\ come' \in Nat /\ gone' + come' \in 1..MaxChanges + 1
    /\ late' \in late..come'
    /\ \A e \in stayed' : Ahead(e)' \ {x} = Ahead(e) \ {x}
    /\ \/ gone' = gone + 1
       \/ gone' = gone /\ \A e \in stayed' : Ahead(e) \subseteq Ahead(e)'
    /\ \/ come' = come + 1
       \/ come' = come /\ \A e \in stayed' : Ahead(e)' \subseteq Ahead(e)
    /\ step = "rows" => Cardinality(listed') <= Cardinality(listed) + (late' - late)

LEMMA PassedByChange ==
    ASSUME WalkInv, Ordered, NEW x, Changes(x)
    PROVE  Cardinality(Passed') <= gone'
<1>a. /\ listed \subseteq Entries /\ listed' \subseteq Entries /\ RowsRead \in Nat
      /\ stayed \subseteq listed /\ stayed' \subseteq stayed
      /\ gone \in Nat /\ Cardinality(Passed) <= gone /\ IsFiniteSet(Passed)
      /\ key \in [Entries -> SortKeys] /\ seen' = seen
  BY WalkTypes DEF Changes, WalkInv
<1>b. RowsRead' = RowsRead
  BY DEF Changes, RowsRead, PagesRead, CountsFirst
<1>c. \A e : /\ IsFiniteSet(Ahead(e)) /\ IsFiniteSet(Ahead(e)')
             /\ Rank(e) \in Nat /\ Rank(e)' \in Nat
  <2>1. \A e : IsFiniteSet(Ahead(e)) /\ Rank(e) \in Nat
    BY <1>a, Listed
  <2>2. IsFiniteSet(listed')
    BY <1>a, Parameters, FS_Subset
  <2>3. \A e : Ahead(e)' \subseteq listed'
    BY DEF Ahead
  <2>4. \A e : IsFiniteSet(Ahead(e)') /\ Cardinality(Ahead(e)') \in Nat
    BY <2>2, <2>3, SubsetIsSmaller
  <2>. QED BY <2>1, <2>4 DEF Rank
<1>1. CASE gone' = gone + 1
  <2> DEFINE edge == {e \in listed : Rank(e) = RowsRead}
  <2>1. \A e \in stayed' : Rank(e) <= Rank(e)' + 1
    <3>1. ASSUME NEW e \in stayed'
          PROVE  Cardinality(Ahead(e)) <= Cardinality(Ahead(e)') + 1
      <4>1. Ahead(e) \ {x} = Ahead(e)' \ {x}
        BY DEF Changes
      <4>. QED BY <1>c, <4>1, OneApart
    <3>. QED BY <3>1 DEF Rank
  <2>2. \A a, b \in edge : a = b
    BY <1>a, RanksDiffer
  <2>3. Passed' \subseteq Passed \cup edge
    BY <1>a, <1>b, <1>c, <2>1 DEF Passed
  <2> HIDE DEF edge
  <2>4. IsFiniteSet(Passed') /\ Cardinality(Passed') <= Cardinality(Passed) + 1
    BY <1>a, <2>2, <2>3, AtMostOneMore
  <2>5. Cardinality(Passed') \in Nat /\ Cardinality(Passed) \in Nat
    BY <1>a, <2>4, FS_CardinalityType
  <2>. QED BY <1>1, <1>a, <2>4, <2>5
<1>2. CASE gone' = gone /\ \A e \in stayed' : Ahead(e) \subseteq Ahead(e)'
  <2>1. \A e \in stayed' : Rank(e) <= Rank(e)'
    BY <1>2, <1>c, SubsetIsSmaller DEF Rank
  <2>2. Passed' \subseteq Passed
    BY <1>a, <1>b, <1>c, <2>1 DEF Passed
  <2>3. /\ Cardinality(Passed') <= Cardinality(Passed)
        /\ Cardinality(Passed') \in Nat /\ Cardinality(Passed) \in Nat
    BY <1>a, <2>2, SubsetIsSmaller
  <2>. QED BY <1>2, <1>a, <2>3
<1>. QED BY <1>1, <1>2 DEF Changes

LEMMA DoubledByChange ==
    ASSUME WalkInv, Ordered, NEW x, Changes(x)
    PROVE  Cardinality(Doubled') <= come'
<1>a. /\ listed \subseteq Entries /\ listed' \subseteq Entries /\ RowsRead \in Nat
      /\ stayed \subseteq listed /\ stayed' \subseteq stayed
      /\ come \in Nat /\ Cardinality(Doubled) <= come /\ IsFiniteSet(Doubled)
      /\ key \in [Entries -> SortKeys] /\ seen' = seen
  BY WalkTypes DEF Changes, WalkInv
<1>b. RowsRead' = RowsRead
  BY DEF Changes, RowsRead, PagesRead, CountsFirst
<1>c. \A e : /\ IsFiniteSet(Ahead(e)) /\ IsFiniteSet(Ahead(e)')
             /\ Rank(e) \in Nat /\ Rank(e)' \in Nat
  <2>1. \A e : IsFiniteSet(Ahead(e)) /\ Rank(e) \in Nat
    BY <1>a, Listed
  <2>2. IsFiniteSet(listed')
    BY <1>a, Parameters, FS_Subset
  <2>3. \A e : Ahead(e)' \subseteq listed'
    BY DEF Ahead
  <2>4. \A e : IsFiniteSet(Ahead(e)') /\ Cardinality(Ahead(e)') \in Nat
    BY <2>2, <2>3, SubsetIsSmaller
  <2>. QED BY <2>1, <2>4 DEF Rank
<1>1. CASE come' = come + 1
  <2> DEFINE edge == {e \in listed : Rank(e) + 1 = RowsRead}
  <2>1. \A e \in stayed' : Rank(e)' <= Rank(e) + 1
    <3>1. ASSUME NEW e \in stayed'
          PROVE  Cardinality(Ahead(e)') <= Cardinality(Ahead(e)) + 1
      <4>1. Ahead(e)' \ {x} = Ahead(e) \ {x}
        BY DEF Changes
      <4>. QED BY <1>c, <4>1, OneApart
    <3>. QED BY <3>1 DEF Rank
  <2>2. \A a, b \in edge : a = b
    <3>1. \A a, b \in edge : Rank(a) = Rank(b)
      BY <1>c
    <3>. QED BY <1>a, <3>1, RanksDiffer
  <2>3. Doubled' \subseteq Doubled \cup edge
    BY <1>a, <1>b, <1>c, <2>1 DEF Doubled
  <2> HIDE DEF edge
  <2>4. IsFiniteSet(Doubled') /\ Cardinality(Doubled') <= Cardinality(Doubled) + 1
    BY <1>a, <2>2, <2>3, AtMostOneMore
  <2>5. Cardinality(Doubled') \in Nat /\ Cardinality(Doubled) \in Nat
    BY <1>a, <2>4, FS_CardinalityType
  <2>. QED BY <1>1, <1>a, <2>4, <2>5
<1>2. CASE come' = come /\ \A e \in stayed' : Ahead(e)' \subseteq Ahead(e)
  <2>1. \A e \in stayed' : Rank(e)' <= Rank(e)
    BY <1>2, <1>c, SubsetIsSmaller DEF Rank
  <2>2. Doubled' \subseteq Doubled
    BY <1>a, <1>b, <1>c, <2>1 DEF Doubled
  <2>3. /\ Cardinality(Doubled') <= Cardinality(Doubled)
        /\ Cardinality(Doubled') \in Nat /\ Cardinality(Doubled) \in Nat
    BY <1>a, <2>2, SubsetIsSmaller
  <2>. QED BY <1>2, <1>a, <2>3
<1>. QED BY <1>1, <1>2 DEF Changes

LEMMA Between ==
    ASSUME NEW a \in Nat, NEW b \in Nat, NEW c, NEW m \in Nat, NEW d \in Nat,
           c \in d..b, a + b \in 1..m + 1
    PROVE  c \in 0..b /\ a + b \in 0..m + 1 /\ a + b # 0
OBVIOUS

LEMMA ChangesKeep ==
    ASSUME WalkInv, NEW x, Changes(x)
    PROVE  WalkInv'
<1>a. late \in Nat /\ MaxChanges \in Nat /\ PagesTypeOK
  BY WalkTypes, Parameters DEF WalkInv
<1>b. /\ gone' \in Nat /\ come' \in Nat /\ late' \in late..come'
      /\ gone' + come' \in 1..MaxChanges + 1
  BY DEF Changes
<1>1. PagesTypeOK'
  <2>1. late' \in 0..come' /\ gone' + come' \in 0..MaxChanges + 1
    BY <1>a, <1>b, Between
  <2>2. /\ listing' \in Listings /\ key' \in [Entries -> SortKeys]
        /\ stayed' \subseteq listed' /\ listed' \subseteq Entries
        /\ step' \in {"read", "count", "rows"}
    BY <1>a DEF Changes, PagesTypeOK
  <2>3. /\ page' \in 1..Cardinality(Entries) + 1 /\ total' \in 0..Cardinality(Entries)
        /\ seen' \in [Entries -> 0..page']
    BY <1>a DEF Changes, PagesTypeOK
  <2>. QED BY <2>1, <2>2, <2>3 DEF PagesTypeOK
<1>2. Ordered' => Cardinality(Passed') <= gone' /\ Cardinality(Doubled') <= come'
  <2>1. Ordered' = Ordered
    BY DEF Changes, Ordered
  <2>. QED BY <2>1, PassedByChange, DoubledByChange
<1>3. PagesRead' = PagesRead /\ Finished' = Finished /\ ~Finished /\ Ordered' = Ordered
  BY DEF Changes, PagesRead, CountsFirst, Finished, Offset, Ordered
<1>4. Ordered' /\ (step' = "rows" \/ Finished') => Cardinality(listed') <= total' + late'
  <2>1. ASSUME Ordered, step = "rows"
        PROVE  Cardinality(listed') <= total + late'
    <3>1. Cardinality(listed) <= total + late /\ Cardinality(listed) \in Nat /\ total \in Nat
             /\ late \in Nat
      BY <2>1, WalkTypes DEF WalkInv
    <3>2. Cardinality(listed') \in Nat
      BY Parameters, SubsetIsSmaller DEF Changes
    <3>3. late' \in Int
      BY <3>1 DEF Changes
    <3>. QED BY <2>1, <3>1, <3>2, <3>3 DEF Changes
  <2>. QED BY <1>3, <2>1 DEF Changes
<1>5. gone' + come' # 0 /\ gone' \in Nat /\ come' \in Nat
  BY <1>a, <1>b, Between
<1>. QED BY <1>1, <1>2, <1>3, <1>4, <1>5 DEF WalkInv, Changes

LEMMA EditorsChange ==
    ASSUME WalkInv, NEW x \in Entries,
           Show(x) \/ Hide(x) \/ \E k \in SortKeys : Reorder(x, k)
    PROVE  Changes(x)
<1>a. /\ listed \subseteq Entries /\ stayed \subseteq listed /\ key \in [Entries -> SortKeys]
      /\ gone \in Nat /\ come \in Nat /\ late \in 0..come /\ IsFiniteSet(listed)
      /\ Cardinality(listed) \in Nat /\ MaxChanges \in Nat
  BY WalkTypes, Listed, Parameters DEF WalkInv, PagesTypeOK
<1>1. CASE Show(x)
  <2>1. /\ ~Finished /\ gone + come < MaxChanges /\ x \notin listed
        /\ listed' = listed \cup {x} /\ come' = come + 1
        /\ late' = IF step \in {"rows", "count"} THEN late + 1 ELSE late
        /\ UNCHANGED <<listing, key, page, step, total, seen, stayed, gone>>
    BY <1>1 DEF Show, InTime
  <2>2. \A e : Ahead(e)' \ {x} = Ahead(e) \ {x} /\ Ahead(e) \subseteq Ahead(e)'
    BY <2>1 DEF Ahead, Before, NewestFirst, BySortOrder, NewestOnly, ByName
  <2>3. step = "rows" => Cardinality(listed') <= Cardinality(listed) + (late' - late)
    <3>1. Cardinality(listed \cup {x}) = Cardinality(listed) + 1
      BY <1>a, <2>1, FS_AddElement
    <3>. QED BY <1>a, <2>1, <3>1
  <2>. QED BY <1>a, <2>1, <2>2, <2>3 DEF Changes
<1>2. CASE Hide(x)
  <2>1. /\ ~Finished /\ gone + come < MaxChanges /\ x \in listed
        /\ listed' = listed \ {x} /\ stayed' = stayed \ {x} /\ gone' = gone + 1
        /\ UNCHANGED <<listing, key, page, step, total, seen, come, late>>
    BY <1>2 DEF Hide, InTime
  <2>2. \A e : Ahead(e)' \ {x} = Ahead(e) \ {x} /\ Ahead(e)' \subseteq Ahead(e)
    BY <2>1 DEF Ahead, Before, NewestFirst, BySortOrder, NewestOnly, ByName
  <2>3. Cardinality(listed') <= Cardinality(listed)
    BY <1>a, <2>1, SubsetIsSmaller
  <2>. QED BY <1>a, <2>1, <2>2, <2>3 DEF Changes
<1>3. ASSUME NEW k \in SortKeys, Reorder(x, k)
      PROVE  Changes(x)
  <2>1. /\ ~Finished /\ gone + come < MaxChanges /\ x \in listed
        /\ key' = [key EXCEPT ![x] = k] /\ stayed' = stayed \ {x}
        /\ gone' = gone + 1 /\ come' = come + 1
        /\ late' = IF step \in {"rows", "count"} THEN late + 1 ELSE late
        /\ UNCHANGED <<listing, listed, page, step, total, seen>>
    BY <1>3 DEF Reorder, InTime
  <2>2. ASSUME NEW e \in stayed'
        PROVE  Ahead(e)' \ {x} = Ahead(e) \ {x}
    <3>1. e \in Entries /\ e # x /\ key'[e] = key[e] /\ \A y \in Entries \ {x} : key'[y] = key[y]
      BY <1>a, <2>1
    <3>2. \A y \in listed \ {x} : Before(y, e)' <=> Before(y, e)
      BY <1>a, <2>1, <3>1 DEF Before, NewestFirst, BySortOrder, NewestOnly, ByName
    <3>. QED BY <2>1, <3>2 DEF Ahead
  <2>. QED BY <1>a, <2>1, <2>2 DEF Changes
<1>. QED BY <1>1, <1>2, <1>3

(* Every reachable state satisfies the inductive invariant.                *)
THEOREM WalkInvariance == PagesSpec => []WalkInv
<1>1. ASSUME WalkInv, [PagesNext]_pageVars
      PROVE  WalkInv'
  <2>1. CASE UNCHANGED pageVars
    <3>1. \A e : Rank(e)' = Rank(e) /\ Placed(e)' = Placed(e)
      BY <2>1
      DEF pageVars, Rank, Ahead, Placed, Before, NewestFirst, BySortOrder, NewestOnly, ByName
    <3>2. PagesRead' = PagesRead /\ RowsRead' = RowsRead /\ CountsFirst' = CountsFirst
             /\ Finished' = Finished /\ Ordered' = Ordered /\ PagesTypeOK' = PagesTypeOK
      BY <2>1 DEF pageVars, PagesRead, RowsRead, CountsFirst, Finished, Ordered, PagesTypeOK, Offset
    <3>3. Passed' = Passed /\ Doubled' = Doubled /\ Undisturbed' = Undisturbed
      BY <2>1, <3>1, <3>2 DEF pageVars, Passed, Doubled, Undisturbed
    <3>. QED BY <1>1, <2>1, <3>2, <3>3 DEF pageVars, WalkInv
  <2>. QED BY <1>1, <2>1, AskKeeps, CountKeeps, RowsKeeps, WalkAgain, EditorsChange, ChangesKeep
           DEF PagesNext
<1>. QED BY <1>1, WalkBegins, PTL DEF PagesSpec

-----------------------------------------------------------------------------
(* What a finished walk tells.                                             *)

\* An entry beyond the reported total was published after the count.
LEMMA BeyondTotal ==
    ASSUME WalkInv, Finished, Ordered
    PROVE  LET beyond == {e \in listed : Rank(e) >= total}
           IN  IsFiniteSet(beyond) /\ Cardinality(beyond) <= late
<1> DEFINE beyond == {e \in listed : Rank(e) >= total}
           places == total..(total + late - 1)
           place  == [e \in beyond |-> Rank(e)]
<1>a. /\ listed \subseteq Entries /\ key \in [Entries -> SortKeys] /\ total \in Nat /\ late \in Nat
      /\ Cardinality(listed) \in Nat /\ Cardinality(listed) <= total + late
  BY WalkTypes DEF WalkInv
<1>1. \A e \in beyond : Rank(e) \in places
  BY <1>a, Listed, RankIsBelow
<1>2. \A e, f \in beyond : Rank(e) = Rank(f) => e = f
  BY <1>a, RanksDiffer
<1>3. /\ place \in [beyond -> places]
      /\ \A e, f \in beyond : place[e] = place[f] => e = f
  BY <1>1, <1>2
<1>4. IsFiniteSet(total..(total + late - 1)) /\ Cardinality(total..(total + late - 1)) = late
  <2> DEFINE top == total + late - 1
  <2>1. /\ total \in Int /\ top \in Int
        /\ total > top => late = 0
        /\ top - total + 1 = late
    BY <1>a
  <2> HIDE DEF top
  <2>2. /\ IsFiniteSet(total..top)
        /\ Cardinality(total..top) = IF total > top THEN 0 ELSE top - total + 1
    BY <2>1, FS_Interval
  <2>3. IsFiniteSet(total..top) /\ Cardinality(total..top) = late
    BY <2>1, <2>2
  <2>. QED BY <2>3 DEF top
<1>5. IsFiniteSet(places) /\ Cardinality(places) = late
  BY <1>4
<1> HIDE DEF beyond, places, place
<1>6. place \in Injection(beyond, places)
  BY <1>3, Fun_IsInj
<1>7. IsFiniteSet(beyond) /\ Cardinality(beyond) <= late
  BY <1>5, <1>6, FS_Injection
<1>. QED BY <1>7 DEF beyond

LEMMA WalkPromises == WalkInv => WalksTell
<1> SUFFICES ASSUME WalkInv PROVE WalksTell
  OBVIOUS
<1>a. /\ listed \subseteq Entries /\ stayed \subseteq listed /\ key \in [Entries -> SortKeys]
      /\ page \in Nat /\ total \in Nat /\ late \in Nat /\ gone \in Nat /\ come \in Nat
      /\ seen \in [Entries -> Nat] /\ IsFiniteSet(Passed) /\ IsFiniteSet(Doubled)
      /\ \A e \in listed : Rank(e) \in Nat /\ Rank(e) < Cardinality(listed)
      /\ Cardinality(listed) \in Nat
  BY WalkTypes, Listed, RankIsBelow DEF WalkInv
<1>b. Finished => RowsRead = Offset(page) /\ RowsRead >= total /\ RowsRead \in Nat
  BY WalkTypes DEF Finished, RowsRead, PagesRead, Offset
<1>1. WalkTells
  <2> SUFFICES ASSUME Finished, Ordered
               PROVE  /\ Cardinality({e \in stayed : seen[e] = 0}) <= gone + late
                      /\ Cardinality({e \in stayed : seen[e] > 1}) <= come
    BY DEF WalkTells
  <2> DEFINE lost    == {e \in stayed : seen[e] = 0}
             twice   == {e \in stayed : seen[e] > 1}
             beyond  == {e \in listed : Rank(e) >= total}
  <2>1. Cardinality(Passed) <= gone /\ Cardinality(Doubled) <= come
    BY DEF WalkInv
  <2>2. IsFiniteSet(beyond) /\ Cardinality(beyond) <= late
    BY BeyondTotal
  <2>3. lost \subseteq Passed \cup beyond
    BY <1>a, <1>b DEF Passed
  <2>4. twice \subseteq Doubled
    BY DEF Doubled
  <2> HIDE DEF lost, twice, beyond
  <2>5. Cardinality(lost) <= gone + late
    <3>1. /\ IsFiniteSet(Passed \cup beyond) /\ IsFiniteSet(Passed \cap beyond)
          /\ Cardinality(Passed \cup beyond)
                = Cardinality(Passed) + Cardinality(beyond) - Cardinality(Passed \cap beyond)
      BY <1>a, <2>2, FS_Union, SubsetIsSmaller
    <3>2. Cardinality(lost) <= Cardinality(Passed \cup beyond)
             /\ Cardinality(lost) \in Nat /\ Cardinality(Passed \cup beyond) \in Nat
      BY <2>3, <3>1, SubsetIsSmaller
    <3>3. /\ Cardinality(Passed) \in Nat /\ Cardinality(beyond) \in Nat
          /\ Cardinality(Passed \cap beyond) \in Nat
      BY <1>a, <2>2, <3>1, FS_CardinalityType
    <3>. QED BY <1>a, <2>1, <2>2, <3>1, <3>2, <3>3
  <2>6. Cardinality(twice) <= come
    BY <1>a, <2>1, <2>4, SubsetIsSmaller
  <2>. QED BY <2>5, <2>6 DEF lost, twice
<1>2. OnlyTiesSlip
  <2> SUFFICES ASSUME Finished, listing \in {"registrations", "schools"}, gone + come = 0,
                      NEW e \in listed, \A other \in listed \ {e} : key[other] # key[e]
               PROVE  seen[e] = 1
    BY DEF OnlyTiesSlip
  <2>1. Placed(e)
    <3>1. \A x \in listed : key[x] \in Nat
      BY <1>a, Parameters
    <3>2. \A x \in listed \ {e} : key[x] < key[e] \/ key[e] < key[x]
      BY <3>1
    <3>. QED BY <3>1, <3>2 DEF Placed, Before, NewestOnly, ByName
  <2>2. total = Cardinality(listed) /\ seen[e] = IF Rank(e) < RowsRead THEN 1 ELSE 0
    BY <2>1 DEF WalkInv, Undisturbed, Finished
  <2>. QED BY <1>a, <1>b, <2>2
<1>. QED BY <1>1, <1>2 DEF WalksTell, WalkInv

(* However editors publish, withdraw and reorder entries during a walk, it *)
(* loses and repeats no more than its listing's order makes it.            *)
THEOREM WalksTellCorrect == PagesSpec => []WalksTell
  BY WalkInvariance, WalkPromises, PTL

-----------------------------------------------------------------------------
(* RichText.  The renderer's strings are joined and enclosed: first what   *)
(* that does to tags, images and texts, then the walk over the nodes, then *)
(* the actions.                                                            *)

\* What the renderer's strings are made of.
KindsOf(type) == {k \in Kinds : k.type = type}

\* All that a tag, an image or a text can name.
Words ==
    Elements \cup {"hr", "br"}
        \cup {k.attrs.text : k \in KindsOf("text")}
        \cup {k.attrs.media_id : k \in KindsOf("image")}
        \cup {k.attrs.caption : k \in KindsOf("image")}

\* What the strings of _render_node are sequences of.
Pairs == {"open", "close", "void", "img", "text"} \X Words

(* The tags of a prefix can be counted.                                    *)
LEMMA TagsFinite ==
    ASSUME NEW s, NEW k \in Int, NEW what
    PROVE  IsFiniteSet(Tagged(s, k, what)) /\ Tags(s, k, what) \in Nat
<1>1. IsFiniteSet(1..k)
  BY FS_Interval
<1>2. Tagged(s, k, what) \in SUBSET (1..k)
  BY DEF Tagged
<1>3. IsFiniteSet(Tagged(s, k, what))
  BY <1>1, <1>2, FS_Subset
<1>4. Cardinality(Tagged(s, k, what)) \in Nat
  BY <1>3, FS_CardinalityType
<1> QED
  BY <1>3, <1>4 DEF Tags

(* One string after another.                                               *)
LEMMA JoinedSeq ==
    ASSUME NEW S, NEW s \in Seq(S), NEW t \in Seq(S)
    PROVE  /\ s \o t \in Seq(S)
           /\ Len(s) \in Nat /\ Len(t) \in Nat /\ Len(s \o t) = Len(s) + Len(t)
           /\ \A j \in 1..Len(s) : (s \o t)[j] = s[j]
           /\ \A j \in 1..Len(t) : (s \o t)[Len(s) + j] = t[j]
<1>1. s \o t \in Seq(S)
  OBVIOUS
<1>2. Len(s) \in Nat /\ Len(t) \in Nat
  OBVIOUS
<1>3. Len(s \o t) = Len(s) + Len(t)
  OBVIOUS
<1>4. \A j \in 1..Len(s) : (s \o t)[j] = s[j]
  OBVIOUS
<1>5. \A j \in 1..Len(t) : (s \o t)[Len(s) + j] = t[j]
  OBVIOUS
<1> QED
  BY <1>1, <1>2, <1>3, <1>4, <1>5

(* Tags are counted piece by piece.                                        *)
LEMMA TagsOfJoined ==
    ASSUME NEW s \in Seq(Pairs), NEW t \in Seq(Pairs), NEW what
    PROVE  /\ \A k \in 0..Len(s) : Tags(s \o t, k, what) = Tags(s, k, what)
           /\ \A k \in 0..Len(t) :
                 Tags(s \o t, Len(s) + k, what) = Tags(s, Len(s), what) + Tags(t, k, what)
<1>0. /\ Len(s) \in Nat /\ Len(t) \in Nat
      /\ \A j \in 1..Len(s) : (s \o t)[j] = s[j]
      /\ \A j \in 1..Len(t) : (s \o t)[Len(s) + j] = t[j]
  OBVIOUS
<1>1. ASSUME NEW k \in 0..Len(s)
      PROVE  Tags(s \o t, k, what) = Tags(s, k, what)
  <2>1. \A j \in 1..k : (s \o t)[j][1] = s[j][1]
    BY <1>0
  <2>2. Tagged(s \o t, k, what) = Tagged(s, k, what)
    BY <2>1 DEF Tagged
  <2> QED
    BY <2>2 DEF Tags
<1>2. ASSUME NEW k \in 0..Len(t)
      PROVE  Tags(s \o t, Len(s) + k, what) = Tags(s, Len(s), what) + Tags(t, k, what)
  <2> DEFINE front == Tagged(s, Len(s), what)
             back == Tagged(t, k, what)
             shifted == {j \in (Len(s) + 1)..(Len(s) + k) : (s \o t)[j][1] = what}
             move == [j \in back |-> Len(s) + j]
  <2>1. Tagged(s \o t, Len(s) + k, what) = front \cup shifted
    <3>1. \A j \in 1..Len(s) : (s \o t)[j][1] = s[j][1]
      BY <1>0
    <3>2. 1..(Len(s) + k) = 1..Len(s) \cup (Len(s) + 1)..(Len(s) + k)
      BY <1>0
    <3> QED
      BY <3>1, <3>2 DEF Tagged
  <2>2. move \in Bijection(back, shifted)
    <3> USE DEF Tagged
    <3>1. \A j \in 1..k : (s \o t)[Len(s) + j][1] = t[j][1]
      BY <1>0
    <3>2. \A j \in back : Len(s) + j \in shifted
      BY <3>1, <1>0
    <3>3. ASSUME NEW i \in shifted PROVE i - Len(s) \in back /\ i = Len(s) + (i - Len(s))
      <4>1. i - Len(s) \in 1..k /\ i = Len(s) + (i - Len(s))
        BY <1>0
      <4> QED
        BY <4>1, <3>1
    <3>4. \A j \in back : move[j] = Len(s) + j
      OBVIOUS
    <3>5. move \in [back -> shifted]
      BY <3>2
    <3>6. \A i, j \in back : move[i] = move[j] => i = j
      BY <3>4, <1>0
    <3>7. \A i \in shifted : \E j \in back : move[j] = i
      BY <3>3, <3>4
    <3> HIDE DEF move, back, shifted
    <3> QED
      BY <3>5, <3>6, <3>7, Fun_IsBij
  <2>3. IsFiniteSet(front) /\ IsFiniteSet(back)
    <3>1. Len(s) \in Int /\ k \in Int
      BY <1>0
    <3> QED
      BY <3>1, TagsFinite
  <2>4. IsFiniteSet(shifted) /\ Cardinality(shifted) = Cardinality(back)
    <3> HIDE DEF move, back, shifted
    <3> QED
      BY <2>2, <2>3, FS_Bijection DEF ExistsBijection
  <2>5. front \cap shifted = {}
    BY <1>0 DEF Tagged
  <2>6. Cardinality(front) \in Nat /\ Cardinality(back) \in Nat
    BY <2>3, FS_CardinalityType
  <2>7. Cardinality(front \cup shifted) = Cardinality(front) + Cardinality(back)
    <3> HIDE DEF front, shifted, back
    <3>1. Cardinality(front \cup shifted)
             = Cardinality(front) + Cardinality(shifted) - Cardinality(front \cap shifted)
      BY <2>3, <2>4, FS_Union
    <3>2. Cardinality(front \cap shifted) = 0
      BY <2>5, FS_EmptySet
    <3> QED
      BY <3>1, <3>2, <2>4, <2>6
  <2> QED
    BY <2>1, <2>7 DEF Tags
<1> QED
  BY <1>1, <1>2

(* The elements open in a joined string: those of the first string, then   *)
(* those of the second on top.                                             *)
LEMMA HeightOfJoined ==
    ASSUME NEW s \in Seq(Pairs), NEW t \in Seq(Pairs)
    PROVE  /\ \A k \in 0..Len(s) : Height(s \o t, k) = Height(s, k) /\ Height(s, k) \in Int
           /\ \A k \in 0..Len(t) :
                 /\ Height(s \o t, Len(s) + k) = Height(s, Len(s)) + Height(t, k)
                 /\ Height(t, k) \in Int
<1>1. \A u : \A k \in Int : Tags(u, k, "open") \in Nat /\ Tags(u, k, "close") \in Nat
  BY TagsFinite
<1>2. Len(s) \in Nat /\ Len(t) \in Nat
  OBVIOUS
<1>3. ASSUME NEW k \in 0..Len(s)
      PROVE  Height(s \o t, k) = Height(s, k) /\ Height(s, k) \in Int
  <2>1. /\ Tags(s \o t, k, "open") = Tags(s, k, "open")
        /\ Tags(s \o t, k, "close") = Tags(s, k, "close")
    BY TagsOfJoined
  <2>2. Tags(s, k, "open") \in Nat /\ Tags(s, k, "close") \in Nat
    BY <1>1, <1>2
  <2> QED
    BY <2>1, <2>2 DEF Height
<1>4. ASSUME NEW k \in 0..Len(t)
      PROVE  /\ Height(s \o t, Len(s) + k) = Height(s, Len(s)) + Height(t, k)
             /\ Height(t, k) \in Int
  <2>1. /\ Tags(s \o t, Len(s) + k, "open") = Tags(s, Len(s), "open") + Tags(t, k, "open")
        /\ Tags(s \o t, Len(s) + k, "close") = Tags(s, Len(s), "close") + Tags(t, k, "close")
    BY TagsOfJoined
  <2>2. /\ Tags(t, k, "open") \in Nat /\ Tags(t, k, "close") \in Nat
        /\ Tags(s, Len(s), "open") \in Nat /\ Tags(s, Len(s), "close") \in Nat
    BY <1>1, <1>2
  <2> QED
    BY <2>1, <2>2 DEF Height
<1> QED
  BY <1>3, <1>4

(* Strings that nest nest when joined.                                     *)
LEMMA BalancedJoined ==
    ASSUME NEW s \in Seq(Pairs), NEW t \in Seq(Pairs), Balanced(s), Balanced(t)
    PROVE  Balanced(s \o t)
<1> DEFINE st == s \o t
           Partner(u, i, j) ==
              /\ u[i] = <<"open", u[j][2]>>
              /\ Height(u, i) = Height(u, j) + 1
              /\ \A k \in i..(j - 1) : Height(u, k) >= Height(u, i)
<1>0. /\ Len(s) \in Nat /\ Len(t) \in Nat /\ Len(st) = Len(s) + Len(t)
      /\ \A j \in 1..Len(s) : st[j] = s[j]
      /\ \A j \in 1..Len(t) : st[Len(s) + j] = t[j]
  BY JoinedSeq
<1>1. /\ \A k \in 0..Len(s) : Height(st, k) = Height(s, k) /\ Height(s, k) \in Int
      /\ \A k \in 0..Len(t) : Height(st, Len(s) + k) = Height(t, k) /\ Height(t, k) \in Int
  <2>1. Height(s, Len(s)) = 0
    BY DEF Balanced
  <2> QED
    BY <2>1, HeightOfJoined, <1>0
<1>2. Height(st, Len(st)) = 0
  <2>1. Height(t, Len(t)) = 0 /\ Len(t) \in 0..Len(t)
    BY <1>0 DEF Balanced
  <2> QED
    BY <2>1, <1>0, <1>1
<1>3. ASSUME NEW k \in 0..Len(st) PROVE Height(st, k) >= 0
  <2>1. CASE k <= Len(s)
    <3>1. Height(s, k) >= 0
      BY <2>1, <1>0 DEF Balanced
    <3> QED
      BY <3>1, <2>1, <1>0, <1>1
  <2>2. CASE k > Len(s)
    <3>1. k - Len(s) \in 0..Len(t) /\ k = Len(s) + (k - Len(s))
      BY <2>2, <1>0
    <3>2. Height(t, k - Len(s)) >= 0
      BY <3>1 DEF Balanced
    <3> QED
      BY <3>1, <3>2, <1>1
  <2> QED
    BY <2>1, <2>2, <1>0
<1>4. ASSUME NEW j \in 1..Len(st), st[j][1] = "close"
      PROVE  \E i \in 1..(j - 1) : Partner(st, i, j)
  <2>1. CASE j <= Len(s)
    <3>1. j \in 1..Len(s) /\ s[j][1] = "close"
      BY <2>1, <1>0, <1>4
    <3>2. PICK i \in 1..(j - 1) : Partner(s, i, j)
      BY <3>1 DEF Balanced
    <3>3. i \in 0..Len(s) /\ j \in 0..Len(s) /\ i \in 1..Len(s)
      BY <3>1, <1>0
    <3>4. \A k \in i..(j - 1) : k \in 0..Len(s)
      BY <3>1, <1>0
    <3>5. Partner(st, i, j)
      BY <3>1, <3>2, <3>3, <3>4, <1>0, <1>1
    <3> QED
      BY <3>5
  <2>2. CASE j > Len(s)
    <3> DEFINE m == j - Len(s)
    <3>1. m \in 1..Len(t) /\ j = Len(s) + m /\ t[m][1] = "close"
      <4>1. m \in 1..Len(t) /\ j = Len(s) + m
        BY <2>2, <1>0
      <4> QED
        BY <4>1, <1>0, <1>4
    <3>2. PICK i \in 1..(m - 1) : Partner(t, i, m)
      BY <3>1 DEF Balanced
    <3>3. /\ i \in 0..Len(t) /\ i \in 1..Len(t) /\ m \in 0..Len(t)
          /\ Len(s) + i \in 1..(j - 1)
      BY <3>1, <1>0
    <3>4. st[Len(s) + i] = <<"open", st[j][2]>>
      BY <3>1, <3>2, <3>3, <1>0
    <3>5. Height(st, Len(s) + i) = Height(t, i) /\ Height(st, j) = Height(t, m)
      BY <3>1, <3>3, <1>1
    <3>6. ASSUME NEW k \in (Len(s) + i)..(j - 1)
          PROVE  Height(st, k) >= Height(st, Len(s) + i)
      <4>1. /\ k - Len(s) \in i..(m - 1) /\ k - Len(s) \in 0..Len(t)
            /\ k = Len(s) + (k - Len(s))
        BY <3>1, <3>3, <1>0
      <4>2. Height(t, k - Len(s)) >= Height(t, i)
        BY <4>1, <3>2
      <4> QED
        BY <4>1, <4>2, <3>5, <1>1
    <3>7. Partner(st, Len(s) + i, j)
      BY <3>2, <3>4, <3>5, <3>6
    <3> QED
      BY <3>3, <3>7
  <2>3. j <= Len(s) \/ j > Len(s)
    BY <1>0
  <2> QED
    BY <2>1, <2>2, <2>3
<1> QED
  BY <1>2, <1>3, <1>4 DEF Balanced


(* A pair by itself.                                                       *)
LEMMA OnePair ==
    ASSUME NEW p \in Pairs
    PROVE  /\ << p >> \in Seq(Pairs)
           /\ Len(<< p >>) = 1
           /\ << p >>[1] = p
           /\ Height(<< p >>, 0) = 0
           /\ p[1] = "open" => Height(<< p >>, 1) = 1
           /\ p[1] = "close" => Height(<< p >>, 1) = -1
           /\ p[1] \notin {"open", "close"} => Height(<< p >>, 1) = 0
<1> DEFINE s == << p >>
<1>1. s \in Seq(Pairs)
  OBVIOUS
<1>2. Len(s) = 1 /\ s[1] = p
  OBVIOUS
<1> HIDE DEF s
<1>3. \A what : Tagged(s, 0, what) = {}
  BY DEF Tagged
<1>4. \A what : Tagged(s, 1, what) = IF p[1] = what THEN {1} ELSE {}
  BY <1>2 DEF Tagged
<1>5. Cardinality({}) = 0 /\ Cardinality({1}) = 1
  BY FS_EmptySet, FS_Singleton
<1>6. \A what : Tags(s, 0, what) = 0 /\ Tags(s, 1, what) = IF p[1] = what THEN 1 ELSE 0
  BY <1>3, <1>4, <1>5 DEF Tags
<1>7. /\ Height(s, 0) = 0
      /\ p[1] = "open" => Height(s, 1) = 1
      /\ p[1] = "close" => Height(s, 1) = -1
      /\ p[1] \notin {"open", "close"} => Height(s, 1) = 0
  BY <1>6 DEF Height
<1> QED
  BY <1>1, <1>2, <1>7 DEF s

(* A pair that is no tag nests.                                            *)
LEMMA BalancedOne ==
    ASSUME NEW p \in Pairs, p[1] \notin {"open", "close"}
    PROVE  Balanced(<< p >>)
<1> DEFINE s == << p >>
<1>1. Len(s) = 1 /\ s[1] = p
  OBVIOUS
<1>2. Height(s, 0) = 0 /\ Height(s, 1) = 0
  BY OnePair
<1>3. \A k \in 0..1 : k = 0 \/ k = 1
  OBVIOUS
<1>4. \A j \in 1..1 : j = 1
  OBVIOUS
<1> HIDE DEF s
<1>5. Height(s, Len(s)) = 0
  BY <1>1, <1>2
<1>6. \A k \in 0..Len(s) : Height(s, k) >= 0
  BY <1>1, <1>2, <1>3
<1>7. \A j \in 1..Len(s) : s[j][1] # "close"
  BY <1>1, <1>4
<1>8. Balanced(s)
  BY <1>5, <1>6, <1>7 DEF Balanced
<1> QED
  BY <1>8 DEF s

(* The empty string nests.                                                 *)
LEMMA BalancedEmpty == Balanced(<<>>)
<1> DEFINE s == <<>>
<1>1. Len(s) = 0
  OBVIOUS
<1>2. Tagged(s, 0, "open") = {} /\ Tagged(s, 0, "close") = {}
  BY DEF Tagged
<1>3. Tags(s, 0, "open") = 0 /\ Tags(s, 0, "close") = 0
  BY <1>2, FS_EmptySet DEF Tags
<1>4. Height(s, 0) = 0
  BY <1>3 DEF Height
<1>5. \A k \in 0..0 : k = 0
  OBVIOUS
<1>6. \A j : j \notin 1..0
  OBVIOUS
<1> HIDE DEF s
<1>7. Balanced(s)
  BY <1>1, <1>4, <1>5, <1>6 DEF Balanced
<1> QED
  BY <1>7 DEF s

(* An element around what nests nests.                                     *)
LEMMA BalancedEnclosed ==
    ASSUME NEW s \in Seq(Pairs), NEW tag \in Words, Balanced(s)
    PROVE  Enclosed(tag, s) \in Seq(Pairs) /\ Balanced(Enclosed(tag, s))
<1> DEFINE a == << <<"open", tag>> >>
           c == << <<"close", tag>> >>
           v == a \o s
           u == v \o c
           Partner(t, i, j) ==
              /\ t[i] = <<"open", t[j][2]>>
              /\ Height(t, i) = Height(t, j) + 1
              /\ \A k \in i..(j - 1) : Height(t, k) >= Height(t, i)
<1>0. <<"open", tag>> \in Pairs /\ <<"close", tag>> \in Pairs
  BY DEF Pairs
<1>1. /\ a \in Seq(Pairs) /\ Len(a) = 1 /\ Height(a, 0) = 0 /\ Height(a, 1) = 1
      /\ c \in Seq(Pairs) /\ Len(c) = 1 /\ Height(c, 0) = 0 /\ Height(c, 1) = -1
  BY <1>0, OnePair
<1>2. a[1] = <<"open", tag>> /\ c[1] = <<"close", tag>>
  BY <1>0, OnePair
<1> HIDE DEF a, c
<1>3. v \in Seq(Pairs) /\ Len(v) = 1 + Len(s) /\ Len(s) \in Nat
  BY <1>1, JoinedSeq
<1>4. v[1] = a[1] /\ \A j \in 1..Len(s) : v[1 + j] = s[j]
  <2>1. \A j \in 1..Len(a) : v[j] = a[j]
    BY <1>1, JoinedSeq
  <2>2. \A j \in 1..Len(s) : v[Len(a) + j] = s[j]
    BY <1>1, JoinedSeq
  <2> QED
    BY <2>1, <2>2, <1>1
<1>5. /\ Height(v, 0) = 0
      /\ \A k \in 0..Len(s) : Height(v, 1 + k) = Height(s, k) + 1 /\ Height(s, k) \in Int
  <2>1. 0 \in 0..Len(a) /\ 1 = Len(a)
    BY <1>1
  <2>2. Height(v, 0) = Height(a, 0)
    BY <2>1, <1>1, HeightOfJoined
  <2>3. \A k \in 0..Len(s) : Height(v, Len(a) + k) = Height(a, Len(a)) + Height(s, k)
    BY <1>1, HeightOfJoined
  <2>4. \A k \in 0..Len(s) : Height(s, k) \in Int
    BY HeightOfJoined
  <2> QED
    BY <2>2, <2>3, <2>4, <1>1
<1> HIDE DEF v
<1>6. u \in Seq(Pairs) /\ Len(u) = Len(v) + 1
  <2>1. v \in Seq(Pairs) /\ c \in Seq(Pairs) /\ Len(c) = 1
    BY <1>1, <1>3
  <2>2. u \in Seq(Pairs) /\ Len(u) = Len(v) + Len(c)
    BY <2>1, JoinedSeq
  <2> QED
    BY <2>1, <2>2
<1>7. u[Len(v) + 1] = c[1] /\ \A j \in 1..Len(v) : u[j] = v[j]
  <2>0. v \in Seq(Pairs) /\ c \in Seq(Pairs)
    BY <1>1, <1>3
  <2>1. \A j \in 1..Len(v) : u[j] = v[j]
    BY <2>0, JoinedSeq
  <2>2. \A j \in 1..Len(c) : u[Len(v) + j] = c[j]
    BY <2>0, JoinedSeq
  <2> QED
    BY <2>1, <2>2, <1>1
<1>8. /\ \A k \in 0..(Len(s) + 1) : Height(u, k) = Height(v, k)
      /\ Height(u, Len(s) + 2) = Height(v, Len(s) + 1) - 1
  <2>1. \A k \in 0..Len(v) : Height(u, k) = Height(v, k)
    BY <1>1, <1>3, HeightOfJoined
  <2>2. 1 \in 0..Len(c)
    BY <1>1
  <2>3. Height(u, Len(v) + 1) = Height(v, Len(v)) + Height(c, 1)
    BY <1>1, <1>3, <2>2, HeightOfJoined
  <2>4. Height(v, Len(s) + 1) \in Int
    BY <1>3, <1>5
  <2> QED
    BY <2>1, <2>3, <2>4, <1>1, <1>3
<1> HIDE DEF u
<1>9. /\ Height(u, 0) = 0
      /\ \A k \in 0..Len(s) : Height(u, 1 + k) = Height(s, k) + 1
      /\ Height(u, Len(s) + 2) = 0
  <2>1. Height(s, Len(s)) = 0
    BY DEF Balanced
  <2>2. Height(v, Len(s) + 1) = 1
    BY <1>3, <1>5, <2>1
  <2>3. \A k \in 0..Len(s) : 1 + k \in 0..(Len(s) + 1)
    BY <1>3
  <2> QED
    BY <1>3, <1>5, <1>8, <2>2, <2>3
<1>10. \A k \in 0..Len(s) : Height(s, k) >= 0
  BY DEF Balanced
<1>11. \A k \in 1..(Len(s) + 1) : Height(u, k) >= 1 /\ Height(u, k) \in Int
  <2>1. \A k \in 1..(Len(s) + 1) : k - 1 \in 0..Len(s) /\ k = 1 + (k - 1)
    BY <1>3
  <2>2. \A k \in 0..Len(s) : Height(u, 1 + k) >= 1 /\ Height(u, 1 + k) \in Int
    BY <1>5, <1>9, <1>10
  <2> QED
    BY <2>1, <2>2
<1>12. ASSUME NEW k \in 0..Len(u) PROVE Height(u, k) >= 0
  <2>1. k = 0 \/ k \in 1..(Len(s) + 1) \/ k = Len(s) + 2
    BY <1>3, <1>6
  <2> QED
    BY <2>1, <1>9, <1>11
<1>13. ASSUME NEW j \in 1..Len(u), u[j][1] = "close"
       PROVE  \E i \in 1..(j - 1) : Partner(u, i, j)
  <2>1. CASE j = 1
    <3>1. u[1] = <<"open", tag>>
      BY <1>2, <1>3, <1>4, <1>7
    <3> QED
      BY <2>1, <3>1, <1>13
  <2>2. CASE j \in 2..(Len(s) + 1)
    <3> DEFINE m == j - 1
    <3>1. m \in 1..Len(s) /\ j = 1 + m /\ j \in 1..(Len(s) + 1)
      BY <2>2, <1>3
    <3>2. u[j] = s[m] /\ s[m][1] = "close"
      <4> HIDE DEF m
      <4>1. u[j] = v[j] /\ v[j] = s[m]
        BY <3>1, <1>3, <1>4, <1>7
      <4> QED
        BY <4>1, <1>13
    <3>3. PICK i \in 1..(m - 1) : Partner(s, i, m)
      BY <3>1, <3>2 DEF Balanced
    <3>4. i \in 1..Len(s) /\ 1 + i \in 1..(Len(s) + 1) /\ 1 + i \in 1..(j - 1)
      BY <3>1, <1>3
    <3>5. u[1 + i] = s[i]
      BY <3>4, <1>3, <1>4, <1>7
    <3>6. Height(u, 1 + i) = Height(s, i) + 1 /\ Height(u, j) = Height(s, m) + 1
          /\ Height(s, i) \in Int /\ Height(s, m) \in Int
      BY <3>1, <3>4, <1>3, <1>5, <1>9
    <3>7. ASSUME NEW k \in (1 + i)..(j - 1) PROVE Height(u, k) >= Height(u, 1 + i)
      <4>1. k - 1 \in i..(m - 1) /\ k - 1 \in 0..Len(s) /\ k = 1 + (k - 1)
        BY <3>1, <3>4, <1>3
      <4>2. Height(u, k) = Height(s, k - 1) + 1 /\ Height(s, k - 1) \in Int
        BY <4>1, <1>5, <1>9
      <4>3. Height(s, k - 1) >= Height(s, i)
        BY <4>1, <3>3
      <4> QED
        BY <4>2, <4>3, <3>6
    <3>8. Partner(u, 1 + i, j)
      <4>1. u[1 + i] = <<"open", u[j][2]>>
        BY <3>2, <3>3, <3>5
      <4>2. Height(u, 1 + i) = Height(u, j) + 1
        BY <3>3, <3>6
      <4> QED
        BY <4>1, <4>2, <3>7
    <3> QED
      BY <3>4, <3>8
  <2>3. CASE j = Len(s) + 2
    <3>1. 1 \in 1..(j - 1) /\ 1 \in 1..(Len(s) + 1)
      BY <2>3, <1>3
    <3>2. u[1] = <<"open", tag>> /\ u[j] = <<"close", tag>>
      BY <3>1, <2>3, <1>2, <1>3, <1>4, <1>7
    <3>3. Height(u, 1) = 1
      <4>1. Height(s, 0) = 0
        <5>1. 0 \in 0..Len(s)
          BY <1>3
        <5>2. Height(s, 0) = Tags(s, 0, "open") - Tags(s, 0, "close")
          BY DEF Height
        <5>3. Tagged(s, 0, "open") = {} /\ Tagged(s, 0, "close") = {}
          BY DEF Tagged
        <5>4. Tags(s, 0, "open") = 0 /\ Tags(s, 0, "close") = 0
          BY <5>3, FS_EmptySet DEF Tags
        <5> QED
          BY <5>2, <5>4
      <4>2. 0 \in 0..Len(s) /\ 1 + 0 = 1
        BY <1>3
      <4>3. Height(u, 1 + 0) = Height(s, 0) + 1
        BY <4>2, <1>9
      <4> QED
        BY <4>1, <4>2, <4>3
    <3>4. Height(u, j) = 0
      BY <2>3, <1>9
    <3>5. \A k \in 1..(j - 1) : Height(u, k) >= Height(u, 1)
      BY <2>3, <3>3, <1>3, <1>11
    <3>6. Partner(u, 1, j)
      BY <3>2, <3>3, <3>4, <3>5
    <3> QED
      BY <3>1, <3>6
  <2>4. j = 1 \/ j \in 2..(Len(s) + 1) \/ j = Len(s) + 2
    BY <1>3, <1>6
  <2> QED
    BY <2>1, <2>2, <2>3, <2>4
<1>14. Height(u, Len(u)) = 0
  BY <1>3, <1>6, <1>9
<1>15. Balanced(u)
  BY <1>12, <1>13, <1>14 DEF Balanced
<1> QED
  BY <1>6, <1>15 DEF u, v, a, c, Enclosed

(* What a string contains.                                                 *)
In(p, s) == \E j \in 1..Len(s) : s[j] = p

(* Joining loses no pair and adds none.                                    *)
LEMMA InJoined ==
    ASSUME NEW s \in Seq(Pairs), NEW t \in Seq(Pairs), NEW p
    PROVE  In(p, s \o t) <=> In(p, s) \/ In(p, t)
<1> DEFINE st == s \o t
<1>1. /\ Len(s) \in Nat /\ Len(t) \in Nat /\ Len(st) = Len(s) + Len(t)
      /\ \A j \in 1..Len(s) : st[j] = s[j]
      /\ \A j \in 1..Len(t) : st[Len(s) + j] = t[j]
  BY JoinedSeq
<1> HIDE DEF st
<1>2. ASSUME In(p, s) PROVE In(p, st)
  <2>1. PICK j \in 1..Len(s) : s[j] = p
    BY <1>2 DEF In
  <2>2. j \in 1..Len(st) /\ st[j] = p
    BY <2>1, <1>1
  <2> QED
    BY <2>2 DEF In
<1>3. ASSUME In(p, t) PROVE In(p, st)
  <2>1. PICK j \in 1..Len(t) : t[j] = p
    BY <1>3 DEF In
  <2>2. Len(s) + j \in 1..Len(st) /\ st[Len(s) + j] = p
    BY <2>1, <1>1
  <2> QED
    BY <2>2 DEF In
<1>4. ASSUME In(p, st) PROVE In(p, s) \/ In(p, t)
  <2>1. PICK j \in 1..Len(st) : st[j] = p
    BY <1>4 DEF In
  <2>2. CASE j <= Len(s)
    <3>1. j \in 1..Len(s) /\ s[j] = p
      BY <2>1, <2>2, <1>1
    <3> QED
      BY <3>1 DEF In
  <2>3. CASE j > Len(s)
    <3>1. j - Len(s) \in 1..Len(t) /\ Len(s) + (j - Len(s)) = j
      BY <2>3, <1>1
    <3>2. t[j - Len(s)] = p
      BY <3>1, <2>1, <1>1
    <3> QED
      BY <3>1, <3>2 DEF In
  <2>4. j <= Len(s) \/ j > Len(s)
    BY <1>1
  <2> QED
    BY <2>2, <2>3, <2>4
<1> QED
  BY <1>2, <1>3, <1>4 DEF st

(* A string of one pair contains that pair.                                *)
LEMMA InOne ==
    ASSUME NEW q \in Pairs, NEW p
    PROVE  In(p, << q >>) <=> p = q
<1> DEFINE s == << q >>
<1>1. Len(s) = 1 /\ s[1] = q
  OBVIOUS
<1>2. \A j \in 1..1 : j = 1
  OBVIOUS
<1>3. 1 \in 1..1
  OBVIOUS
<1> HIDE DEF s
<1>4. In(p, s) <=> p = q
  BY <1>1, <1>2, <1>3 DEF In
<1> QED
  BY <1>4 DEF s

(* An element adds its two tags.                                           *)
LEMMA InEnclosed ==
    ASSUME NEW tag \in Words, NEW s \in Seq(Pairs), NEW p
    PROVE  In(p, Enclosed(tag, s)) <=> p = <<"open", tag>> \/ p = <<"close", tag>> \/ In(p, s)
<1> DEFINE a == << <<"open", tag>> >>
           c == << <<"close", tag>> >>
<1>1. <<"open", tag>> \in Pairs /\ <<"close", tag>> \in Pairs
  BY DEF Pairs
<1>2. a \in Seq(Pairs) /\ c \in Seq(Pairs)
  BY <1>1, OnePair
<1>3. (In(p, a) <=> p = <<"open", tag>>) /\ (In(p, c) <=> p = <<"close", tag>>)
  BY <1>1, InOne
<1> HIDE DEF a, c
<1>4. a \o s \in Seq(Pairs)
  BY <1>2, JoinedSeq
<1>5. In(p, a \o s) <=> In(p, a) \/ In(p, s)
  BY <1>2, InJoined
<1>6. In(p, (a \o s) \o c) <=> In(p, a \o s) \/ In(p, c)
  BY <1>2, <1>4, InJoined
<1>7. Enclosed(tag, s) = (a \o s) \o c
  BY DEF Enclosed, a, c
<1> QED
  BY <1>3, <1>5, <1>6, <1>7

(* The images of a string, and whether it shows something, depend on the   *)
(* pairs it contains.                                                      *)
LEMMA Contents ==
    ASSUME NEW s \in Seq(Pairs)
    PROVE  /\ ImagesOf(s) = {p[2] : p \in {q \in Pairs : q[1] = "img" /\ In(q, s)}}
           /\ Shows(s) <=> \E p \in Pairs :
                              /\ In(p, s)
                              /\ \/ p[1] = "img" \/ p = <<"void", "hr">>
                                 \/ p[1] = "text" /\ p[2] # "blank"
<1>1. \A j \in 1..Len(s) : s[j] \in Pairs
  OBVIOUS
<1>2. \A p \in Pairs : In(p, s) <=> \E j \in 1..Len(s) : s[j] = p
  BY DEF In
<1>3. ImagesOf(s) = {p[2] : p \in {q \in Pairs : q[1] = "img" /\ In(q, s)}}
  BY <1>1, <1>2 DEF ImagesOf
<1>4. Shows(s) <=> \E p \in Pairs :
                      /\ In(p, s)
                      /\ \/ p[1] = "img" \/ p = <<"void", "hr">>
                         \/ p[1] = "text" /\ p[2] # "blank"
  BY <1>1, <1>2 DEF Shows
<1> QED
  BY <1>3, <1>4

\* A string of the renderer: it nests, with elements that HTML has.
Made(s) ==
    /\ s \in Seq(Pairs)
    /\ Balanced(s)
    /\ \A p \in Pairs : In(p, s) /\ p[1] \in {"open", "close"} => p[2] \in Elements

(* What join does: both strings are kept, nothing else is shown.           *)
LEMMA MadeJoined ==
    ASSUME NEW s, NEW t, Made(s), Made(t)
    PROVE  /\ Made(s \o t)
           /\ ImagesOf(s \o t) = ImagesOf(s) \cup ImagesOf(t)
           /\ Shows(s \o t) <=> Shows(s) \/ Shows(t)
<1>1. s \in Seq(Pairs) /\ t \in Seq(Pairs) /\ s \o t \in Seq(Pairs)
  BY JoinedSeq DEF Made
<1>2. \A p : In(p, s \o t) <=> In(p, s) \/ In(p, t)
  BY <1>1, InJoined
<1>3. Balanced(s \o t)
  BY <1>1, BalancedJoined DEF Made
<1>4. Made(s \o t)
  BY <1>1, <1>2, <1>3 DEF Made
<1>5. ImagesOf(s \o t) = ImagesOf(s) \cup ImagesOf(t)
  BY <1>1, <1>2, Contents
<1>6. Shows(s \o t) <=> Shows(s) \/ Shows(t)
  <2>1. \A r \in {s, t, s \o t} :
           Shows(r) <=> \E p \in Pairs :
                           /\ In(p, r)
                           /\ \/ p[1] = "img" \/ p = <<"void", "hr">>
                              \/ p[1] = "text" /\ p[2] # "blank"
    BY <1>1, Contents
  <2> QED
    BY <2>1, <1>2
<1> QED
  BY <1>4, <1>5, <1>6

(* What an element of HTML adds: nothing a visitor sees.                   *)
LEMMA MadeEnclosed ==
    ASSUME NEW s, NEW tag \in Elements, Made(s)
    PROVE  /\ Made(Enclosed(tag, s))
           /\ ImagesOf(Enclosed(tag, s)) = ImagesOf(s)
           /\ Shows(Enclosed(tag, s)) <=> Shows(s)
<1> DEFINE e == Enclosed(tag, s)
<1>1. tag \in Words
  BY DEF Words
<1>2. s \in Seq(Pairs) /\ e \in Seq(Pairs) /\ Balanced(e)
  BY <1>1, BalancedEnclosed DEF Made
<1>3. \A p : In(p, e) <=> p = <<"open", tag>> \/ p = <<"close", tag>> \/ In(p, s)
  BY <1>1, <1>2, InEnclosed
<1> HIDE DEF e
<1>4. Made(e)
  BY <1>2, <1>3 DEF Made
<1>5. \A p : p[1] \notin {"open", "close"} => (In(p, e) <=> In(p, s))
  BY <1>3
<1>6. ImagesOf(e) = ImagesOf(s)
  BY <1>2, <1>5, Contents
<1>7. Shows(e) <=> Shows(s)
  <2>1. \A r \in {s, e} :
           Shows(r) <=> \E p \in Pairs :
                           /\ In(p, r)
                           /\ \/ p[1] = "img" \/ p = <<"void", "hr">>
                              \/ p[1] = "text" /\ p[2] # "blank"
    BY <1>2, Contents
  <2>2. <<"void", "hr">>[1] = "void"
    OBVIOUS
  <2> QED
    BY <2>1, <2>2, <1>5
<1> QED
  BY <1>4, <1>6, <1>7 DEF e

(* A rule, a break, an image or a text as a string.                        *)
LEMMA MadeOne ==
    ASSUME NEW p \in Pairs, p[1] \notin {"open", "close"}
    PROVE  /\ Made(<< p >>)
           /\ ImagesOf(<< p >>) = IF p[1] = "img" THEN {p[2]} ELSE {}
           /\ Shows(<< p >>) <=> \/ p[1] = "img" \/ p = <<"void", "hr">>
                                 \/ p[1] = "text" /\ p[2] # "blank"
<1> DEFINE s == << p >>
<1>1. s \in Seq(Pairs)
  BY OnePair
<1>2. \A q : In(q, s) <=> q = p
  BY InOne
<1>3. Balanced(s)
  BY BalancedOne
<1> HIDE DEF s
<1>4. Made(s)
  BY <1>1, <1>2, <1>3 DEF Made
<1>5. ImagesOf(s) = IF p[1] = "img" THEN {p[2]} ELSE {}
  BY <1>1, <1>2, Contents
<1>6. Shows(s) <=> \/ p[1] = "img" \/ p = <<"void", "hr">>
                   \/ p[1] = "text" /\ p[2] # "blank"
  <2>1. Shows(s) <=> \E q \in Pairs :
                        /\ In(q, s)
                        /\ \/ q[1] = "img" \/ q = <<"void", "hr">>
                           \/ q[1] = "text" /\ q[2] # "blank"
    BY <1>1, Contents
  <2> QED
    BY <2>1, <1>2
<1> QED
  BY <1>4, <1>5, <1>6 DEF s

(* The empty string shows nothing.                                         *)
LEMMA MadeEmpty == Made(<<>>) /\ ImagesOf(<<>>) = {}
<1> DEFINE s == <<>>
<1>1. s \in Seq(Pairs) /\ Len(s) = 0
  OBVIOUS
<1>2. Balanced(s)
  BY BalancedEmpty
<1> HIDE DEF s
<1>3. \A p : ~In(p, s)
  BY <1>1 DEF In
<1>4. Made(s) /\ ImagesOf(s) = {}
  BY <1>1, <1>2, <1>3, Contents DEF Made
<1> QED
  BY <1>4 DEF s

\* Types.
TextTypeOK ==
    /\ content \in Seq([kind : Kinds, depth : Nat \ {0}])
    /\ stage \in {"editing", "validating", "refused", "rendering", "raised", "stored"}
    /\ required \in BOOLEAN
    /\ calls \in Seq(Nat \ {0})
    /\ at \in Nat \ {0}
    /\ counters \in [nodes : Nat, text : Nat, meaningful : Nat]
    /\ results \in Seq(Seq(Pairs))
    /\ wrapped \in Nat

\* The levels are those of a tree.
TreeInv ==
    /\ content # <<>> => Level(1) = 1
    /\ \A i \in 1..(Len(content) - 1) : Level(i + 1) <= Level(i) + 1

(* The calls under way are the ancestors of the node that the walk comes   *)
(* to, one on each level.                                                  *)
Path(c, a) ==
    /\ a <= Len(content) + 1
    /\ a <= Len(content) => Level(a) <= Len(c) + 1
    /\ \A l \in 1..Len(c) :
          /\ c[l] < a /\ c[l] <= Len(content)
          /\ Level(c[l]) = l
          /\ \A k \in Nodes : c[l] < k /\ k < a => Level(k) > l

\* So for the validator and for the renderer.
PathInv == stage \in {"validating", "rendering"} => Path(calls, at)

\* What the counters say of the nodes before a.
Tallied(c, a) ==
    /\ c.nodes = a /\ a <= MAX_NODES
    /\ c.text = Cardinality({i \in Texts : i < a})
    /\ c.text <= MAX_TEXT_CHARS
    /\ c.meaningful > 0 <=> \E i \in Nodes : i < a /\ Meaningful(i)

\* The validator has counted and checked all that it has passed.
ValidatingInv ==
    stage = "validating" =>
        /\ Tallied(counters, at)
        /\ \A i \in Nodes : i < at => WellPlaced(i)

\* What the strings joined so far show of the nodes before a.
Drawn(r, a) ==
    /\ \A l \in 1..Len(r) : Made(r[l])
    /\ UNION {ImagesOf(r[l]) : l \in 1..Len(r)}
          = {Attrs(i).media_id : i \in {j \in Nodes : j < a /\ Type(j) = "image"}}
    /\ (\E i \in Nodes : i < a /\ Meaningful(i)) => \E l \in 1..Len(r) : Shows(r[l])

\* The renderer has a string for the page and one for each call.
RenderingInv == stage = "rendering" => Len(results) = Len(calls) + 1 /\ Drawn(results, at)

\* The inductive invariant.
TextInv ==
    /\ TextTypeOK /\ TreeInv /\ PathInv /\ ValidatingInv /\ RenderingInv
    /\ AcceptsGrammar /\ RendersAccepted

(* A stack without its last frame.                                         *)
LEMMA FrontIs ==
    ASSUME NEW S, NEW s \in Seq(S), s # <<>>
    PROVE  /\ Front(s) \in Seq(S) /\ Len(Front(s)) = Len(s) - 1
           /\ Len(s) \in Nat \ {0}
           /\ \A l \in 1..(Len(s) - 1) : Front(s)[l] = s[l]
<1>1. Len(s) \in Nat \ {0}
  OBVIOUS
<1>2. 1 \in Int /\ Len(s) - 1 \in Int /\ \A l \in 1..(Len(s) - 1) : s[l] \in S
  BY <1>1
<1>3. /\ Front(s) \in Seq(S)
      /\ Len(Front(s)) = IF 1 <= Len(s) - 1 THEN (Len(s) - 1) - 1 + 1 ELSE 0
      /\ \A l \in 1..((Len(s) - 1) - 1 + 1) : Front(s)[l] = s[1 + l - 1]
  BY <1>2, SubSeqProperties DEF Front
<1>4. Len(Front(s)) = Len(s) - 1
  <2> DEFINE n == Len(s)
             m == Len(Front(s))
  <2>1. n \in Nat \ {0} /\ m = IF 1 <= n - 1 THEN (n - 1) - 1 + 1 ELSE 0
    BY <1>1, <1>3
  <2> HIDE DEF n, m
  <2>2. m = n - 1
    BY <2>1
  <2> QED
    BY <2>2 DEF n, m
<1>5. ASSUME NEW l \in 1..(Len(s) - 1) PROVE Front(s)[l] = s[l]
  <2>1. l \in 1..((Len(s) - 1) - 1 + 1) /\ 1 + l - 1 = l
    BY <1>1
  <2>2. Front(s)[l] = s[1 + l - 1]
    BY <2>1, <1>3
  <2> QED
    BY <2>1, <2>2
<1> QED
  BY <1>1, <1>3, <1>4, <1>5

(* Types of the nodes and of the frames.                                   *)
LEMMA NodeTypes ==
    ASSUME TextTypeOK
    PROVE  /\ Len(content) \in Nat /\ Len(calls) \in Nat
           /\ \A i \in Nodes : content[i].kind \in Kinds /\ Level(i) \in Nat \ {0}
           /\ \A l \in 1..Len(calls) : calls[l] \in Nat \ {0}
<1>1. Len(content) \in Nat
  BY DEF TextTypeOK
<1>2. ASSUME NEW i \in Nodes PROVE content[i].kind \in Kinds /\ Level(i) \in Nat \ {0}
  <2>1. \A S : \A s \in Seq(S) : \A l \in 1..Len(s) : s[l] \in S
    OBVIOUS
  <2>2. content[i] \in [kind : Kinds, depth : Nat \ {0}]
    BY <2>1 DEF TextTypeOK, Nodes
  <2> QED
    BY <2>2 DEF Level
<1>3. Len(calls) \in Nat /\ \A l \in 1..Len(calls) : calls[l] \in Nat \ {0}
  BY DEF TextTypeOK
<1> QED
  BY <1>1, <1>2, <1>3

(* The steps of both walks.                                                *)
LEMMA PathStart ==
    ASSUME TextTypeOK, TreeInv
    PROVE  Path(<<>>, 1)
<1>1. Len(content) \in Nat /\ Len(<<>>) = 0
  BY DEF TextTypeOK
<1>2. 1 <= Len(content) => Level(1) = 1
  BY <1>1 DEF TreeInv, TextTypeOK
<1> QED
  BY <1>1, <1>2 DEF Path

(* ... after a leaf, which starts no call                                  *)
LEMMA PathStay ==
    ASSUME TextTypeOK, TreeInv, NEW c \in Seq(Nat \ {0}), NEW a \in Nat \ {0}, Path(c, a),
           a <= Len(content), Level(a) = Len(c) + 1, ~HasChildren(a)
    PROVE  Path(c, a + 1)
<1>1. /\ Len(content) \in Nat /\ Len(c) \in Nat
      /\ \A i \in Nodes : Level(i) \in Nat \ {0}
      /\ \A l \in 1..Len(c) : c[l] \in Nat \ {0}
  BY NodeTypes
<1>2. a + 1 <= Len(content) + 1
  BY <1>1
<1>3. a + 1 <= Len(content) => Level(a + 1) <= Len(c) + 1
  <2>1. a + 1 <= Len(content) => a + 1 \in Nodes /\ a < Len(content)
    BY <1>1 DEF Nodes
  <2> QED
    BY <1>1, <2>1 DEF HasChildren
<1>4. ASSUME NEW l \in 1..Len(c)
      PROVE  /\ c[l] < a + 1 /\ c[l] <= Len(content)
             /\ Level(c[l]) = l
             /\ \A k \in Nodes : c[l] < k /\ k < a + 1 => Level(k) > l
  <2>1. /\ c[l] < a /\ c[l] <= Len(content)
        /\ Level(c[l]) = l
        /\ \A k \in Nodes : c[l] < k /\ k < a => Level(k) > l
    BY DEF Path
  <2>2. Level(a) > l
    BY <1>1
  <2>3. \A k \in Nodes : k < a + 1 => k < a \/ k = a
    BY DEF Nodes
  <2> QED
    BY <1>1, <2>1, <2>2, <2>3
<1> QED
  BY <1>2, <1>3, <1>4 DEF Path

(* ... after the call of a node with children                              *)
LEMMA PathPush ==
    ASSUME TextTypeOK, TreeInv, NEW c \in Seq(Nat \ {0}), NEW a \in Nat \ {0}, Path(c, a),
           a <= Len(content), Level(a) = Len(c) + 1
    PROVE  Path(Append(c, a), a + 1)
<1>1. /\ Len(content) \in Nat /\ Len(c) \in Nat
      /\ \A i \in Nodes : Level(i) \in Nat \ {0}
      /\ \A l \in 1..Len(c) : c[l] \in Nat \ {0}
  BY NodeTypes
<1> DEFINE d == Append(c, a)
<1>2. Len(d) = Len(c) + 1 /\ d[Len(c) + 1] = a /\ \A l \in 1..Len(c) : d[l] = c[l]
  BY <1>1
<1> HIDE DEF d
<1>3. a + 1 <= Len(content) => Level(a + 1) <= Len(d) + 1
  <2>1. a + 1 <= Len(content) => a \in 1..(Len(content) - 1)
    BY <1>1
  <2> QED
    BY <1>1, <1>2, <2>1 DEF TreeInv
<1>4. ASSUME NEW l \in 1..Len(d)
      PROVE  /\ d[l] < a + 1 /\ d[l] <= Len(content)
             /\ Level(d[l]) = l
             /\ \A k \in Nodes : d[l] < k /\ k < a + 1 => Level(k) > l
  <2>1. CASE l = Len(c) + 1
    <3>1. d[l] = a
      BY <2>1, <1>2
    <3>2. \A k \in Nodes : ~(a < k /\ k < a + 1)
      BY <1>1 DEF Nodes
    <3> QED
      BY <2>1, <3>1, <3>2, <1>1
  <2>2. CASE l \in 1..Len(c)
    <3>1. /\ c[l] < a /\ c[l] <= Len(content)
          /\ Level(c[l]) = l
          /\ \A k \in Nodes : c[l] < k /\ k < a => Level(k) > l
      BY <2>2 DEF Path
    <3>2. Level(a) > l /\ c[l] < a + 1
      BY <1>1, <2>2, <3>1
    <3>3. \A k \in Nodes : k < a + 1 => k < a \/ k = a
      BY DEF Nodes
    <3> QED
      BY <1>2, <2>2, <3>1, <3>2, <3>3
  <2>3. l = Len(c) + 1 \/ l \in 1..Len(c)
    BY <1>1, <1>2
  <2> QED
    BY <2>1, <2>2, <2>3
<1>5. a + 1 <= Len(content) + 1
  BY <1>1
<1>6. Path(d, a + 1)
  BY <1>3, <1>4, <1>5 DEF Path
<1> QED
  BY <1>6 DEF d

(* ... and after the return of a call with no child to come.               *)
LEMMA PathPop ==
    ASSUME TextTypeOK, TreeInv, NEW c \in Seq(Nat \ {0}), NEW a \in Nat \ {0}, Path(c, a),
           c # <<>>, ~(a <= Len(content) /\ Level(a) = Len(c) + 1)
    PROVE  Path(Front(c), a)
<1>1. Len(content) \in Nat /\ \A i \in Nodes : Level(i) \in Nat \ {0}
  BY NodeTypes
<1>2. /\ Len(Front(c)) = Len(c) - 1 /\ Len(c) \in Nat \ {0}
      /\ \A l \in 1..(Len(c) - 1) : Front(c)[l] = c[l]
  BY FrontIs
<1>3. a <= Len(content) => Level(a) <= Len(Front(c)) + 1
  <2>1. a <= Len(content) => a \in Nodes /\ Level(a) <= Len(c) + 1 /\ Level(a) # Len(c) + 1
    BY <1>1 DEF Path, Nodes
  <2> QED
    BY <1>1, <1>2, <2>1
<1>4. \A l \in 1..Len(Front(c)) : l \in 1..Len(c) /\ Front(c)[l] = c[l]
  BY <1>2
<1> QED
  BY <1>3, <1>4 DEF Path

(* The innermost call is that of the parent of the node at hand.           *)
LEMMA ParentCalls ==
    ASSUME TextTypeOK, Path(calls, at), IsChild
    PROVE  /\ calls = <<>> => Level(at) = 1
           /\ calls # <<>> => calls[Len(calls)] \in Nodes /\ Level(at) # 1
           /\ calls # <<>> => IsParent(calls[Len(calls)], at)
           /\ \A p \in Nodes : IsParent(p, at) => calls # <<>> /\ p = calls[Len(calls)]
<1>1. /\ Len(content) \in Nat /\ Len(calls) \in Nat /\ at \in Nat \ {0}
      /\ \A i \in Nodes : Level(i) \in Nat \ {0}
      /\ \A l \in 1..Len(calls) : calls[l] \in Nat \ {0}
  BY NodeTypes DEF TextTypeOK
<1>2. at <= Len(content) /\ at \in Nodes /\ Level(at) = Len(calls) + 1
  BY <1>1 DEF IsChild, Nodes
<1>3. CASE calls = <<>>
  <2>1. Len(calls) = 0
    BY <1>3
  <2>2. \A p \in Nodes : ~IsParent(p, at)
    BY <1>1, <1>2, <2>1 DEF IsParent
  <2> QED
    BY <1>2, <1>3, <2>1, <2>2
<1>4. CASE calls # <<>>
  <2> DEFINE top == calls[Len(calls)]
  <2>1. Len(calls) \in 1..Len(calls)
    BY <1>1, <1>4 DEF TextTypeOK
  <2>2. /\ top < at /\ top <= Len(content) /\ Level(top) = Len(calls)
        /\ \A k \in Nodes : top < k /\ k < at => Level(k) > Len(calls)
    BY <2>1 DEF Path
  <2>3. top \in Nodes
    BY <1>1, <2>1, <2>2 DEF Nodes
  <2> HIDE DEF top
  <2>4. IsParent(top, at)
    BY <1>1, <1>2, <2>2, <2>3 DEF IsParent
  <2>5. ASSUME NEW p \in Nodes, IsParent(p, at) PROVE p = top
    <3>1. p < at /\ Level(p) = Len(calls) /\ \A k \in Nodes : p < k /\ k < at => Level(k) > Level(p)
      BY <1>1, <1>2, <2>5 DEF IsParent
    <3>2. ~(p < top)
      BY <1>1, <2>2, <2>3, <3>1
    <3>3. ~(top < p)
      BY <1>1, <2>2, <3>1
    <3> QED
      BY <1>1, <2>3, <3>2, <3>3 DEF Nodes
  <2>6. Level(at) # 1
    BY <1>1, <1>2, <2>1
  <2> QED
    BY <1>4, <2>3, <2>4, <2>5, <2>6 DEF top
<1> QED
  BY <1>3, <1>4

(* The texts before a node, one more after a text.                         *)
LEMMA TextsBefore ==
    ASSUME TextTypeOK, NEW a \in Nat
    PROVE  /\ IsFiniteSet({i \in Texts : i < a})
           /\ Cardinality({i \in Texts : i < a}) \in Nat
           /\ Cardinality({i \in Texts : i < a}) <= Cardinality(Texts)
           /\ a \in Nodes => Cardinality({i \in Texts : i < a + 1}) =
                 Cardinality({i \in Texts : i < a}) + IF Type(a) = "text" THEN 1 ELSE 0
<1> DEFINE T(b) == {i \in Texts : i < b}
<1>1. Len(content) \in Nat
  BY NodeTypes
<1>2. IsFiniteSet(Nodes)
  BY <1>1, FS_Interval DEF Nodes
<1>3. Texts \in SUBSET Nodes /\ T(a) \in SUBSET Texts /\ T(a) \in SUBSET Nodes
  BY DEF Texts
<1>4. IsFiniteSet(Texts) /\ IsFiniteSet(T(a))
  BY <1>2, <1>3, FS_Subset
<1>5. Cardinality(T(a)) \in Nat /\ Cardinality(T(a)) <= Cardinality(Texts)
  BY <1>3, <1>4, FS_Subset, FS_CardinalityType
<1>6. ASSUME a \in Nodes
      PROVE  Cardinality(T(a + 1)) = Cardinality(T(a)) + IF Type(a) = "text" THEN 1 ELSE 0
  <2>1. \A i \in Nodes : i < a + 1 <=> i < a \/ i = a
    BY DEF Nodes
  <2>2. CASE Type(a) = "text"
    <3>1. T(a + 1) = T(a) \cup {a} /\ a \notin T(a)
      <4>1. a \in Texts /\ ~(a < a)
        BY <1>6, <2>2 DEF Texts
      <4>2. \A i \in Texts : i < a + 1 <=> i < a \/ i = a
        BY <2>1 DEF Texts
      <4> QED
        BY <4>1, <4>2
    <3> HIDE DEF T
    <3>2. Cardinality(T(a) \cup {a}) = Cardinality(T(a)) + 1
      BY <3>1, <1>4, FS_AddElement
    <3> QED
      BY <3>1, <3>2, <2>2
  <2>3. CASE Type(a) # "text"
    <3>1. T(a + 1) = T(a)
      BY <1>6, <2>1, <2>3 DEF Texts
    <3> HIDE DEF T
    <3> QED
      BY <3>1, <2>3, <1>5
  <2> QED
    BY <2>2, <2>3
<1> QED
  BY <1>4, <1>5, <1>6

(* The check of the caller is the rule about parents.                      *)
LEMMA CallerAllows ==
    ASSUME TextTypeOK, Path(calls, at), IsChild
    PROVE  Type(at) \in allowedChildren(Caller) <=>
              /\ Level(at) = 1 => Type(at) \in rootTypes
              /\ \A p \in Nodes : IsParent(p, at) => Type(at) \in allowedChildren(Type(p))
<1>1. CASE calls = <<>>
  <2>1. Level(at) = 1 /\ \A p \in Nodes : ~IsParent(p, at)
    BY <1>1, ParentCalls
  <2>2. Caller = "doc" /\ allowedChildren("doc") = rootTypes
    BY <1>1 DEF Caller, allowedChildren
  <2> QED
    BY <2>1, <2>2
<1>2. CASE calls # <<>>
  <2>1. /\ calls[Len(calls)] \in Nodes /\ Level(at) # 1
        /\ \A p \in Nodes : IsParent(p, at) <=> p = calls[Len(calls)]
    BY <1>2, ParentCalls
  <2>2. Caller = Type(calls[Len(calls)])
    BY <1>2 DEF Caller
  <2> QED
    BY <2>1, <2>2
<1> QED
  BY <1>1, <1>2

(* A node passes the check exactly if it is well placed and the limits     *)
(* hold; then it is counted.                                               *)
LEMMA CheckedIs ==
    ASSUME TextTypeOK, Path(calls, at), IsChild, Tallied(counters, at)
    PROVE  /\ Checked # Refused <=>
                 /\ WellPlaced(at)
                 /\ at + 1 <= MAX_NODES
                 /\ Type(at) = "text" => counters.text + 1 <= MAX_TEXT_CHARS
           /\ Checked # Refused => Checked =
                 [nodes |-> at + 1,
                  text |-> counters.text + IF Type(at) = "text" THEN 1 ELSE 0,
                  meaningful |-> counters.meaningful + IF Meaningful(at) THEN 1 ELSE 0]
<1> USE DEF leafTypes
<1> DEFINE type == Type(at)
           e == Entered(counters, Len(calls) + 1, at)
           ok == type \in allowedChildren(Caller)
<1>1. /\ Len(content) \in Nat /\ Len(calls) \in Nat /\ at \in Nat \ {0} /\ at \in Nodes
      /\ Level(at) = Len(calls) + 1 /\ MAX_NODES \in Nat /\ MAX_DEPTH \in Nat
      /\ counters.nodes = at /\ counters.text \in Nat /\ counters.meaningful \in Nat
  BY NodeTypes, LimitsAssumption DEF IsChild, Nodes, TextTypeOK, Tallied
<1>2. counters = [nodes |-> at, text |-> counters.text, meaningful |-> counters.meaningful]
  BY <1>1 DEF TextTypeOK
<1>3. /\ e # Refused <=> Level(at) <= MAX_DEPTH /\ at + 1 <= MAX_NODES
      /\ e # Refused => e = [nodes |-> at + 1, text |-> counters.text,
                             meaningful |-> counters.meaningful]
  <2> DEFINE n == [counters EXCEPT !.nodes = @ + 1]
  <2>1. n = [nodes |-> at + 1, text |-> counters.text, meaningful |-> counters.meaningful]
    BY <1>1, <1>2
  <2>2. n # Refused
    <3> HIDE DEF n
    <3>1. n.nodes = at + 1
      BY <2>1
    <3>2. Refused.nodes = 0
      BY DEF Refused
    <3>3. at + 1 # 0
      BY <1>1
    <3> QED
      BY <3>1, <3>2, <3>3
  <2>3. e = IF Len(calls) + 1 > MAX_DEPTH \/ counters.nodes + 1 > MAX_NODES THEN Refused ELSE n
    BY DEF Entered
  <2> HIDE DEF n, e
  <2> QED
    BY <2>1, <2>2, <2>3, <1>1
<1> DEFINE bad == \/ e = Refused
                  \/ type \in leafTypes /\ HasChildren(at)
                  \/ type \notin leafTypes /\ (allowedChildren(type) = {} \/ ~Fits(at))
<1>3a. Checked = IF ~ok \/ bad THEN Refused ELSE IF type \in leafTypes THEN Leaf(e, at) ELSE e
  BY DEF Checked, _validate_node
<1> HIDE DEF e
<1>4. ok => type \in {"paragraph", "heading", "blockquote", "bulletList", "orderedList",
                      "horizontalRule", "image", "text", "hardBreak", "listItem"}
  BY DEF allowedChildren, rootTypes, blocks
<1>5. ok => type \in leafTypes \/ allowedChildren(type) # {}
  BY <1>4 DEF allowedChildren, blocks
<1>6. type \in leafTypes => Fits(at)
  BY DEF Fits
<1>7. Checked # Refused <=>
         /\ ok /\ e # Refused
         /\ type \in leafTypes => ~HasChildren(at) /\ Leaf(e, at) # Refused
         /\ type \notin leafTypes => Fits(at)
  <2> HIDE DEF ok
  <2> QED
    BY <1>5, <1>3a
<1>8. Checked # Refused => Checked = IF type \in leafTypes THEN Leaf(e, at) ELSE e
  BY <1>3a
<1>9. ASSUME type \in leafTypes, e # Refused
      PROVE  /\ Leaf(e, at) # Refused <=>
                   /\ type = "text" =>
                         counters.text + 1 <= MAX_TEXT_CHARS /\ Marked(Attrs(at).marks)
                   /\ type = "image" => Attrs(at).media_id # "no id"
             /\ Leaf(e, at) # Refused => Leaf(e, at) =
                   [nodes |-> at + 1,
                    text |-> counters.text + IF type = "text" THEN 1 ELSE 0,
                    meaningful |-> counters.meaningful + IF Meaningful(at) THEN 1 ELSE 0]
  <2>1. e = [nodes |-> at + 1, text |-> counters.text, meaningful |-> counters.meaningful]
    BY <1>3, <1>9
  <2>2. \A t, m : [nodes |-> at + 1, text |-> t, meaningful |-> m] # Refused
    <3>1. \A t, m : [nodes |-> at + 1, text |-> t, meaningful |-> m].nodes = at + 1
      OBVIOUS
    <3>2. Refused.nodes = 0
      BY DEF Refused
    <3> QED
      BY <3>1, <3>2, <1>1
  <2>3. CASE type = "text"
    <3> DEFINE m == IF Attrs(at).text = "blank" THEN counters.meaningful
                    ELSE counters.meaningful + 1
    <3>1. Leaf(e, at) = Text(e, at)
      BY <2>3 DEF Leaf
    <3>2. [e EXCEPT !.text = @ + 1,
                    !.meaningful = IF Attrs(at).text = "blank" THEN @ ELSE @ + 1]
            = [nodes |-> at + 1, text |-> counters.text + 1, meaningful |-> m]
      <4> DEFINE m2 == IF Attrs(at).text = "blank" THEN e.meaningful ELSE e.meaningful + 1
                 t2 == e.text + 1
      <4>1. e.text = counters.text /\ e.meaningful = counters.meaningful
        BY <2>1
      <4>2. m2 = m /\ t2 = counters.text + 1
        BY <4>1
      <4> HIDE DEF m, m2, t2
      <4>3. [e EXCEPT !.text = t2, !.meaningful = m2]
              = [nodes |-> at + 1, text |-> t2, meaningful |-> m2]
        <5> DEFINE f == [e EXCEPT !.text = t2]
        <5>1. f = [nodes |-> at + 1, text |-> t2, meaningful |-> counters.meaningful]
          BY <2>1
        <5>2. [e EXCEPT !.text = t2, !.meaningful = m2] = [f EXCEPT !.meaningful = m2]
          OBVIOUS
        <5> HIDE DEF f
        <5>3. [f EXCEPT !.meaningful = m2] = [nodes |-> at + 1, text |-> t2, meaningful |-> m2]
          BY <5>1
        <5> QED
          BY <5>2, <5>3
      <4> QED
        BY <4>2, <4>3 DEF m2, t2
    <3>3. Text(e, at) =
             IF counters.text + 1 > MAX_TEXT_CHARS \/ ~Marked(Attrs(at).marks) THEN Refused
             ELSE [nodes |-> at + 1, text |-> counters.text + 1, meaningful |-> m]
      BY <2>1, <3>2 DEF Text
    <3>4. m = counters.meaningful + IF Meaningful(at) THEN 1 ELSE 0
      BY <2>3, <1>1 DEF Meaningful
    <3>5. MAX_TEXT_CHARS \in Nat
      BY LimitsAssumption
    <3> HIDE DEF m
    <3> QED
      BY <3>1, <3>3, <3>4, <3>5, <2>2, <2>3, <1>1
  <2>4. CASE type = "image"
    <3>1. Leaf(e, at) = IF Attrs(at).media_id = "no id" THEN Refused
                        ELSE [e EXCEPT !.meaningful = @ + 1]
      BY <2>4 DEF Leaf
    <3>2. [e EXCEPT !.meaningful = @ + 1]
            = [nodes |-> at + 1, text |-> counters.text, meaningful |-> counters.meaningful + 1]
      BY <2>1
    <3>3. Meaningful(at)
      BY <2>4 DEF Meaningful
    <3> DEFINE n == [e EXCEPT !.meaningful = @ + 1]
               id == Attrs(at).media_id
    <3>4. n # Refused
      BY <3>2, <2>2
    <3> HIDE DEF n, id
    <3>5. Leaf(e, at) = IF id = "no id" THEN Refused ELSE n
      BY <3>1 DEF n, id
    <3>6. n = [nodes |-> at + 1, text |-> counters.text + 0, meaningful |-> counters.meaningful + 1]
      BY <3>2, <1>1 DEF n
    <3> QED
      BY <3>3, <3>4, <3>5, <3>6, <2>4 DEF id
  <2>5. CASE type = "horizontalRule"
    <3>1. Leaf(e, at) = [e EXCEPT !.meaningful = @ + 1]
      BY <2>5 DEF Leaf
    <3>2. [e EXCEPT !.meaningful = @ + 1]
            = [nodes |-> at + 1, text |-> counters.text, meaningful |-> counters.meaningful + 1]
      BY <2>1
    <3>3. Meaningful(at)
      BY <2>5 DEF Meaningful
    <3> QED
      BY <3>1, <3>2, <3>3, <2>2, <2>5, <1>1
  <2>6. CASE type = "hardBreak"
    <3>1. Leaf(e, at) = e
      BY <2>6 DEF Leaf
    <3>2. ~Meaningful(at)
      BY <2>6 DEF Meaningful
    <3> QED
      BY <3>1, <3>2, <2>1, <2>2, <2>6, <1>1
  <2> QED
    BY <2>3, <2>4, <2>5, <2>6, <1>9
<1>10. ok <=> /\ Level(at) = 1 => type \in rootTypes
              /\ \A p \in Nodes : IsParent(p, at) => type \in allowedChildren(Type(p))
  BY CallerAllows
<1>11. type \notin leafTypes => type # "text" /\ type # "image" /\ ~Meaningful(at)
  BY DEF Meaningful
<1> HIDE DEF ok
<1>12. Checked # Refused <=>
          /\ WellPlaced(at)
          /\ at + 1 <= MAX_NODES
          /\ Type(at) = "text" => counters.text + 1 <= MAX_TEXT_CHARS
  BY <1>3, <1>6, <1>7, <1>9, <1>10, <1>11 DEF WellPlaced
<1>13. ASSUME Checked # Refused
       PROVE  Checked =
                 [nodes |-> at + 1,
                  text |-> counters.text + IF Type(at) = "text" THEN 1 ELSE 0,
                  meaningful |-> counters.meaningful + IF Meaningful(at) THEN 1 ELSE 0]
  <2>1. CASE type \in leafTypes
    BY <2>1, <1>7, <1>8, <1>9, <1>13
  <2>2. CASE type \notin leafTypes
    BY <2>2, <1>1, <1>3, <1>7, <1>8, <1>11, <1>13
  <2> QED
    BY <2>1, <2>2
<1> QED
  BY <1>12, <1>13

(* What a step that leaves the document alone keeps of it.                 *)
LEMMA NodesKept ==
    ASSUME content' = content
    PROVE  /\ TreeInv <=> TreeInv'
           /\ Nodes' = Nodes /\ Texts' = Texts
           /\ \A i : WellPlaced(i)' <=> WellPlaced(i)
           /\ \A i : Meaningful(i)' <=> Meaningful(i)
<1>1. Nodes' = Nodes /\ Texts' = Texts
  BY DEF Nodes, Texts, Type
<1>2. ASSUME NEW i PROVE WellPlaced(i)' <=> WellPlaced(i)
  BY DEF WellPlaced, Level, Type, Attrs, IsParent, HasChildren, Nodes, Fits
<1>3. ASSUME NEW i PROVE Meaningful(i)' <=> Meaningful(i)
  BY DEF Meaningful, Type, Attrs
<1>4. TreeInv <=> TreeInv'
  BY DEF TreeInv, Level
<1> QED
  BY <1>1, <1>2, <1>3, <1>4

(* A step of either walk leaves the grammar alone.                         *)
LEMMA GrammarKept == UNCHANGED walk => (Grammatical <=> Grammatical') /\ content' = content
  BY NodesKept DEF walk, Grammatical

(* Each part of the invariant after a step, by the values that the step    *)
(* gives the variables.                                                    *)
LEMMA PathKept ==
    ASSUME content' = content, NEW c, NEW a, Path(c, a), calls' = c, at' = a
    PROVE  PathInv'
  BY DEF PathInv, Path, Level, Nodes

LEMMA TalliedKept ==
    ASSUME content' = content, NEW c, NEW a, Tallied(c, a), counters' = c, at' = a,
           \A i \in Nodes : i < a => WellPlaced(i)
    PROVE  ValidatingInv'
<1>1. Tallied(counters, at)'
  BY NodesKept DEF Tallied
<1>2. (\A i \in Nodes : i < at => WellPlaced(i))'
  BY NodesKept
<1> QED
  BY <1>1, <1>2 DEF ValidatingInv

LEMMA DrawnKept ==
    ASSUME content' = content, NEW r, NEW a, Drawn(r, a), results' = r, at' = a,
           Len(results') = Len(calls') + 1
    PROVE  RenderingInv'
<1>1. {Attrs(i).media_id : i \in {j \in Nodes : j < a /\ Type(j) = "image"}}
        = {Attrs(i).media_id : i \in {j \in Nodes : j < at /\ Type(j) = "image"}}'
  BY NodesKept DEF Attrs, Type
<1>2. Drawn(results, at)'
  BY <1>1, NodesKept DEF Drawn
<1> QED
  BY <1>2 DEF RenderingInv

(* The editor begins with an empty document.                               *)
LEMMA TextStart == TextInit => TextInv
<1> SUFFICES ASSUME TextInit PROVE TextInv
  OBVIOUS
<1> USE DEF TextInit
<1>1. TextTypeOK
  <2>1. results \in Seq(Seq(Pairs))
    <3>1. <<>> \in Seq(Pairs)
      OBVIOUS
    <3> HIDE DEF Pairs
    <3>2. \A S : \A x \in S : << x >> \in Seq(S)
      OBVIOUS
    <3> QED
      BY <3>1, <3>2
  <2>2. counters \in [nodes : Nat, text : Nat, meaningful : Nat]
    BY DEF Refused
  <2>3. content \in Seq([kind : Kinds, depth : Nat \ {0}]) /\ calls \in Seq(Nat \ {0})
    OBVIOUS
  <2>4. stage = "editing" /\ at \in Nat \ {0} /\ wrapped \in Nat
    OBVIOUS
  <2>5. required \in BOOLEAN
    BY Zenon
  <2> HIDE DEF TextInit
  <2> QED
    BY <2>1, <2>2, <2>3, <2>4, <2>5 DEF TextTypeOK
<1>2. TreeInv
  BY DEF TreeInv
<1> QED
  BY <1>1, <1>2
  DEF TextInv, PathInv, ValidatingInv, RenderingInv, AcceptsGrammar, RendersAccepted

(* Editing again begins anew.                                              *)
LEMMA EditStep == TextInv /\ Edit => TextInv'
<1> SUFFICES ASSUME TextInv, Edit PROVE TextInv'
  OBVIOUS
<1>1. TextInit'
  BY DEF Edit, TextInit
<1> QED
  BY <1>1, TextStart, PTL

(* A node goes below the last one, beside it, or beside an ancestor of it. *)
LEMMA ComposeStep ==
    ASSUME TextInv, NEW kind \in Kinds, NEW depth \in 1..EditorNodes, Compose(kind, depth)
    PROVE  TextInv'
<1> DEFINE node == [kind |-> kind, depth |-> depth]
<1>1. /\ stage = "editing" /\ stage' = "editing" /\ content' = Append(content, node)
      /\ depth <= IF content = <<>> THEN 1 ELSE Level(Len(content)) + 1
  BY DEF Compose
<1>2. node \in [kind : Kinds, depth : Nat \ {0}] /\ node.depth = depth /\ depth \in Nat \ {0}
  OBVIOUS
<1> HIDE DEF node
<1>3. TextTypeOK'
  BY <1>1, <1>2 DEF TextInv, TextTypeOK, Compose
<1>4. /\ Len(content) \in Nat /\ Len(content') = Len(content) + 1
      /\ \A i \in 1..Len(content) : content'[i] = content[i]
      /\ content'[Len(content) + 1] = node
  BY <1>1, <1>2 DEF TextInv, TextTypeOK
<1>5. \A i \in 1..Len(content) : Level(i)' = Level(i)
  BY <1>4 DEF Level
<1>6. \A i : i = Len(content) + 1 => Level(i)' = depth
  BY <1>2, <1>4 DEF Level
<1>7. TreeInv'
  <2>1. content' # <<>> => Level(1)' = 1
    <3>1. CASE content = <<>>
      <4>1. Len(content) = 0 /\ depth = 1
        BY <3>1, <1>1, <1>2
      <4> QED
        BY <4>1, <1>6
    <3>2. CASE content # <<>>
      <4>1. 1 \in 1..Len(content) /\ Level(1) = 1
        BY <3>2, <1>4 DEF TextInv, TreeInv, TextTypeOK
      <4> QED
        BY <4>1, <1>5
    <3> QED
      BY <3>1, <3>2
  <2>2. ASSUME NEW i \in 1..(Len(content') - 1) PROVE Level(i + 1)' <= Level(i)' + 1
    <3>1. i \in 1..Len(content) /\ Level(i)' = Level(i)
      BY <1>4, <1>5
    <3>2. CASE i = Len(content)
      <4>1. content # <<>> /\ i + 1 = Len(content) + 1
        BY <3>1, <3>2, <1>4
      <4>2. depth <= Level(i) + 1
        BY <4>1, <3>2, <1>1
      <4>3. Level(i + 1)' = depth
        BY <4>1, <1>6
      <4> QED
        BY <3>1, <4>2, <4>3
    <3>3. CASE i # Len(content)
      <4>1. i \in 1..(Len(content) - 1) /\ i + 1 \in 1..Len(content)
        BY <3>1, <3>3, <1>4
      <4>2. Level(i + 1) <= Level(i) + 1
        BY <4>1 DEF TextInv, TreeInv
      <4>3. Level(i + 1)' = Level(i + 1)
        BY <4>1, <1>5
      <4> QED
        BY <3>1, <4>2, <4>3
    <3> QED
      BY <3>2, <3>3
  <2> QED
    BY <2>1, <2>2 DEF TreeInv
<1> QED
  BY <1>1, <1>3, <1>7
  DEF TextInv, PathInv, ValidatingInv, RenderingInv, AcceptsGrammar, RendersAccepted

(* The steps of the validator.                                             *)
LEMMA PathEnd ==
    ASSUME TextTypeOK, Path(calls, at), ~IsChild, calls = <<>>
    PROVE  at = Len(content) + 1 /\ \A i \in Nodes : i < at
<1>1. Len(content) \in Nat /\ Len(calls) = 0 /\ at \in Nat \ {0}
  BY DEF TextTypeOK
<1>2. at <= Len(content) => at \in Nodes /\ Level(at) \in Nat \ {0}
  BY <1>1, NodeTypes DEF Nodes
<1>3. at <= Len(content) + 1 /\ (at <= Len(content) => Level(at) <= 1)
  BY <1>1 DEF Path
<1>4. ~(at <= Len(content))
  BY <1>1, <1>2, <1>3 DEF IsChild
<1> QED
  BY <1>1, <1>3, <1>4 DEF Nodes

(* validate_document begins before the first node, with the root counted.  *)
LEMMA ValidateDocumentStep ==
    ASSUME TextInv, NEW require_content \in BOOLEAN, validate_document(require_content)
    PROVE  TextInv'
<1>1. /\ stage' = "validating" /\ content' = content /\ calls' = <<>> /\ at' = 1
      /\ counters' = [nodes |-> 1, text |-> 0, meaningful |-> 0]
      /\ TextTypeOK /\ TreeInv
  BY DEF validate_document, TextInv
<1>2. TextTypeOK'
  BY <1>1 DEF TextTypeOK, validate_document
<1>3. PathInv'
  BY <1>1, PathStart, PathKept
<1>4. \A i \in Nodes : ~(i < 1)
  BY DEF Nodes
<1>5. Tallied([nodes |-> 1, text |-> 0, meaningful |-> 0], 1)
  <2>1. {i \in Texts : i < 1} = {}
    BY <1>4 DEF Texts
  <2>2. Cardinality({i \in Texts : i < 1}) = 0
    BY <2>1, FS_EmptySet
  <2> QED
    BY <1>4, <2>2, LimitsAssumption DEF Tallied
<1>6. ValidatingInv'
  BY <1>1, <1>4, <1>5, TalliedKept
<1>7. TreeInv'
  BY <1>1, NodesKept
<1> QED
  BY <1>1, <1>2, <1>3, <1>6, <1>7 DEF TextInv, RenderingInv, AcceptsGrammar, RendersAccepted

(* A node that passes is counted, and is well placed.                      *)
LEMMA ValidateNodeStep == TextInv /\ ValidateNode => TextInv'
<1> SUFFICES ASSUME TextInv, ValidateNode PROVE TextInv'
  OBVIOUS
<1>1. /\ TextTypeOK /\ TreeInv /\ IsChild /\ Path(calls, at) /\ Tallied(counters, at)
      /\ \A i \in Nodes : i < at => WellPlaced(i)
  BY DEF TextInv, PathInv, ValidatingInv, ValidateNode
<1>2. /\ stage' = "validating" /\ UNCHANGED walk /\ content' = content /\ at' = at + 1
      /\ counters' = Checked /\ Checked # Refused
      /\ calls' = IF Type(at) \in leafTypes THEN calls ELSE Append(calls, at)
  BY GrammarKept DEF ValidateNode
<1>3. /\ at \in Nat \ {0} /\ at + 1 \in Nat \ {0}
      /\ at <= Len(content) /\ Level(at) = Len(calls) + 1
      /\ calls \in Seq(Nat \ {0}) /\ at \in Nodes /\ Len(content) \in Nat
      /\ counters.text \in Nat /\ counters.meaningful \in Nat
  BY <1>1 DEF TextTypeOK, IsChild, Nodes
<1> DEFINE t == counters.text + IF Type(at) = "text" THEN 1 ELSE 0
           m == counters.meaningful + IF Meaningful(at) THEN 1 ELSE 0
<1>4. /\ WellPlaced(at) /\ at + 1 <= MAX_NODES
      /\ Type(at) = "text" => counters.text + 1 <= MAX_TEXT_CHARS
      /\ Checked = [nodes |-> at + 1, text |-> t, meaningful |-> m]
  BY <1>1, <1>2, CheckedIs
<1>5. t \in Nat /\ m \in Nat
  BY <1>3
<1>6. m > 0 <=> counters.meaningful > 0 \/ Meaningful(at)
  BY <1>3
<1>7. t = Cardinality({i \in Texts : i < at + 1}) /\ t <= MAX_TEXT_CHARS
  <2>1. t = Cardinality({i \in Texts : i < at + 1})
    BY <1>1, <1>3, TextsBefore DEF Tallied
  <2>2. t <= MAX_TEXT_CHARS
    BY <1>1, <1>3, <1>4 DEF Tallied
  <2> QED
    BY <2>1, <2>2
<1> HIDE DEF t, m
<1>8. TextTypeOK'
  <2>1. counters' \in [nodes : Nat, text : Nat, meaningful : Nat]
    BY <1>2, <1>3, <1>4, <1>5
  <2>2. calls' \in Seq(Nat \ {0})
    BY <1>2, <1>3
  <2> QED
    BY <1>1, <1>2, <1>3, <2>1, <2>2 DEF TextTypeOK, ValidateNode, walk
<1>9. PathInv'
  <2>1. CASE Type(at) \in leafTypes
    <3>1. ~HasChildren(at)
      BY <1>4, <2>1 DEF WellPlaced
    <3>2. Path(calls, at + 1)
      BY <1>1, <1>3, <3>1, PathStay
    <3> QED
      BY <1>2, <2>1, <3>2, PathKept
  <2>2. CASE Type(at) \notin leafTypes
    <3>1. Path(Append(calls, at), at + 1)
      BY <1>1, <1>3, PathPush
    <3> QED
      BY <1>2, <2>2, <3>1, PathKept
  <2> QED
    BY <2>1, <2>2
<1>10. \A i \in Nodes : i < at + 1 <=> i < at \/ i = at
  BY <1>3 DEF Nodes
<1>11. Tallied(Checked, at + 1)
  <2>1. /\ Checked.nodes = at + 1 /\ Checked.text = t /\ Checked.meaningful = m
    BY <1>4
  <2>2. m > 0 <=> \E i \in Nodes : i < at + 1 /\ Meaningful(i)
    BY <1>1, <1>3, <1>6, <1>10 DEF Tallied
  <2> QED
    BY <1>4, <1>7, <2>1, <2>2 DEF Tallied
<1>12. ValidatingInv'
  BY <1>1, <1>2, <1>4, <1>10, <1>11, TalliedKept
<1>13. TreeInv'
  BY <1>1, <1>2, NodesKept
<1> QED
  BY <1>2, <1>8, <1>9, <1>12, <1>13 DEF TextInv, RenderingInv, AcceptsGrammar, RendersAccepted

(* What is refused is not grammatical.                                     *)
LEMMA RefuseStep == TextInv /\ Refuse => TextInv'
<1> SUFFICES ASSUME TextInv, Refuse PROVE TextInv'
  OBVIOUS
<1>1. /\ TextTypeOK /\ TreeInv /\ Path(calls, at) /\ Tallied(counters, at)
  BY DEF TextInv, PathInv, ValidatingInv, Refuse
<1>2. stage' = "refused" /\ UNCHANGED walk /\ content' = content
  BY GrammarKept DEF Refuse
<1>3. ~Grammatical
  <2>1. CASE IsChild /\ Checked = Refused
    <3>1. at \in Nat /\ at \in Nodes /\ at + 1 \in Nat /\ at <= Len(content) /\ Len(content) \in Nat
      BY <1>1, <2>1 DEF TextTypeOK, IsChild, Nodes
    <3>2. \/ ~WellPlaced(at)
          \/ ~(at + 1 <= MAX_NODES)
          \/ Type(at) = "text" /\ ~(counters.text + 1 <= MAX_TEXT_CHARS)
      BY <1>1, <2>1, CheckedIs
    <3>3. CASE ~WellPlaced(at)
      BY <3>1, <3>3 DEF Grammatical
    <3>4. CASE ~(at + 1 <= MAX_NODES)
      <4>1. MAX_NODES \in Nat
        BY LimitsAssumption
      <4> QED
        BY <3>1, <3>4, <4>1 DEF Grammatical
    <3>5. CASE Type(at) = "text" /\ ~(counters.text + 1 <= MAX_TEXT_CHARS)
      <4>1. Cardinality({i \in Texts : i < at + 1}) = counters.text + 1
        BY <1>1, <3>1, <3>5, TextsBefore DEF Tallied
      <4>2. Cardinality({i \in Texts : i < at + 1}) <= Cardinality(Texts)
        BY <1>1, <3>1, TextsBefore
      <4>3. Cardinality(Texts) \in Nat /\ MAX_TEXT_CHARS \in Nat /\ counters.text \in Nat
        <5>1. IsFiniteSet(Nodes) /\ Texts \in SUBSET Nodes
          BY <3>1, FS_Interval DEF Nodes, Texts
        <5> QED
          BY <1>1, <5>1, FS_Subset, FS_CardinalityType, LimitsAssumption DEF TextTypeOK
      <4> QED
        BY <3>5, <4>1, <4>2, <4>3 DEF Grammatical
    <3> QED
      BY <3>2, <3>3, <3>4, <3>5
  <2>2. CASE ~IsChild /\ calls = <<>> /\ required /\ counters.meaningful = 0
    <3>1. \A i \in Nodes : ~Meaningful(i)
      BY <1>1, <2>2, PathEnd DEF Tallied
    <3> QED
      BY <2>2, <3>1 DEF Grammatical
  <2> QED
    BY <2>1, <2>2 DEF Refuse
<1>4. AcceptsGrammar'
  BY <1>2, <1>3, GrammarKept DEF AcceptsGrammar
<1>5. TextTypeOK'
  BY <1>1, <1>2 DEF TextTypeOK, Refuse, walk
<1>6. TreeInv'
  BY <1>1, <1>2, NodesKept
<1> QED
  BY <1>2, <1>4, <1>5, <1>6
  DEF TextInv, PathInv, ValidatingInv, RenderingInv, RendersAccepted

(* A call of the validator returns.                                        *)
LEMMA ReturnValidStep == TextInv /\ ReturnValid => TextInv'
<1> SUFFICES ASSUME TextInv, ReturnValid PROVE TextInv'
  OBVIOUS
<1>1. /\ TextTypeOK /\ TreeInv /\ Path(calls, at) /\ Tallied(counters, at)
      /\ \A i \in Nodes : i < at => WellPlaced(i)
      /\ at \in Nat \ {0} /\ calls \in Seq(Nat \ {0})
  BY DEF TextInv, PathInv, ValidatingInv, ReturnValid, TextTypeOK
<1>2. /\ stage' = "validating" /\ UNCHANGED walk /\ content' = content
      /\ at' = at /\ counters' = counters /\ calls' = Front(calls)
      /\ ~IsChild /\ calls # <<>>
  BY GrammarKept DEF ReturnValid
<1>3. TextTypeOK'
  <2>1. calls' \in Seq(Nat \ {0})
    BY <1>1, <1>2, FrontIs
  <2> QED
    BY <1>1, <1>2, <2>1 DEF TextTypeOK, ReturnValid, walk
<1>4. PathInv'
  <2>1. Path(Front(calls), at)
    BY <1>1, <1>2, PathPop DEF IsChild
  <2> QED
    BY <1>2, <2>1, PathKept
<1>5. ValidatingInv'
  BY <1>1, <1>2, TalliedKept
<1>6. TreeInv'
  BY <1>1, <1>2, NodesKept
<1> QED
  BY <1>2, <1>3, <1>4, <1>5, <1>6 DEF TextInv, RenderingInv, AcceptsGrammar, RendersAccepted

(* What is accepted is grammatical; no string is joined yet.               *)
LEMMA AcceptStep == TextInv /\ Accept => TextInv'
<1> SUFFICES ASSUME TextInv, Accept PROVE TextInv'
  OBVIOUS
<1>1. /\ TextTypeOK /\ TreeInv /\ Path(calls, at) /\ Tallied(counters, at)
      /\ \A i \in Nodes : i < at => WellPlaced(i)
      /\ at \in Nat \ {0} /\ calls \in Seq(Nat \ {0}) /\ ~IsChild /\ calls = <<>>
  BY DEF TextInv, PathInv, ValidatingInv, Accept, TextTypeOK
<1>2. /\ stage' = "rendering" /\ UNCHANGED walk /\ content' = content
      /\ at' = 1 /\ results' = << <<>> >> /\ calls' = <<>>
  BY <1>1, GrammarKept DEF Accept
<1>3. at = Len(content) + 1 /\ \A i \in Nodes : i < at
  BY <1>1, PathEnd
<1>4. Grammatical
  <2>1. {i \in Texts : i < at} = Texts
    BY <1>3 DEF Texts
  <2>2. required => \E i \in Nodes : Meaningful(i)
    BY <1>1 DEF Accept, Tallied
  <2>3. Cardinality(Texts) <= MAX_TEXT_CHARS /\ Len(content) + 1 <= MAX_NODES
    BY <1>1, <1>3, <2>1 DEF Tallied
  <2>4. \A i \in Nodes : WellPlaced(i)
    BY <1>1, <1>3
  <2> QED
    BY <2>2, <2>3, <2>4 DEF Grammatical
<1>5. AcceptsGrammar'
  BY <1>2, <1>4, GrammarKept DEF AcceptsGrammar
<1> DEFINE html == << <<>> >>
<1>6. html \in Seq(Seq(Pairs)) /\ Len(html) = 1 /\ html[1] = <<>>
  <2>1. <<>> \in Seq(Pairs)
    OBVIOUS
  <2> HIDE DEF Pairs
  <2>2. \A S : \A x \in S : << x >> \in Seq(S)
    OBVIOUS
  <2> QED
    BY <2>1, <2>2
<1> HIDE DEF html
<1>7. TextTypeOK'
  BY <1>1, <1>2, <1>6 DEF TextTypeOK, Accept, walk, html
<1>8. PathInv'
  BY <1>1, <1>2, PathStart, PathKept
<1>9. \A i \in Nodes : ~(i < 1)
  BY DEF Nodes
<1>10. Drawn(html, 1)
  <2>1. \A l \in 1..Len(html) : html[l] = <<>>
    BY <1>6
  <2>2. UNION {ImagesOf(html[l]) : l \in 1..Len(html)} = {}
    BY <2>1, MadeEmpty
  <2>3. {Attrs(i).media_id : i \in {j \in Nodes : j < 1 /\ Type(j) = "image"}} = {}
    BY <1>9
  <2> QED
    BY <1>9, <2>1, <2>2, <2>3, MadeEmpty DEF Drawn
<1>11. RenderingInv'
  <2>1. Len(results') = Len(calls') + 1
    BY <1>2, <1>6 DEF html
  <2> QED
    BY <1>2, <1>10, <2>1, DrawnKept DEF html
<1>12. TreeInv'
  BY <1>1, <1>2, NodesKept
<1> QED
  BY <1>2, <1>5, <1>7, <1>8, <1>11, <1>12 DEF TextInv, ValidatingInv, RendersAccepted

(* What a node's own string shows of it.                                   *)
LEMMA NodeWords ==
    ASSUME TextTypeOK, NEW i \in Nodes
    PROVE  /\ Type(i) = "text" => Attrs(i).text \in Words
           /\ Type(i) = "image" => Attrs(i).media_id \in Words /\ Attrs(i).caption \in Words
<1>1. content[i].kind \in Kinds
  BY NodeTypes
<1> DEFINE kind == content[i].kind
<1>2. kind \in KindsOf(Type(i)) /\ Attrs(i) = kind.attrs
  BY <1>1 DEF KindsOf, Type, Attrs
<1> HIDE DEF kind
<1>3. CASE Type(i) = "text"
  BY <1>2, <1>3 DEF Words
<1>4. CASE Type(i) = "image"
  BY <1>2, <1>4 DEF Words
<1> QED
  BY <1>3, <1>4

(* The string of an image, a rule or a break shows it, and no other image. *)
LEMMA RenderedShows ==
    ASSUME TextTypeOK, NEW i \in Nodes, Type(i) \in leafTypes \ {"text"}
    PROVE  /\ Made(Rendered(i))
           /\ ImagesOf(Rendered(i)) = IF Type(i) = "image" THEN {Attrs(i).media_id} ELSE {}
           /\ Meaningful(i) => Shows(Rendered(i))
<1>1. CASE Type(i) = "image"
  <2> DEFINE id == Attrs(i).media_id
             caption == Attrs(i).caption
             words == << <<"text", caption>> >>
             image == << <<"img", id>> >>
  <2>1. id \in Words /\ caption \in Words
    BY <1>1, NodeWords
  <2> HIDE DEF id, caption
  <2>2. Made(words) /\ ImagesOf(words) = {}
    <3>1. <<"text", caption>> \in Pairs
      BY <2>1 DEF Pairs
    <3>2. <<"text", caption>>[1] = "text"
      OBVIOUS
    <3> QED
      BY <3>1, <3>2, MadeOne
  <2>3. Made(image) /\ ImagesOf(image) = {id} /\ Shows(image)
    <3>1. <<"img", id>> \in Pairs
      BY <2>1 DEF Pairs
    <3>2. <<"img", id>>[1] = "img" /\ <<"img", id>>[2] = id
      OBVIOUS
    <3> QED
      BY <3>1, <3>2, MadeOne
  <2> HIDE DEF words, image
  <2>4. Made(Caption(i)) /\ ImagesOf(Caption(i)) = {}
    <3>1. Caption(i) = IF caption = "" THEN <<>> ELSE Enclosed("figcaption", words)
      BY DEF Caption, caption, words
    <3>2. "figcaption" \in Elements
      BY DEF Elements
    <3>3. Made(Enclosed("figcaption", words)) /\ ImagesOf(Enclosed("figcaption", words)) = {}
      BY <2>2, <3>2, MadeEnclosed
    <3> QED
      BY <3>1, <3>3, MadeEmpty
  <2> DEFINE inner == image \o Caption(i)
  <2>5. Made(inner) /\ ImagesOf(inner) = {id} /\ Shows(inner)
    BY <2>3, <2>4, MadeJoined
  <2>6. Rendered(i) = Enclosed("figure", inner)
    BY <1>1 DEF Rendered, Figure, image, id
  <2> HIDE DEF inner
  <2>7. "figure" \in Elements
    BY DEF Elements
  <2> QED
    BY <1>1, <2>5, <2>6, <2>7, MadeEnclosed DEF id
<1>2. CASE Type(i) = "horizontalRule"
  <2> DEFINE rule == <<"void", "hr">>
  <2>1. rule \in Pairs /\ rule[1] = "void"
    BY DEF Pairs, Words
  <2>2. Rendered(i) = << rule >>
    BY <1>2 DEF Rendered
  <2>3. Shows(<< rule >>) /\ Made(<< rule >>) /\ ImagesOf(<< rule >>) = {}
    BY <2>1, MadeOne
  <2> QED
    BY <1>2, <2>2, <2>3
<1>3. CASE Type(i) = "hardBreak"
  <2> DEFINE break == <<"void", "br">>
  <2>1. break \in Pairs /\ break[1] = "void"
    BY DEF Pairs, Words
  <2>2. Rendered(i) = << break >>
    BY <1>3 DEF Rendered
  <2>3. Made(<< break >>) /\ ImagesOf(<< break >>) = {}
    BY <2>1, MadeOne
  <2> QED
    BY <1>3, <2>2, <2>3 DEF Meaningful
<1> QED
  BY <1>1, <1>2, <1>3 DEF leafTypes

\* The images of several strings.
Images(r) == UNION {ImagesOf(r[l]) : l \in 1..Len(r)}

(* What _render_node returns shows what its children show.                 *)
LEMMA BlockShows ==
    ASSUME NEW i, Fits(i), NEW s, Made(s)
    PROVE  /\ Made(Block(i, s)) /\ ImagesOf(Block(i, s)) = ImagesOf(s)
           /\ Shows(s) => Shows(Block(i, s))
<1>1. {"p", "h1", "h2", "h3", "h4", "h5", "h6", "blockquote", "ul", "ol", "li"} \subseteq Elements
  BY DEF Elements
<1>2. \/ Type(i) = "text" /\ Block(i, s) = s
      \/ \E tag \in Elements : Block(i, s) = Enclosed(tag, s)
  <2>1. CASE Type(i) = "heading"
    <3>1. Attrs(i).level \in Elements
      BY <1>1, <2>1 DEF Fits
    <3>2. Block(i, s) = Enclosed(Attrs(i).level, s)
      BY <2>1 DEF Block
    <3> QED
      BY <3>1, <3>2
  <2>2. CASE Type(i) # "heading"
    BY <1>1, <2>2 DEF Block
  <2> QED
    BY <2>1, <2>2
<1> QED
  BY <1>2, MadeEnclosed

(* The results after a string is joined, and what they show.               *)
LEMMA JoinedShows ==
    ASSUME results \in Seq(Seq(Pairs)), NEW n \in 1..Len(results), NEW more, Made(more),
           \A l \in 1..n : Made(results[l])
    PROVE  /\ Joined(n, more) \in Seq(Seq(Pairs)) /\ Len(Joined(n, more)) = n
           /\ \A l \in 1..n : Made(Joined(n, more)[l])
           /\ \A x : x \in Images(Joined(n, more)) <=>
                        x \in ImagesOf(more) \/ \E l \in 1..n : x \in ImagesOf(results[l])
           /\ (\E l \in 1..n : Shows(Joined(n, more)[l])) <=>
                 Shows(more) \/ \E l \in 1..n : Shows(results[l])
<1> DEFINE r == Joined(n, more)
<1>1. n \in Nat \ {0} /\ \A l \in 1..n : r[l] = IF l = n THEN results[l] \o more ELSE results[l]
  BY DEF Joined
<1>2. \A l \in 1..n : Made(results[l] \o more)
                      /\ ImagesOf(results[l] \o more) = ImagesOf(results[l]) \cup ImagesOf(more)
                      /\ (Shows(results[l] \o more) <=> Shows(results[l]) \/ Shows(more))
  BY MadeJoined
<1>3. \A l \in 1..n : Made(r[l])
  BY <1>1, <1>2
<1>4. r \in Seq(Seq(Pairs)) /\ Len(r) = n
  <2>1. \A l \in 1..n : r[l] \in Seq(Pairs)
    BY <1>3 DEF Made
  <2>2. r = [l \in 1..n |-> r[l]]
    BY DEF Joined
  <2> DEFINE S == Seq(Pairs)
  <2> HIDE DEF r, S
  <2>3. r \in [1..n -> S]
    BY <2>1, <2>2 DEF S
  <2>4. r \in Seq(S)
    BY <1>1, <2>3, SeqDef
  <2>5. Len(r) \in Nat /\ DOMAIN r = 1..Len(r) /\ DOMAIN r = 1..n
    BY <2>2, <2>4, LenProperties
  <2>6. Len(r) = n
    <3>1. n \in 1..n
      BY <1>1
    <3>2. n \in 1..Len(r)
      BY <2>5, <3>1
    <3>3. Len(r) \in 1..Len(r)
      BY <2>5, <3>2
    <3>4. Len(r) \in 1..n
      BY <2>5, <3>3
    <3> DEFINE k == Len(r)
    <3>5. k \in Nat /\ n \in Nat /\ n \in 1..k /\ k \in 1..n
      BY <1>1, <2>5, <3>2, <3>4
    <3> HIDE DEF k
    <3>6. k = n
      BY <3>5
    <3> QED
      BY <3>6 DEF k
  <2> QED
    BY <2>4, <2>6 DEF S
<1> HIDE DEF r
<1>5. ASSUME NEW x
      PROVE  x \in Images(r) <=> x \in ImagesOf(more) \/ \E l \in 1..n : x \in ImagesOf(results[l])
  <2>1. x \in Images(r) <=> \E l \in 1..n : x \in ImagesOf(r[l])
    BY <1>4 DEF Images
  <2>2. n \in 1..n
    BY <1>1
  <2> QED
    BY <1>1, <1>2, <2>1, <2>2
<1>6. (\E l \in 1..n : Shows(r[l])) <=> Shows(more) \/ \E l \in 1..n : Shows(results[l])
  <2>1. n \in 1..n
    BY <1>1
  <2> QED
    BY <1>1, <1>2, <2>1
<1> QED
  BY <1>3, <1>4, <1>5, <1>6 DEF r

(* The tags of marks are elements of HTML.                                 *)
LEMMA MarkTagElement == \A mark : MarkTag(mark) \in Elements
  BY DEF MarkTag, Elements

(* A node drawn in one of the strings is a node drawn.                     *)
LEMMA DrawnMore ==
    ASSUME Drawn(results, at), at \in Nodes, NEW r, \A l \in 1..Len(r) : Made(r[l]),
           \A x : x \in Images(r) <=> \/ x \in Images(results)
                                      \/ Type(at) = "image" /\ x = Attrs(at).media_id,
           (\E l \in 1..Len(results) : Shows(results[l])) => \E l \in 1..Len(r) : Shows(r[l]),
           Meaningful(at) => \E l \in 1..Len(r) : Shows(r[l])
    PROVE  Drawn(r, at + 1)
<1> DEFINE Gone(a) == {Attrs(i).media_id : i \in {j \in Nodes : j < a /\ Type(j) = "image"}}
<1>1. \A i \in Nodes : i < at + 1 <=> i < at \/ i = at
  BY DEF Nodes
<1>2. \A x : x \in Images(r) <=> x \in Gone(at + 1)
  <2>1. \A x : x \in Images(results) <=> x \in Gone(at)
    BY DEF Drawn, Images
  <2>2. \A k, x : x \in Gone(k) <=>
                     \E i \in Nodes : i < k /\ Type(i) = "image" /\ x = Attrs(i).media_id
    OBVIOUS
  <2> HIDE DEF Gone
  <2>3. \A x : x \in Gone(at + 1) <=> \/ x \in Gone(at)
                                      \/ Type(at) = "image" /\ x = Attrs(at).media_id
    BY <1>1, <2>2
  <2> QED
    BY <2>1, <2>3
<1>3. Images(r) = Gone(at + 1)
  <2> HIDE DEF Gone
  <2> QED
    BY <1>2
<1>4. (\E i \in Nodes : i < at + 1 /\ Meaningful(i)) => \E l \in 1..Len(r) : Shows(r[l])
  BY <1>1 DEF Drawn
<1> QED
  BY <1>3, <1>4 DEF Drawn, Images

(* What holds at every step of the renderer.                               *)
LEMMA AtRendering ==
    ASSUME TextInv, stage = "rendering"
    PROVE  /\ TextTypeOK /\ TreeInv /\ Path(calls, at) /\ Grammatical
           /\ Len(results) = Len(calls) + 1 /\ Drawn(results, at)
           /\ results \in Seq(Seq(Pairs)) /\ calls \in Seq(Nat \ {0}) /\ at \in Nat \ {0}
           /\ Len(calls) \in Nat /\ Len(content) \in Nat /\ wrapped \in Nat
           /\ \A l \in 1..Len(results) : Made(results[l])
           /\ IsChild => at \in Nodes /\ at <= Len(content) /\ Level(at) = Len(calls) + 1
           /\ \A l \in 1..Len(calls) : calls[l] \in Nodes
<1>1. /\ TextTypeOK /\ TreeInv /\ Path(calls, at) /\ Grammatical
      /\ Len(results) = Len(calls) + 1 /\ Drawn(results, at)
  BY DEF TextInv, PathInv, RenderingInv, AcceptsGrammar
<1>2. /\ results \in Seq(Seq(Pairs)) /\ calls \in Seq(Nat \ {0}) /\ at \in Nat \ {0}
      /\ Len(calls) \in Nat /\ Len(content) \in Nat /\ wrapped \in Nat
  BY <1>1 DEF TextTypeOK
<1>3. \A l \in 1..Len(results) : Made(results[l])
  BY <1>1 DEF Drawn
<1>4. IsChild => at \in Nodes /\ at <= Len(content) /\ Level(at) = Len(calls) + 1
  BY <1>2 DEF IsChild, Nodes
<1>5. \A l \in 1..Len(calls) : calls[l] \in Nodes
  BY <1>1, <1>2, NodeTypes DEF Path, Nodes
<1> QED
  BY <1>1, <1>2, <1>3, <1>4, <1>5

(* What each step of the renderer has to establish.                        *)
LEMMA StepOfRendering ==
    ASSUME TextInv, stage = "rendering", stage' = "rendering", UNCHANGED walk,
           NEW r, NEW c, NEW a, results' = r, calls' = c, at' = a,
           counters' = counters, wrapped' \in Nat,
           r \in Seq(Seq(Pairs)), c \in Seq(Nat \ {0}), a \in Nat \ {0},
           Len(r) = Len(c) + 1, Path(c, a), Drawn(r, a)
    PROVE  TextInv'
<1>1. content' = content /\ (Grammatical <=> Grammatical')
  BY GrammarKept
<1>2. TextTypeOK'
  BY <1>1, AtRendering DEF TextTypeOK, walk
<1>3. PathInv'
  BY <1>1, PathKept
<1>4. RenderingInv'
  BY <1>1, DrawnKept
<1>5. TreeInv'
  BY <1>1, AtRendering, NodesKept
<1>6. AcceptsGrammar'
  BY <1>1, AtRendering DEF AcceptsGrammar
<1> QED
  BY <1>2, <1>3, <1>4, <1>5, <1>6 DEF TextInv, ValidatingInv, RendersAccepted

(* The string of a leaf is joined to that of the innermost call.           *)
LEMMA RenderLeafStep == TextInv /\ RenderLeaf => TextInv'
<1> SUFFICES ASSUME TextInv, RenderLeaf PROVE TextInv'
  OBVIOUS
<1> DEFINE n == Len(results)
           more == Rendered(at)
           r == Joined(n, more)
<1>1. /\ stage = "rendering" /\ stage' = "rendering" /\ UNCHANGED walk /\ IsChild
      /\ Type(at) \in leafTypes \ {"text"} /\ results' = r /\ at' = at + 1 /\ calls' = calls
      /\ counters' = counters /\ wrapped' = wrapped
  BY DEF RenderLeaf
<1>2. /\ TextTypeOK /\ TreeInv /\ Path(calls, at) /\ Grammatical /\ Drawn(results, at)
      /\ n = Len(calls) + 1 /\ n \in 1..Len(results) /\ at \in Nodes /\ at <= Len(content)
      /\ Level(at) = Len(calls) + 1 /\ results \in Seq(Seq(Pairs)) /\ calls \in Seq(Nat \ {0})
      /\ at \in Nat \ {0} /\ at + 1 \in Nat \ {0} /\ wrapped \in Nat
      /\ \A l \in 1..n : Made(results[l])
  BY <1>1, AtRendering
<1>3. /\ Made(more) /\ ImagesOf(more) = IF Type(at) = "image" THEN {Attrs(at).media_id} ELSE {}
      /\ Meaningful(at) => Shows(more)
  BY <1>1, <1>2, RenderedShows
<1> HIDE DEF n, more
<1>4. /\ r \in Seq(Seq(Pairs)) /\ Len(r) = n
      /\ \A l \in 1..n : Made(r[l])
      /\ \A x : x \in Images(r) <=>
                   x \in ImagesOf(more) \/ \E l \in 1..n : x \in ImagesOf(results[l])
      /\ (\E l \in 1..n : Shows(r[l])) <=> Shows(more) \/ \E l \in 1..n : Shows(results[l])
  BY <1>2, <1>3, JoinedShows
<1> HIDE DEF r
<1>5. \A x : x \in Images(results) <=> \E l \in 1..n : x \in ImagesOf(results[l])
  BY DEF Images, n
<1>6. Drawn(r, at + 1)
  <2>1. \A l \in 1..Len(r) : Made(r[l])
    BY <1>4
  <2>2. \A x : x \in Images(r) <=> \/ x \in Images(results)
                                   \/ Type(at) = "image" /\ x = Attrs(at).media_id
    BY <1>3, <1>4, <1>5
  <2>3. (\E l \in 1..Len(results) : Shows(results[l])) => \E l \in 1..Len(r) : Shows(r[l])
    BY <1>4 DEF n
  <2>4. Meaningful(at) => \E l \in 1..Len(r) : Shows(r[l])
    BY <1>3, <1>4
  <2> QED
    BY <1>2, <2>1, <2>2, <2>3, <2>4, DrawnMore
<1>7. Path(calls, at + 1)
  <2>1. ~HasChildren(at)
    BY <1>1, <1>2 DEF Grammatical, WellPlaced
  <2> QED
    BY <1>2, <2>1, PathStay
<1> QED
  BY <1>1, <1>2, <1>4, <1>6, <1>7, StepOfRendering

(* A call begins, of a text with its words and of any other node with      *)
(* nothing.                                                                *)
LEMMA RenderNodeStep == TextInv /\ RenderNode => TextInv'
<1> SUFFICES ASSUME TextInv, RenderNode PROVE TextInv'
  OBVIOUS
<1> DEFINE n == Len(results)
           more == IF Type(at) = "text" THEN << <<"text", Attrs(at).text>> >> ELSE <<>>
           r == Append(results, more)
<1>1. /\ stage = "rendering" /\ stage' = "rendering" /\ UNCHANGED walk /\ IsChild
      /\ Type(at) \notin leafTypes \ {"text"}
      /\ results' = r /\ at' = at + 1 /\ calls' = Append(calls, at)
      /\ counters' = counters /\ wrapped' = 0
  BY DEF RenderNode
<1>2. /\ TextTypeOK /\ TreeInv /\ Path(calls, at) /\ Grammatical /\ Drawn(results, at)
      /\ n = Len(calls) + 1 /\ n \in Nat /\ at \in Nodes /\ at <= Len(content)
      /\ Level(at) = Len(calls) + 1 /\ results \in Seq(Seq(Pairs)) /\ calls \in Seq(Nat \ {0})
      /\ at \in Nat \ {0} /\ at + 1 \in Nat \ {0} /\ Len(calls) \in Nat
      /\ \A l \in 1..n : Made(results[l])
  BY <1>1, AtRendering
<1>3. Type(at) # "image" /\ Type(at) # "horizontalRule"
  BY <1>1 DEF leafTypes
<1>4. Made(more) /\ ImagesOf(more) = {} /\ (Meaningful(at) => Shows(more))
  <2>1. CASE Type(at) = "text"
    <3> DEFINE pair == <<"text", Attrs(at).text>>
    <3>1. pair \in Pairs /\ pair[1] = "text" /\ pair[2] = Attrs(at).text
      <4>1. Attrs(at).text \in Words
        BY <1>2, <2>1, NodeWords
      <4> QED
        BY <4>1 DEF Pairs
    <3>2. more = << pair >>
      BY <2>1
    <3> HIDE DEF pair, more
    <3>3. Made(<< pair >>) /\ ImagesOf(<< pair >>) = {} /\ (pair[2] # "blank" => Shows(<< pair >>))
      BY <3>1, MadeOne
    <3>4. Meaningful(at) => pair[2] # "blank"
      BY <1>3, <3>1 DEF Meaningful
    <3> QED
      BY <3>2, <3>3, <3>4
  <2>2. CASE Type(at) # "text"
    <3>1. more = <<>> /\ ~Meaningful(at)
      BY <1>3, <2>2 DEF Meaningful
    <3> QED
      BY <3>1, MadeEmpty
  <2> QED
    BY <2>1, <2>2
<1> HIDE DEF n, more
<1>5. /\ r \in Seq(Seq(Pairs)) /\ Len(r) = n + 1
      /\ r[n + 1] = more /\ \A l \in 1..n : r[l] = results[l]
  <2> DEFINE S == Seq(Pairs)
  <2>1. results \in Seq(S) /\ more \in S
    BY <1>2, <1>4 DEF Made
  <2> HIDE DEF S
  <2>2. r \in Seq(S) /\ Len(r) = n + 1 /\ r[n + 1] = more /\ \A l \in 1..n : r[l] = results[l]
    BY <2>1 DEF n
  <2> QED
    BY <2>2 DEF S
<1> HIDE DEF r
<1>6. \A l : l \in 1..Len(r) <=> l \in 1..n \/ l = n + 1
  BY <1>2, <1>5
<1>7. Drawn(r, at + 1)
  <2>1. \A l \in 1..Len(r) : Made(r[l])
    BY <1>2, <1>4, <1>5, <1>6
  <2>2. \A x : x \in Images(r) <=> \/ x \in Images(results)
                                   \/ Type(at) = "image" /\ x = Attrs(at).media_id
    <3>1. \A x : x \in Images(results) <=> \E l \in 1..n : x \in ImagesOf(results[l])
      BY DEF Images, n
    <3>2. \A x : x \in Images(r) <=> \E l \in 1..Len(r) : x \in ImagesOf(r[l])
      BY DEF Images
    <3> QED
      BY <1>3, <1>4, <1>5, <1>6, <3>1, <3>2
  <2>3. (\E l \in 1..Len(results) : Shows(results[l])) => \E l \in 1..Len(r) : Shows(r[l])
    BY <1>5, <1>6 DEF n
  <2>4. Meaningful(at) => \E l \in 1..Len(r) : Shows(r[l])
    BY <1>4, <1>5, <1>6
  <2> QED
    BY <1>2, <2>1, <2>2, <2>3, <2>4, DrawnMore
<1>8. Path(Append(calls, at), at + 1)
  BY <1>2, PathPush
<1>9. Append(calls, at) \in Seq(Nat \ {0}) /\ Len(Append(calls, at)) = Len(calls) + 1
  BY <1>2
<1>10. Len(r) = Len(Append(calls, at)) + 1
  BY <1>2, <1>5, <1>9
<1>11. wrapped' \in Nat
  BY <1>1
<1> QED
  BY <1>1, <1>2, <1>5, <1>7, <1>8, <1>9, <1>10, <1>11, StepOfRendering

(* Strings that show what they showed.                                     *)
LEMMA DrawnSame ==
    ASSUME Drawn(results, at), NEW r, \A l \in 1..Len(r) : Made(r[l]),
           \A x : x \in Images(r) <=> x \in Images(results),
           (\E l \in 1..Len(results) : Shows(results[l])) => \E l \in 1..Len(r) : Shows(r[l])
    PROVE  Drawn(r, at)
<1>1. Images(r) = Images(results)
  OBVIOUS
<1> QED
  BY <1>1 DEF Drawn, Images

(* A mark encloses the string of a text.                                   *)
LEMMA RenderMarkStep == TextInv /\ RenderMark => TextInv'
<1> SUFFICES ASSUME TextInv, RenderMark PROVE TextInv'
  OBVIOUS
<1> DEFINE n == Len(results)
           tag == MarkTag(Attrs(calls[Len(calls)]).marks[wrapped + 1])
           last == Enclosed(tag, results[n])
           r == [results EXCEPT ![n] = last]
<1>1. /\ stage = "rendering" /\ stage' = "rendering" /\ UNCHANGED walk
      /\ results' = r /\ at' = at /\ calls' = calls
      /\ counters' = counters /\ wrapped' = wrapped + 1
  BY DEF RenderMark
<1>2. /\ Path(calls, at) /\ Drawn(results, at)
      /\ n = Len(calls) + 1 /\ n \in Nat /\ n \in 1..n
      /\ results \in Seq(Seq(Pairs)) /\ calls \in Seq(Nat \ {0}) /\ at \in Nat \ {0}
      /\ wrapped + 1 \in Nat /\ \A l \in 1..n : Made(results[l])
  BY <1>1, AtRendering
<1>3. tag \in Elements
  BY MarkTagElement
<1> HIDE DEF tag, n
<1>4. Made(last) /\ ImagesOf(last) = ImagesOf(results[n]) /\ (Shows(last) <=> Shows(results[n]))
  BY <1>2, <1>3, MadeEnclosed
<1> HIDE DEF last
<1>5. /\ r \in Seq(Seq(Pairs)) /\ Len(r) = n
      /\ \A l \in 1..n : r[l] = IF l = n THEN last ELSE results[l]
  <2> DEFINE S == Seq(Pairs)
  <2>1. results \in Seq(S) /\ last \in S /\ n \in 1..Len(results)
    BY <1>2, <1>4 DEF Made, n
  <2> HIDE DEF S
  <2>2. r \in Seq(S) /\ Len(r) = n /\ \A l \in 1..n : r[l] = IF l = n THEN last ELSE results[l]
    BY <2>1, ExceptSeq DEF n
  <2> QED
    BY <2>2 DEF S
<1> HIDE DEF r
<1>6. Drawn(r, at)
  <2>1. \A l \in 1..Len(r) : Made(r[l])
    BY <1>2, <1>4, <1>5
  <2>2. \A x : x \in Images(r) <=> x \in Images(results)
    <3>1. \A x : x \in Images(results) <=> \E l \in 1..n : x \in ImagesOf(results[l])
      BY DEF Images, n
    <3>2. \A x : x \in Images(r) <=> \E l \in 1..n : x \in ImagesOf(r[l])
      BY <1>5 DEF Images
    <3> QED
      BY <1>4, <1>5, <3>1, <3>2
  <2>3. (\E l \in 1..Len(results) : Shows(results[l])) => \E l \in 1..Len(r) : Shows(r[l])
    BY <1>4, <1>5 DEF n
  <2> QED
    BY <1>2, <2>1, <2>2, <2>3, DrawnSame
<1> QED
  BY <1>1, <1>2, <1>5, <1>6, StepOfRendering

(* A call returns its string to its caller, enclosed.                      *)
LEMMA ReturnRenderedStep == TextInv /\ ReturnRendered => TextInv'
<1> SUFFICES ASSUME TextInv, ReturnRendered PROVE TextInv'
  OBVIOUS
<1> DEFINE n == Len(results)
           node == calls[Len(calls)]
           more == Block(node, results[n])
           r == Joined(n - 1, more)
<1>1. /\ stage = "rendering" /\ stage' = "rendering" /\ UNCHANGED walk /\ ~IsChild /\ calls # <<>>
      /\ results' = r /\ at' = at /\ calls' = Front(calls)
      /\ counters' = counters /\ wrapped' = wrapped
  BY DEF ReturnRendered
<1>2. /\ TextTypeOK /\ TreeInv /\ Path(calls, at) /\ Grammatical /\ Drawn(results, at)
      /\ n = Len(calls) + 1 /\ Len(calls) \in Nat
      /\ results \in Seq(Seq(Pairs)) /\ calls \in Seq(Nat \ {0}) /\ at \in Nat \ {0}
      /\ wrapped \in Nat /\ (\A l \in 1..n : Made(results[l]))
      /\ \A l \in 1..Len(calls) : calls[l] \in Nodes
  BY <1>1, AtRendering
<1>3. /\ Len(calls) \in Nat \ {0} /\ Front(calls) \in Seq(Nat \ {0})
      /\ Len(Front(calls)) = Len(calls) - 1
  BY <1>1, <1>2, FrontIs
<1>4. Fits(node)
  <2>1. Len(calls) \in 1..Len(calls)
    BY <1>3
  <2> QED
    BY <1>2, <2>1 DEF Grammatical, WellPlaced
<1> HIDE DEF n, node
<1>5. n \in Nat \ {0} /\ n \in 1..n /\ n - 1 \in 1..n /\ n - 1 \in Nat \ {0}
  BY <1>2, <1>3
<1>6. Made(more) /\ ImagesOf(more) = ImagesOf(results[n]) /\ (Shows(results[n]) => Shows(more))
  BY <1>2, <1>4, <1>5, BlockShows
<1> HIDE DEF more
<1>7. \A l : l \in 1..n <=> l \in 1..(n - 1) \/ l = n
  BY <1>5
<1>8. /\ r \in Seq(Seq(Pairs)) /\ Len(r) = n - 1
      /\ \A l \in 1..(n - 1) : Made(r[l])
      /\ \A x : x \in Images(r) <=>
                   x \in ImagesOf(more) \/ \E l \in 1..(n - 1) : x \in ImagesOf(results[l])
      /\ (\E l \in 1..(n - 1) : Shows(r[l])) <=>
            Shows(more) \/ \E l \in 1..(n - 1) : Shows(results[l])
  <2>1. n - 1 \in 1..Len(results) /\ \A l \in 1..(n - 1) : Made(results[l])
    BY <1>2, <1>5, <1>7 DEF n
  <2> QED
    BY <1>2, <1>6, <2>1, JoinedShows
<1> HIDE DEF r
<1>9. Drawn(r, at)
  <2>1. \A l \in 1..Len(r) : Made(r[l])
    BY <1>8
  <2>2. \A x : x \in Images(r) <=> x \in Images(results)
    <3>1. \A x : x \in Images(results) <=> \E l \in 1..n : x \in ImagesOf(results[l])
      BY DEF Images, n
    <3> QED
      BY <1>6, <1>7, <1>8, <3>1
  <2>3. (\E l \in 1..Len(results) : Shows(results[l])) => \E l \in 1..Len(r) : Shows(r[l])
    BY <1>6, <1>7, <1>8 DEF n
  <2> QED
    BY <1>2, <2>1, <2>2, <2>3, DrawnSame
<1>10. Path(Front(calls), at)
  BY <1>1, <1>2, PathPop DEF IsChild
<1>11. Len(r) = Len(Front(calls)) + 1
  BY <1>2, <1>3, <1>8
<1> QED
  BY <1>1, <1>2, <1>3, <1>8, <1>9, <1>10, <1>11, StepOfRendering

(* An exception leaves the document as accepted.                           *)
LEMMA RaiseStep == TextInv /\ Raise => TextInv'
<1> SUFFICES ASSUME TextInv, Raise PROVE TextInv'
  OBVIOUS
<1>1. /\ stage = "rendering" /\ stage' = "raised" /\ content' = content
      /\ (Grammatical <=> Grammatical') /\ TextTypeOK /\ TreeInv /\ Grammatical
  BY AtRendering, GrammarKept DEF Raise
<1>2. TextTypeOK'
  BY <1>1 DEF TextTypeOK, Raise, walk
<1> QED
  BY <1>1, <1>2, NodesKept
  DEF TextInv, PathInv, ValidatingInv, RenderingInv, AcceptsGrammar, RendersAccepted

(* When no call is left, the one string is the page.                       *)
LEMMA StoredStep == TextInv /\ Stored => TextInv'
<1> SUFFICES ASSUME TextInv, Stored PROVE TextInv'
  OBVIOUS
<1>1. /\ stage = "rendering" /\ stage' = "stored" /\ content' = content /\ required' = required
      /\ results' = results /\ ~IsChild /\ calls = <<>>
      /\ (Grammatical <=> Grammatical') /\ TextTypeOK /\ TreeInv /\ Grammatical
      /\ Path(calls, at) /\ Drawn(results, at) /\ Len(results) = Len(calls) + 1
  BY AtRendering, GrammarKept DEF Stored, walk
<1>2. TextTypeOK'
  BY <1>1 DEF TextTypeOK, Stored, walk
<1> DEFINE html == rendered_html
<1>3. Len(results) = 1 /\ html = results[1] /\ \A l \in 1..Len(results) : l = 1
  BY <1>1 DEF rendered_html
<1>4. \A i \in Nodes : i < at
  BY <1>1, PathEnd
<1> HIDE DEF html
<1>5. Made(html) /\ ImagesOf(html) = Images(results)
  BY <1>1, <1>3 DEF Drawn, Images
<1>6. /\ Balanced(html)
      /\ \A j \in DOMAIN html : html[j][1] \in {"open", "close"} => html[j][2] \in Elements
  <2>1. /\ html \in Seq(Pairs)
        /\ \A p \in Pairs : In(p, html) /\ p[1] \in {"open", "close"} => p[2] \in Elements
    BY <1>5 DEF Made
  <2>2. \A j \in DOMAIN html : html[j] \in Pairs /\ In(html[j], html)
    <3>1. DOMAIN html = 1..Len(html) /\ \A j \in 1..Len(html) : html[j] \in Pairs
      BY <2>1, LenProperties, ElementOfSeq
    <3> QED
      BY <3>1 DEF In
  <2> QED
    BY <1>5, <2>1, <2>2 DEF Made
<1>7. ImagesOf(html) = referenced_media_ids
  <2>1. {j \in 1..Len(content) : Type(j) = "image"} = {j \in Nodes : j < at /\ Type(j) = "image"}
    BY <1>4 DEF Nodes
  <2> QED
    BY <1>1, <1>5, <2>1 DEF Drawn, Images, referenced_media_ids
<1>8. required => Shows(html)
  BY <1>1, <1>3, <1>4 DEF Grammatical, Drawn
<1>9. html' = html /\ referenced_media_ids' = referenced_media_ids
  BY <1>1 DEF html, rendered_html, referenced_media_ids, Attrs, Type
<1>10. RendersAccepted'
  BY <1>1, <1>6, <1>7, <1>8, <1>9 DEF RendersAccepted, html
<1> QED
  BY <1>1, <1>2, <1>10, NodesKept
  DEF TextInv, PathInv, ValidatingInv, RenderingInv, AcceptsGrammar

(* Nothing changes, nothing breaks.                                        *)
LEMMA TextStays == TextInv /\ UNCHANGED textVars => TextInv'
<1> SUFFICES ASSUME TextInv, UNCHANGED textVars PROVE TextInv'
  OBVIOUS
<1>1. /\ UNCHANGED walk /\ content' = content /\ required' = required /\ stage' = stage
      /\ calls' = calls /\ at' = at /\ counters' = counters /\ results' = results
      /\ wrapped' = wrapped
  BY DEF textVars, walk
<1>2. TextTypeOK'
  BY <1>1 DEF TextInv, TextTypeOK
<1>3. TreeInv' /\ AcceptsGrammar'
  BY <1>1, NodesKept, GrammarKept DEF TextInv, AcceptsGrammar
<1>4. PathInv'
  BY <1>1, PathKept DEF TextInv, PathInv
<1>5. ValidatingInv'
  BY <1>1, TalliedKept DEF TextInv, ValidatingInv
<1>6. RenderingInv'
  BY <1>1, DrawnKept DEF TextInv, RenderingInv
<1>7. RendersAccepted'
  <2>1. rendered_html' = rendered_html /\ referenced_media_ids' = referenced_media_ids
    BY <1>1 DEF rendered_html, referenced_media_ids, Attrs, Type
  <2> QED
    BY <1>1, <2>1 DEF TextInv, RendersAccepted
<1> QED
  BY <1>2, <1>3, <1>4, <1>5, <1>6, <1>7 DEF TextInv

(* Every reachable state of editor, validator and renderer satisfies the   *)
(* invariant, for any kinds of nodes, any length of documents and any      *)
(* limits.                                                                 *)
THEOREM TextInvariance == TextSpec => []TextInv
<1>1. TextInv /\ TextNext => TextInv'
  BY EditStep, ComposeStep, ValidateDocumentStep, ValidateNodeStep, RefuseStep, ReturnValidStep,
     AcceptStep, RenderLeafStep, RenderNodeStep, RenderMarkStep, ReturnRenderedStep, RaiseStep,
     StoredStep DEF TextNext
<1>2. TextInv /\ [TextNext]_textVars => TextInv'
  BY <1>1, TextStays
<1> QED
  BY TextStart, <1>2, PTL DEF TextSpec

(* validate_document accepts exactly the grammar: a document it refuses    *)
(* breaks a rule of its own, and one it accepts breaks none and stays so   *)
(* while it is rendered (app/blog/rich_text.py:40-167).                    *)
THEOREM AcceptsGrammarCorrect == TextSpec => []AcceptsGrammar
<1>1. TextInv => AcceptsGrammar
  BY DEF TextInv
<1> QED
  BY TextInvariance, <1>1, PTL

(* render_document closes every element that it opens, in order, writes    *)
(* elements of HTML only, shows the images that referenced_media_ids has   *)
(* checked and no others, and shows something of a document that must      *)
(* (app/blog/rich_text.py:170-244).                                        *)
THEOREM RendersAcceptedCorrect == TextSpec => []RendersAccepted
<1>1. TextInv => RendersAccepted
  BY DEF TextInv
<1> QED
  BY TextInvariance, <1>1, PTL
=============================================================================
