------------------------------ MODULE SiteProofs ------------------------------
(***************************************************************************)
(* Proofs about a registration and its applicant, and about the modules    *)
(* of MCSite together.  What an applicant holds outside the database: the  *)
(* token of a draft and the link back from a payment (DraftAccess), and    *)
(* the form that lets a browser fill an upload (MediaObjects).  One-time   *)
(* codes (OtpCodes), for any registrations, phones, addresses, limits and  *)
(* times: the quotas and the limit of attempts hold however requests       *)
(* overlap or die, and a verification proves possession of the number the  *)
(* registration has.                                                       *)
(***************************************************************************)
EXTENDS MCSite, ContentProofs

-----------------------------------------------------------------------------
(* DraftAccess and MediaObjects.                                           *)

Holds(v) == visit[v].at \in {"admitted", "signed"}

\* A request under way is about a registration.
AboutDrafts == \A v \in Visits : visit[v].at # "start" => visit[v].draft \in Drafts

\* FOR UPDATE: one request at a time holds a row.
OneHolder == \A v, w \in Visits : Holds(v) /\ Holds(w) /\ visit[v].draft = visit[w].draft => v = w

(* Since a link is signed only when no payment is pending, and the row is  *)
(* held from then on, none is pending when the new one is written.         *)
SignedIsUnpaid == \A v \in Visits : visit[v].at = "signed" => payment[visit[v].draft].status # "PENDING"

AccessInv == AccessTypeOK /\ AboutDrafts /\ OneHolder /\ OldTokensAreDead /\ SignedIsUnpaid

LEMMA AccessBegins == AccessInit => AccessInv
<1> SUFFICES ASSUME AccessInit PROVE AccessInv
  OBVIOUS
<1> USE AccessAssumption
<1>1. AccessTypeOK
  BY DEF AccessInit, AccessTypeOK, Draft, Payment, Visit, Away, Abroad
<1>2. \A v \in Visits : visit[v].at = "start"
  BY DEF AccessInit, Away
<1>. QED BY <1>1, <1>2 DEF AccessInv, AboutDrafts, OneHolder, Holds, OldTokensAreDead, SignedIsUnpaid

-----------------------------------------------------------------------------
(* Types.                                                                  *)

LEMMA AccessTypes == AccessTypeOK /\ AboutDrafts /\ [AccessNext]_accessVars => AccessTypeOK'
<1> SUFFICES ASSUME AccessTypeOK, AboutDrafts, [AccessNext]_accessVars PROVE AccessTypeOK'
  OBVIOUS
<1> USE AccessAssumption DEF AccessTypeOK
<1>a. Away \in Visit /\ Abroad \in [draft : Drafts \cup {NoDraft}, no : 0..MaxPayments]
  BY DEF Away, Abroad, Visit
<1>1. ASSUME NEW v \in Visits,
             NEW wants \in {"read", "patch", "rotate", "pay"}, NEW d \in Drafts,
             NEW t \in 1..MaxTokens, Come(v, wants, d, t)
      PROVE  AccessTypeOK'
  BY <1>1 DEF Come, Visit, Away
<1>2. ASSUME NEW v \in Visits, Read(v) \/ Deny(v) \/ Patched(v) \/ VisitFails(v)
      PROVE  AccessTypeOK'
  BY <1>2, <1>a DEF Read, Deny, Patched, VisitFails
<1>3. ASSUME NEW v \in Visits, Authorize(v) PROVE AccessTypeOK'
  BY <1>3 DEF Authorize, Visit
<1>4. ASSUME NEW v \in Visits, Rotated(v) PROVE AccessTypeOK'
  <2> DEFINE d == visit[v].draft
  <2>1. d \in Drafts /\ draft[d].token < MaxTokens
    BY <1>4 DEF Rotated, AboutDrafts
  <2>2. [token |-> draft[d].token + 1, expires |-> moment + TokenTTL] \in Draft
    BY <2>1 DEF Draft
  <2>3. draft' = [draft EXCEPT ![d] = [token |-> draft[d].token + 1, expires |-> moment + TokenTTL]]
    BY <1>4 DEF Rotated
  <2>4. draft' \in [Drafts -> Draft]
    BY <2>2, <2>3
  <2>5. \A e \in Drafts : draft'[e].expires <= moment + TokenTTL
    <3>1. \A e \in Drafts : draft'[e] = draft[e] \/ draft'[e].expires = moment + TokenTTL
      BY <2>1, <2>3
    <3>. QED BY <3>1
  <2>6. visit' \in [Visits -> Visit] /\ payment' = payment /\ back' = back /\ moment' = moment
    BY <1>4, <1>a DEF Rotated
  <2>7. \A e \in Drafts : draft'[e].expires <= moment' + TokenTTL
    BY <2>5, <2>6
  <2>. QED BY <2>4, <2>6, <2>7
<1>5. ASSUME NEW v \in Visits, Signed(v) PROVE AccessTypeOK'
  <2> DEFINE signed == [visit[v] EXCEPT !.at = "signed", !.signed = moment]
  <2>1. visit' = [visit EXCEPT ![v] = signed]
    BY <1>5 DEF Signed
  <2>2. signed \in Visit
    BY DEF Visit
  <2>3. visit' \in [Visits -> Visit]
    BY <2>1, <2>2
  <2>. QED BY <1>5, <2>3 DEF Signed
<1>6. ASSUME NEW v \in Visits, Opened(v) PROVE AccessTypeOK'
  <2> DEFINE d == visit[v].draft
  <2>1. d \in Drafts /\ payment[d].no < MaxPayments /\ visit[v].signed \in 0..LastMoment
    BY <1>6 DEF Opened, AboutDrafts, Visit
  <2>2. [no |-> payment[d].no + 1, status |-> "PENDING", expires |-> visit[v].signed + LinkTTL]
           \in Payment
    BY <2>1 DEF Payment
  <2>3. payment' = [payment EXCEPT ![d] = [no |-> payment[d].no + 1, status |-> "PENDING",
                                           expires |-> visit[v].signed + LinkTTL]]
    BY <1>6 DEF Opened
  <2>4. payment' \in [Drafts -> Payment]
    BY <2>2, <2>3
  <2>. QED BY <1>6, <1>a, <2>4 DEF Opened
<1>7. ASSUME NEW b \in Returns, NEW d \in Drafts, Return(b, d) PROVE AccessTypeOK'
  BY <1>7 DEF Return, Payment
<1>8. ASSUME NEW b \in Returns, Decide(b) PROVE AccessTypeOK'
  BY <1>8, <1>a DEF Decide, Payment
<1>9. ASSUME NEW b \in Returns, ReturnFails(b) PROVE AccessTypeOK'
  BY <1>9, <1>a DEF ReturnFails
<1>10. CASE Later
  <2>1. \A d \in Drafts : draft[d].expires \in Nat
    BY DEF Draft
  <2>. QED BY <1>10, <2>1 DEF Later
<1>11. CASE UNCHANGED accessVars
  BY <1>11 DEF accessVars
<1>. QED BY <1>1, <1>2, <1>3, <1>4, <1>5, <1>6, <1>7, <1>8, <1>9, <1>10, <1>11 DEF AccessNext

-----------------------------------------------------------------------------
(* The holder of a row.                                                    *)

(* A step after which every holder was one before, and no held token or    *)
(* payment has moved, keeps what is known of holders.                      *)
LEMMA HoldersStay ==
    ASSUME AccessInv,
           \A v \in Visits : visit'[v].at # "start" =>
               visit'[v].draft \in Drafts,
           \A v \in Visits : Holds(v)' =>
               /\ Holds(v) /\ visit'[v].draft = visit[v].draft
               /\ visit'[v].token = visit[v].token
               /\ visit'[v].at = "signed" => payment[visit[v].draft].status # "PENDING"
               /\ draft'[visit[v].draft].token = draft[visit[v].draft].token
               /\ payment[visit[v].draft].status # "PENDING"
                     => payment'[visit[v].draft].status # "PENDING"
    PROVE  AboutDrafts' /\ OneHolder' /\ OldTokensAreDead' /\ SignedIsUnpaid'
BY DEF AccessInv, AboutDrafts, OneHolder, OldTokensAreDead, SignedIsUnpaid, Holds

LEMMA AccessStep == AccessInv /\ [AccessNext]_accessVars => AccessInv'
<1> SUFFICES ASSUME AccessInv, [AccessNext]_accessVars PROVE AccessInv'
  OBVIOUS
<1> DEFINE Kept == AboutDrafts' /\ OneHolder' /\ OldTokensAreDead' /\ SignedIsUnpaid'
<1>t. AccessTypeOK /\ AccessTypeOK'
  BY AccessTypes DEF AccessInv
<1> USE DEF AccessTypeOK, Visit
<1>1. ASSUME NEW v \in Visits,
             NEW wants \in {"read", "patch", "rotate", "pay"}, NEW d \in Drafts,
             NEW t \in 1..MaxTokens, Come(v, wants, d, t)
      PROVE  Kept
  <2>1. visit'[v].at = "waiting" /\ visit'[v].draft = d
        /\ \A w \in Visits \ {v} : visit'[w] = visit[w]
    BY <1>1, <1>t DEF Come, Away
  <2>. QED BY <1>1, <2>1, HoldersStay DEF Come, Holds, AccessInv, AboutDrafts, SignedIsUnpaid
<1>2. ASSUME NEW v \in Visits, Read(v) \/ Deny(v) \/ Patched(v) \/ VisitFails(v) PROVE Kept
  <2>1. visit'[v].at = "start" /\ \A w \in Visits \ {v} : visit'[w] = visit[w]
    BY <1>2, <1>t DEF Read, Deny, Patched, VisitFails, Away
  <2>2. UNCHANGED <<draft, payment>>
    BY <1>2 DEF Read, Deny, Patched, VisitFails
  <2>. QED BY <2>1, <2>2, HoldersStay DEF Holds, AccessInv, AboutDrafts, SignedIsUnpaid
<1>3. ASSUME NEW v \in Visits, Authorize(v) PROVE Kept
  <2>1. /\ visit'[v].at = "admitted" /\ visit'[v].draft = visit[v].draft
        /\ visit'[v].token = visit[v].token
        /\ \A w \in Visits \ {v} : visit'[w] = visit[w]
        /\ \A w \in Visits : Holds(w) => visit[w].draft # visit[v].draft
        /\ draft[visit[v].draft].token = visit[v].token
        /\ visit[v].at = "waiting"
        /\ UNCHANGED <<draft, payment>>
    BY <1>3, <1>t DEF Authorize, RowHeld, Holds, Admissible
  <2>2. AboutDrafts'
    BY <2>1 DEF AccessInv, AboutDrafts
  <2>3. OneHolder'
    BY <2>1 DEF AccessInv, OneHolder, Holds
  <2>4. OldTokensAreDead' /\ SignedIsUnpaid'
    BY <2>1 DEF AccessInv, OldTokensAreDead, SignedIsUnpaid
  <2>. QED BY <2>2, <2>3, <2>4
<1>4. ASSUME NEW v \in Visits, Rotated(v) PROVE Kept
  <2>1. visit[v].draft \in Drafts /\ Holds(v)
    BY <1>4 DEF Rotated, Holds, AccessInv, AboutDrafts
  <2>2. visit'[v].at = "start" /\ \A w \in Visits \ {v} : visit'[w] = visit[w]
    BY <1>4, <1>t DEF Rotated, Away
  <2>3. \A d \in Drafts : d # visit[v].draft => draft'[d] = draft[d]
    BY <1>4, <1>t DEF Rotated
  <2>4. \A w \in Visits : Holds(w)' => w # v /\ Holds(w) /\ visit'[w] = visit[w]
                                       /\ visit[w].draft # visit[v].draft /\ visit[w].draft \in Drafts
    BY <2>1, <2>2 DEF Holds, AccessInv, OneHolder, AboutDrafts
  <2>5. payment' = payment
    BY <1>4 DEF Rotated
  <2>. QED BY <2>2, <2>3, <2>4, <2>5, HoldersStay DEF AccessInv, AboutDrafts, SignedIsUnpaid
<1>5. ASSUME NEW v \in Visits, Signed(v) PROVE Kept
  <2>1. /\ visit'[v].at = "signed" /\ visit[v].at = "admitted"
        /\ visit'[v].draft = visit[v].draft /\ visit'[v].token = visit[v].token
        /\ \A w \in Visits \ {v} : visit'[w] = visit[w]
        /\ payment[visit[v].draft].status # "PENDING"
        /\ UNCHANGED <<draft, payment>>
    BY <1>5, <1>t DEF Signed
  <2>. QED BY <2>1, HoldersStay DEF Holds, AccessInv, AboutDrafts, SignedIsUnpaid
<1>6. ASSUME NEW v \in Visits, Opened(v) PROVE Kept
  <2>1. visit[v].draft \in Drafts /\ Holds(v)
    BY <1>6 DEF Opened, Holds, AccessInv, AboutDrafts
  <2>2. visit'[v].at = "start" /\ \A w \in Visits \ {v} : visit'[w] = visit[w]
    BY <1>6, <1>t DEF Opened, Away
  <2>3. \A d \in Drafts : d # visit[v].draft => payment'[d] = payment[d]
    BY <1>6, <1>t DEF Opened
  <2>4. \A w \in Visits : Holds(w)' => w # v /\ Holds(w) /\ visit'[w] = visit[w]
                                       /\ visit[w].draft # visit[v].draft /\ visit[w].draft \in Drafts
    BY <2>1, <2>2 DEF Holds, AccessInv, OneHolder, AboutDrafts
  <2>5. draft' = draft
    BY <1>6 DEF Opened
  <2>. QED BY <2>2, <2>3, <2>4, <2>5, HoldersStay DEF AccessInv, AboutDrafts, SignedIsUnpaid
<1>7. ASSUME NEW b \in Returns, NEW d \in Drafts, Return(b, d) PROVE Kept
  BY <1>7, HoldersStay DEF Return, Holds, AccessInv, AboutDrafts, SignedIsUnpaid
<1>8. ASSUME NEW b \in Returns, Decide(b) PROVE Kept
  <2>1. \A d \in Drafts : payment[d].status # "PENDING" => payment'[d].status # "PENDING"
    BY <1>8, <1>t DEF Decide, Payment
  <2>. QED BY <1>8, <2>1, HoldersStay DEF Decide, Holds, AccessInv, AboutDrafts, SignedIsUnpaid
<1>9. ASSUME NEW b \in Returns, ReturnFails(b) PROVE Kept
  BY <1>9, HoldersStay DEF ReturnFails, Holds, AccessInv, AboutDrafts, SignedIsUnpaid
<1>10. ASSUME Later PROVE Kept
  BY <1>10, HoldersStay DEF Later, Holds, AccessInv, AboutDrafts, SignedIsUnpaid
<1>11. ASSUME UNCHANGED accessVars PROVE Kept
  BY <1>11, HoldersStay DEF accessVars, Holds, AccessInv, AboutDrafts, SignedIsUnpaid
<1>12. Kept
  BY <1>1, <1>2, <1>3, <1>4, <1>5, <1>6, <1>7, <1>8, <1>9, <1>10, <1>11 DEF AccessNext
<1>. QED BY <1>12, <1>t DEF AccessInv

(* What is known of a draft and its requests between any two steps.        *)
THEOREM AccessInvariance == AccessSpec => []AccessInv
BY AccessBegins, AccessStep, PTL DEF AccessSpec

(* For any number of requests and rotations, whoever holds the row of a    *)
(* registration has the draft token that is current.                       *)
THEOREM OldTokensDie == AccessSpec => []OldTokensAreDead
<1>1. AccessInv => OldTokensAreDead
  BY DEF AccessInv
<1>. QED BY <1>1, AccessInvariance, PTL

-----------------------------------------------------------------------------
(* Expiry.                                                                 *)

LEMMA ExpiredStep ==
    ASSUME AccessInv, AccessInv', [AccessNext]_accessVars, NEW d \in Drafts, LockedOut(d)
    PROVE  LockedOut(d)'
<1> USE DEF AccessInv, AccessTypeOK, Visit
<1>a. ~RowHeld(d) /\ moment >= draft[d].expires
  BY DEF LockedOut
<1>1. /\ \A v \in Visits : visit'[v].at \in {"admitted", "signed"} /\ visit'[v].draft = d =>
             visit[v].at \in {"admitted", "signed"} /\ visit[v].draft = d
      /\ draft'[d] = draft[d]
      /\ moment' >= moment
      => LockedOut(d)'
  BY <1>a DEF LockedOut, RowHeld, Draft
<1>2. ASSUME NEW v \in Visits,
             Read(v) \/ Deny(v) \/ Patched(v) \/ VisitFails(v) \/ Signed(v) \/ Opened(v)
      PROVE  LockedOut(d)'
  <2>1. UNCHANGED <<draft, moment>>
    BY <1>2 DEF Read, Deny, Patched, VisitFails, Signed, Opened
  <2>2. \A w \in Visits : visit'[w].at \in {"admitted", "signed"} =>
           visit[w].at \in {"admitted", "signed"} /\ visit'[w].draft = visit[w].draft
    BY <1>2 DEF Read, Deny, Patched, VisitFails, Signed, Opened, Away
  <2>. QED BY <1>1, <2>1, <2>2
<1>7. ASSUME NEW v \in Visits,
             NEW wants \in {"read", "patch", "rotate", "pay"}, NEW e \in Drafts,
             NEW t \in 1..MaxTokens, Come(v, wants, e, t)
      PROVE  LockedOut(d)'
  <2>1. visit'[v].at = "waiting" /\ \A w \in Visits \ {v} : visit'[w] = visit[w]
    BY <1>7 DEF Come, Away
  <2>. QED BY <1>7, <1>1, <2>1 DEF Come
<1>3. ASSUME NEW v \in Visits, Authorize(v) PROVE LockedOut(d)'
  <2>1. visit[v].draft # d
    BY <1>3, <1>a DEF Authorize, Admissible, Draft
  <2>. QED BY <1>3, <1>1, <2>1 DEF Authorize
<1>4. ASSUME NEW v \in Visits, Rotated(v) PROVE LockedOut(d)'
  <2>1. visit[v].draft # d
    BY <1>4, <1>a DEF Rotated, RowHeld
  <2>. QED BY <1>4, <1>1, <2>1 DEF Rotated, Away
<1>5. ASSUME NEW b \in Returns, Decide(b) \/ ReturnFails(b) \/ \E e \in Drafts : Return(b, e)
      PROVE  LockedOut(d)'
  BY <1>5, <1>1 DEF Decide, ReturnFails, Return
<1>6. CASE Later \/ UNCHANGED accessVars
  BY <1>6, <1>1 DEF Later, accessVars
<1>. QED BY <1>2, <1>3, <1>4, <1>5, <1>6, <1>7 DEF AccessNext

LEMMA AbandonedStep ==
    ASSUME AccessInv, AccessInv', [AccessNext]_accessVars, NEW d \in Drafts, Abandoned(d)
    PROVE  Abandoned(d)' /\ payment'[d].no = payment[d].no
<1> USE DEF AccessInv, AccessTypeOK
<1>a. /\ payment[d].status = "PENDING" /\ moment >= payment[d].expires
      /\ \A b \in Returns : back[b] # [draft |-> d, no |-> payment[d].no]
  BY DEF Abandoned
<1>1. /\ \A b \in Returns : back'[b] = back[b] \/ back'[b].draft # d
      /\ payment'[d] = payment[d]
      /\ moment' >= moment
      => Abandoned(d)' /\ payment'[d].no = payment[d].no
  BY <1>a DEF Abandoned, Payment
<1>2. ASSUME NEW v \in Visits,
             \/ Read(v) \/ Deny(v) \/ Patched(v) \/ VisitFails(v) \/ Signed(v) \/ Authorize(v) \/ Rotated(v)
             \/ \E wants \in {"read", "patch", "rotate", "pay"}, e \in Drafts, t \in 1..MaxTokens :
                   Come(v, wants, e, t)
      PROVE  Abandoned(d)' /\ payment'[d].no = payment[d].no
  <2>1. UNCHANGED <<payment, back, moment>>
    BY <1>2 DEF Read, Deny, Patched, VisitFails, Signed, Authorize, Rotated, Come
  <2>. QED BY <2>1, <1>1
<1>3. ASSUME NEW v \in Visits, Opened(v) PROVE Abandoned(d)' /\ payment'[d].no = payment[d].no
  <2>1. visit[v].draft # d
    BY <1>3, <1>a DEF Opened, SignedIsUnpaid
  <2>. QED BY <1>3, <1>1, <2>1 DEF Opened
<1>4. ASSUME NEW b \in Returns, NEW e \in Drafts, Return(b, e)
      PROVE  Abandoned(d)' /\ payment'[d].no = payment[d].no
  <2>1. e # d
    BY <1>4, <1>a DEF Return, Payment
  <2>. QED BY <1>4, <1>1, <2>1 DEF Return
<1>5. ASSUME NEW b \in Returns, Decide(b) PROVE Abandoned(d)' /\ payment'[d].no = payment[d].no
  <2>1. Abroad.draft # d
    BY AccessAssumption DEF Abroad
  <2>2. \A c \in Returns : back'[c] = back[c] \/ back'[c].draft # d
    BY <1>5, <2>1 DEF Decide
  <2>3. payment'[d] = payment[d]
    <3>1. CASE back[b].draft # d
      BY <1>5, <3>1 DEF Decide
    <3>2. CASE back[b].draft = d
      <4>1. payment[d].no # back[b].no
        BY <3>2, <1>a
      <4>2. payment'[d] = [payment[d] EXCEPT !.status = payment[d].status]
        BY <1>5, <3>2, <4>1 DEF Decide
      <4>. QED BY <4>2 DEF Payment
    <3>. QED BY <3>1, <3>2
  <2>. QED BY <1>5, <1>1, <2>2, <2>3 DEF Decide
<1>6. ASSUME NEW b \in Returns, ReturnFails(b) PROVE Abandoned(d)' /\ payment'[d].no = payment[d].no
  <2>1. Abroad.draft # d
    BY AccessAssumption DEF Abroad
  <2>. QED BY <1>6, <1>1, <2>1 DEF ReturnFails
<1>7. CASE Later \/ UNCHANGED accessVars
  BY <1>7, <1>1 DEF Later, accessVars
<1>. QED BY <1>2, <1>3, <1>4, <1>5, <1>6, <1>7 DEF AccessNext

(* An expired draft token admits nobody again, and a payment whose link    *)
(* has expired keeps its registration from another payment, for any number *)
(* of requests and callbacks and any terms.                                *)
THEOREM ExpiryFinal == AccessSpec => ExpiryIsFinal
<1>1. AccessInv /\ AccessInv' /\ [AccessNext]_accessVars
         => [\A d \in Drafts : LockedOut(d) => LockedOut(d)']_accessVars
  BY ExpiredStep
<1>2. AccessInv /\ AccessInv' /\ [AccessNext]_accessVars
         => [\A d \in Drafts : Abandoned(d) => Abandoned(d)' /\ payment'[d].no = payment[d].no]_accessVars
  BY AbandonedStep
<1>. QED BY <1>1, <1>2, AccessInvariance, PTL
            DEF AccessSpec, ExpiryIsFinal, ExpiredStaysExpired, AbandonedStaysPending

-----------------------------------------------------------------------------
(* Uploads.                                                                *)

Call == [at : {"start", "locked", "inspected"}, asset : Assets \cup {NoAsset},
         owner : Owners \cup {NoOwner}]

CallsTyped == call \in [Completions -> Call]

\* FOR UPDATE: a call that is under way has its asset for itself, still PENDING.
OneInspects ==
    \A q \in Completions : call[q].at # "start" =>
        /\ call[q].asset \in Assets /\ assets[call[q].asset].status = "PENDING"
        /\ \A s \in Completions : call[s].at # "start" /\ call[s].asset = call[q].asset => s = q

\* Only a declared asset has a form, and only its form fills its key.
ObjectsAsAgreed ==
    \A a \in Assets :
        /\ assets[a].status \in {"NONE", "PENDING", "READY"}
        /\ assets[a].status = "NONE" => assets[a] = Unused
        /\ assets[a].status # "NONE" => assets[a].as \in Declared
        /\ object[a] # NoFile =>
              /\ assets[a].status # "NONE"
              /\ object[a].type = assets[a].as.type
              /\ object[a].size \in 1..MaxBytes

Matched(a) == object[a] # NoFile /\ (a \notin touched => object[a] = assets[a].as)

\* What an inspection has seen is there, or was replaced since.
InspectionsHold ==
    /\ \A q \in Completions : call[q].at = "inspected" => Matched(call[q].asset)
    /\ \A a \in Assets : assets[a].status = "READY" => Matched(a)

MediaInv == MediaTypeOK /\ CallsTyped /\ OneInspects /\ ObjectsAsAgreed /\ InspectionsHold
               /\ PortraitsStayPrivate

LEMMA MediaBegins == MediaInit => MediaInv
<1> SUFFICES ASSUME MediaInit PROVE MediaInv
  OBVIOUS
<1> USE MediaAssumption DEF MediaInit, Unused
<1>1. MediaTypeOK
  BY DEF MediaTypeOK, Media, Standing
<1>2. CallsTyped /\ OneInspects
  BY DEF CallsTyped, Call, OneInspects, Waiting
<1>3. ObjectsAsAgreed /\ InspectionsHold /\ PortraitsStayPrivate
  BY DEF ObjectsAsAgreed, InspectionsHold, Waiting, PortraitsStayPrivate
<1>. QED BY <1>1, <1>2, <1>3 DEF MediaInv

LEMMA NoFileIsEmpty == NoFile.size = 0
BY DEF NoFile

LEMMA NoFileIsNoFile == NoFile \notin Declared /\ Unused \in Media /\ Waiting \in Call
BY MediaAssumption DEF NoFile, Declared, Unused, Media, Waiting, Call

-----------------------------------------------------------------------------
(* Declarations and uploads.                                               *)

LEMMA DeclareKeeps ==
    ASSUME MediaInv, NEW a \in Assets, NEW as \in Declared, NEW v \in {"PUBLIC", "PRIVATE"},
           Declare(a, as, v), UNCHANGED <<object, touched, standing, call, tick>>,
           \/ portrait' = portrait
           \/ v = "PRIVATE" /\ \E r \in Owners : portrait' = [portrait EXCEPT ![r] = a]
    PROVE  MediaInv'
<1> USE DEF MediaInv, MediaTypeOK
<1> DEFINE new == [Unused EXCEPT !.status = "PENDING", !.visibility = v, !.as = as,
                                 !.expires = tick + FormTTL]
<1>1. /\ assets' = [assets EXCEPT ![a] = new] /\ assets[a] = Unused
      /\ new.status = "PENDING" /\ new.as = as /\ new.visibility = v /\ new \in Media
  <2>1. assets' = [assets EXCEPT ![a] = new] /\ assets[a] = Unused
    BY DEF Declare
  <2>2. new.status = "PENDING" /\ new.as = as /\ new.visibility = v
    BY DEF Unused
  <2>3. tick + FormTTL \in 0..LastTick + FormTTL
    BY MediaAssumption
  <2>4. new \in Media
    BY <2>3 DEF Unused, Media
  <2>. QED BY <2>1, <2>2, <2>4
<1>2. assets[a].status = "NONE" /\ object[a] = NoFile
  BY <1>1 DEF Unused, ObjectsAsAgreed
<1>3. \A r \in Owners : portrait[r] # a
  BY <1>2, MediaAssumption
<1>4. \A b \in Assets \ {a} : assets'[b] = assets[b]
  BY <1>1
<1>5. assets'[a] = new
  BY <1>1
<1>6. portrait' \in [Owners -> Assets \cup {NoAsset}]
  OBVIOUS
<1>7. assets' \in [Assets -> Media]
  BY <1>1
<1>8. \A r \in Owners : portrait'[r] # NoAsset => assets'[portrait'[r]].status # "NONE"
  <2> SUFFICES ASSUME NEW r \in Owners, portrait'[r] # NoAsset
               PROVE  assets'[portrait'[r]].status # "NONE"
    OBVIOUS
  <2>1. CASE portrait'[r] = a
    BY <2>1, <1>5, <1>1
  <2>2. CASE portrait'[r] # a
    <3>1. portrait'[r] = portrait[r]
      BY <2>2
    <3>. QED BY <3>1, <2>2, <1>4
  <2>. QED BY <2>1, <2>2
<1>9. MediaTypeOK'
  BY <1>6, <1>7, <1>8
<1>10. CallsTyped' /\ OneInspects'
  <2>1. \A q \in Completions : call[q].at # "start" => call[q].asset # a
    BY <1>2 DEF OneInspects
  <2>. QED BY <2>1, <1>4 DEF CallsTyped, OneInspects
<1>11. ObjectsAsAgreed'
  BY <1>1, <1>2, <1>4, <1>5 DEF ObjectsAsAgreed
<1>12. InspectionsHold'
  <2>1. \A q \in Completions : call[q].at = "inspected" => call[q].asset \in Assets \ {a}
    BY <1>2 DEF OneInspects
  <2>2. \A b \in Assets \ {a} : Matched(b) => Matched(b)'
    BY <1>4 DEF Matched
  <2>. QED BY <2>1, <2>2, <1>1, <1>4, <1>5 DEF InspectionsHold
<1>13. PortraitsStayPrivate'
  <2>1. ASSUME NEW r \in Owners, portrait'[r] # NoAsset
        PROVE  assets'[portrait'[r]].visibility = "PRIVATE"
    <3>1. CASE portrait'[r] = portrait[r]
      BY <2>1, <3>1, <1>3, <1>4 DEF PortraitsStayPrivate
    <3>2. CASE portrait'[r] # portrait[r]
      <4>1. portrait'[r] = a /\ v = "PRIVATE"
        BY <3>2
      <4>. QED BY <4>1, <1>5, <1>1
    <3>. QED BY <3>1, <3>2
  <2>2. \A r \in Owners : standing'[r] = "SUBMITTED" => portrait'[r] # NoAsset
    BY MediaAssumption DEF PortraitsStayPrivate
  <2>. QED BY <2>1, <2>2 DEF PortraitsStayPrivate
<1>. QED BY <1>9, <1>10, <1>11, <1>12, <1>13

LEMMA SendKeeps ==
    ASSUME MediaInv, NEW a \in Assets, NEW file \in File, Send(a, file)
    PROVE  MediaInv'
<1> USE DEF MediaInv, MediaTypeOK, Send
<1>1. /\ tick < assets[a].expires /\ file.type = assets[a].as.type /\ file.size <= MaxBytes
      /\ file.size \in 1..MaxBytes
  BY MediaAssumption DEF Accepts, File
<1>2. assets[a].status # "NONE"
  BY <1>1, MediaAssumption DEF ObjectsAsAgreed, Unused
<1>3. file # NoFile
  BY <1>1, NoFileIsEmpty, MediaAssumption
<1>4. MediaTypeOK' /\ CallsTyped' /\ OneInspects' /\ PortraitsStayPrivate'
  BY DEF CallsTyped, OneInspects, PortraitsStayPrivate
<1>5. ObjectsAsAgreed'
  BY <1>1, <1>2 DEF ObjectsAsAgreed
<1>6. InspectionsHold'
  <2>1. \A b \in Assets : Matched(b) => Matched(b)'
    BY <1>3 DEF Matched
  <2>. QED BY <2>1 DEF InspectionsHold, OneInspects
<1>. QED BY <1>4, <1>5, <1>6

-----------------------------------------------------------------------------
(* Completions.                                                            *)

\* A call that is given up.
LEMMA ReturnKeeps ==
    ASSUME MediaInv, NEW q \in Completions, call' = [call EXCEPT ![q] = Waiting],
           UNCHANGED <<assets, object, touched, portrait, standing, tick>>
    PROVE  MediaInv'
<1> USE DEF MediaInv
<1>1. MediaTypeOK' /\ ObjectsAsAgreed' /\ PortraitsStayPrivate'
  BY DEF MediaTypeOK, ObjectsAsAgreed, PortraitsStayPrivate
<1>2. CallsTyped' /\ call'[q].at = "start" /\ \A s \in Completions \ {q} : call'[s] = call[s]
  BY NoFileIsNoFile DEF CallsTyped, Waiting
<1>3. OneInspects'
  BY <1>2 DEF OneInspects
<1>4. InspectionsHold'
  BY <1>2 DEF InspectionsHold, Matched
<1>. QED BY <1>1, <1>2, <1>3, <1>4

LEMMA BeginKeeps ==
    ASSUME MediaInv, NEW q \in Completions, NEW a \in Assets, NEW r \in Owners \cup {NoOwner},
           CompleteBegin(q, a, r)
    PROVE  MediaInv'
<1> USE DEF MediaInv, CompleteBegin
<1> DEFINE locked == [at |-> "locked", asset |-> a, owner |-> r]
<1>1. MediaTypeOK' /\ ObjectsAsAgreed' /\ PortraitsStayPrivate'
  BY DEF MediaTypeOK, ObjectsAsAgreed, PortraitsStayPrivate
<1>2. CallsTyped' /\ call'[q] = locked /\ \A s \in Completions \ {q} : call'[s] = call[s]
  BY DEF CallsTyped, Call
<1>3. OneInspects'
  <2>1. \A s \in Completions : call[s].at # "start" => call[s].asset # a
    BY DEF Inspecting
  <2>2. assets[a].status = "PENDING"
    BY DEF ObjectsAsAgreed
  <2>. QED BY <1>2, <2>1, <2>2 DEF OneInspects
<1>4. InspectionsHold'
  BY <1>2 DEF InspectionsHold, Matched
<1>. QED BY <1>1, <1>2, <1>3, <1>4

LEMMA MatchKeeps ==
    ASSUME MediaInv, NEW q \in Completions, InspectMatches(q)
    PROVE  MediaInv'
<1> USE DEF MediaInv, InspectMatches
<1> DEFINE a == call[q].asset
<1>1. MediaTypeOK' /\ ObjectsAsAgreed' /\ PortraitsStayPrivate'
  BY DEF MediaTypeOK, ObjectsAsAgreed, PortraitsStayPrivate
<1>2. /\ call'[q].at = "inspected" /\ call'[q].asset = a /\ call'[q].owner = call[q].owner
      /\ \A s \in Completions \ {q} : call'[s] = call[s]
  BY DEF CallsTyped, Call
<1>3. CallsTyped'
  BY DEF CallsTyped, Call
<1>4. OneInspects'
  BY <1>2 DEF OneInspects
<1>5. a \in Assets /\ object[a] = assets[a].as /\ object[a] # NoFile /\ touched' = touched \ {a}
  BY NoFileIsNoFile DEF OneInspects, ObjectsAsAgreed
<1>6. Matched(a)' /\ \A b \in Assets : Matched(b) => Matched(b)'
  BY <1>5 DEF Matched
<1>7. InspectionsHold'
  BY <1>2, <1>6 DEF InspectionsHold, OneInspects
<1>. QED BY <1>1, <1>3, <1>4, <1>7

LEMMA CommitKeeps ==
    ASSUME MediaInv, NEW q \in Completions, CompleteCommit(q)
    PROVE  MediaInv'
<1> USE DEF MediaInv
<1>u. call' = [call EXCEPT ![q] = Waiting] /\ UNCHANGED <<object, touched, portrait, standing, tick>>
  BY DEF CompleteCommit
<1> DEFINE a == call[q].asset
<1>1. a \in Assets /\ assets[a].status = "PENDING" /\ Matched(a)
  BY DEF OneInspects, InspectionsHold, CompleteCommit
<1> DEFINE ready == [assets[a] EXCEPT !.status = "READY", !.digest = q]
<1>2. assets' = [assets EXCEPT ![a] = ready]
  BY DEF CompleteCommit
<1>3. /\ ready \in Media /\ ready.status = "READY" /\ ready.as = assets[a].as
      /\ ready.visibility = assets[a].visibility
  <2>1. assets[a] \in Media
    BY <1>1 DEF MediaTypeOK
  <2>. QED BY <2>1 DEF Media
<1>4. assets'[a] = ready /\ \A b \in Assets \ {a} : assets'[b] = assets[b]
  BY <1>1, <1>2 DEF MediaTypeOK
<1>5. MediaTypeOK'
  <2>1. assets' \in [Assets -> Media]
    BY <1>2, <1>3 DEF MediaTypeOK
  <2>2. \A b \in Assets : assets'[b].status # "NONE" <=> assets[b].status # "NONE"
    BY <1>1, <1>3, <1>4
  <2>. QED BY <1>u, <2>1, <2>2 DEF MediaTypeOK
<1>6. PortraitsStayPrivate'
  <2>1. \A b \in Assets : assets'[b].visibility = assets[b].visibility
    BY <1>3, <1>4
  <2>. QED BY <1>u, <2>1 DEF PortraitsStayPrivate, MediaTypeOK
<1>7. ObjectsAsAgreed'
  <2>1. \A b \in Assets : /\ assets'[b].as = assets[b].as /\ object'[b] = object[b]
                          /\ assets'[b] = assets[b] \/ (b = a /\ assets'[b].status = "READY")
    BY <1>u, <1>3, <1>4
  <2>. QED BY <1>1, <2>1 DEF ObjectsAsAgreed
<1>8. CallsTyped' /\ call'[q].at = "start" /\ \A s \in Completions \ {q} : call'[s] = call[s]
  BY <1>u, NoFileIsNoFile DEF CallsTyped, Waiting
<1>9. OneInspects'
  <2>1. \A s \in Completions \ {q} : call[s].at # "start" => call[s].asset # a
    BY DEF OneInspects, CompleteCommit
  <2>0. \A s \in Completions : call[s].at # "start" => call[s].asset \in Assets
    BY DEF OneInspects
  <2>2. \A s \in Completions \ {q} : call[s].at # "start" =>
           call[s].asset \in Assets \ {a}
    <3> HIDE DEF a
    <3>. QED BY <2>0, <2>1
  <2>3. \A s \in Completions \ {q} : call[s].at # "start" =>
           assets'[call[s].asset] = assets[call[s].asset]
    BY <2>2, <1>4
  <2>. QED BY <1>8, <2>2, <2>3 DEF OneInspects
<1>10. InspectionsHold'
  <2>1. \A b \in Assets : Matched(b) => Matched(b)'
    BY <1>u, <1>3, <1>4 DEF Matched
  <2>2. \A s \in Completions : call'[s].at = "inspected" => call[s].at = "inspected" /\ call'[s] = call[s]
    BY <1>8
  <2>3. \A b \in Assets : assets'[b].status = "READY" => assets[b].status = "READY" \/ b = a
    BY <1>4
  <2>. QED BY <1>1, <2>1, <2>2, <2>3 DEF InspectionsHold, OneInspects
<1>. QED BY <1>5, <1>6, <1>7, <1>8, <1>9, <1>10

-----------------------------------------------------------------------------

LEMMA MediaStep == MediaInv /\ [MediaNext]_mediaVars => MediaInv'
<1> SUFFICES ASSUME MediaInv, [MediaNext]_mediaVars PROVE MediaInv'
  OBVIOUS
<1>1. ASSUME NEW a \in Assets, NEW as \in Declared, NEW v \in {"PUBLIC", "PRIVATE"},
             InitiateUpload(a, as, v)
      PROVE  MediaInv'
  BY <1>1, DeclareKeeps DEF InitiateUpload
<1>2. ASSUME NEW a \in Assets, NEW as \in Declared, NEW r \in Owners, InitiatePortrait(r, a, as)
      PROVE  MediaInv'
  <2>1. Declare(a, as, "PRIVATE") /\ UNCHANGED <<object, touched, standing, call, tick>>
        /\ portrait' = [portrait EXCEPT ![r] = a]
    BY <1>2 DEF InitiatePortrait
  <2>. QED BY <2>1, DeclareKeeps
<1>3. ASSUME NEW a \in Assets, NEW file \in File, Send(a, file) PROVE MediaInv'
  BY <1>3, SendKeeps
<1>4. ASSUME NEW q \in Completions, NEW a \in Assets, NEW r \in Owners \cup {NoOwner},
             CompleteBegin(q, a, r)
      PROVE  MediaInv'
  BY <1>4, BeginKeeps
<1>5. ASSUME NEW q \in Completions, InspectMatches(q) PROVE MediaInv'
  BY <1>5, MatchKeeps
<1>6. ASSUME NEW q \in Completions, InspectDiffers(q) \/ CompleteFails(q) PROVE MediaInv'
  BY <1>6, ReturnKeeps DEF InspectDiffers, CompleteFails
<1>7. ASSUME NEW q \in Completions, CompleteCommit(q) PROVE MediaInv'
  BY <1>7, CommitKeeps
<1>8. ASSUME NEW r \in Owners,
             \/ SubmitPortrait(r) \/ VerifyReopens(r) \/ AdminCancels(r) \/ AdminRestores(r)
             \/ PaymentDecides(r)
      PROVE  MediaInv'
  <2>1. PICK s \in Standing : Stands(r, s) /\ (s = "SUBMITTED" => portrait[r] # NoAsset)
    BY <1>8 DEF SubmitPortrait, VerifyReopens, AdminCancels, AdminRestores, PaymentDecides, Standing
  <2>2. /\ UNCHANGED <<assets, object, touched, portrait, call, tick>>
        /\ standing' \in [Owners -> Standing] /\ standing'[r] = s
        /\ \A q \in Owners \ {r} : standing'[q] = standing[q]
    BY <2>1 DEF Stands, MediaInv, MediaTypeOK
  <2>. QED
    BY <2>1, <2>2 DEF MediaInv, MediaTypeOK, CallsTyped, OneInspects, ObjectsAsAgreed,
                      InspectionsHold, Matched, PortraitsStayPrivate
<1>9. ASSUME NEW r \in Owners, NEW a \in Assets \cup {NoAsset}, PatchPortrait(r, a) PROVE MediaInv'
  <2>1. CallsTyped' /\ OneInspects' /\ ObjectsAsAgreed' /\ InspectionsHold'
    BY <1>9 DEF PatchPortrait, MediaInv, CallsTyped, OneInspects, ObjectsAsAgreed, InspectionsHold, Matched
  <2>2. \A s \in Owners : portrait'[s] = portrait[s] \/ (s = r /\ portrait'[s] = a)
    BY <1>9 DEF PatchPortrait, MediaInv, MediaTypeOK
  <2>3. MediaTypeOK'
    BY <1>9 DEF PatchPortrait, MediaInv, MediaTypeOK
  <2>4. PortraitsStayPrivate'
    BY <1>9, <2>2 DEF PatchPortrait, MediaInv, MediaTypeOK, PortraitsStayPrivate
  <2>. QED BY <2>1, <2>3, <2>4 DEF MediaInv
<1>10. ASSUME UNCHANGED <<assets, object, touched, portrait, standing, call>>, tick' \in 0..LastTick
       PROVE  MediaInv'
  BY <1>10 DEF MediaInv, MediaTypeOK, CallsTyped, OneInspects, ObjectsAsAgreed, InspectionsHold,
               Matched, PortraitsStayPrivate
<1>11. CASE Elapse
  BY <1>11, <1>10, MediaAssumption DEF Elapse, MediaInv, MediaTypeOK
<1>12. CASE UNCHANGED mediaVars
  BY <1>12, <1>10 DEF mediaVars, MediaInv, MediaTypeOK
<1>. QED BY <1>1, <1>2, <1>3, <1>4, <1>5, <1>6, <1>7, <1>8, <1>9, <1>11, <1>12 DEF MediaNext

(* What rows, objects and completions satisfy between any two steps.       *)
THEOREM MediaInvariance == MediaSpec => []MediaInv
BY MediaBegins, MediaStep, PTL DEF MediaSpec

(* For any number of overlapping completions and repeated uploads, what a  *)
(* completed row says is true of its object and stays said, and profile    *)
(* images stay private.                                                    *)
THEOREM MediaCorrect == MediaSpec => []MediaTruthful
<1>1. MediaInv => MediaTruthful
  <2> SUFFICES ASSUME MediaInv PROVE MediaTruthful
    OBVIOUS
  <2>1. Settled
    BY DEF MediaInv, OneInspects, ObjectsAsAgreed, Settled, Inspecting
  <2>2. ServedAsDeclared
    BY DEF MediaInv, ObjectsAsAgreed, InspectionsHold, Matched, ServedAsDeclared
  <2>. QED BY <2>1, <2>2 DEF MediaInv, MediaTruthful
<1>. QED BY <1>1, MediaInvariance, PTL

-----------------------------------------------------------------------------
(* OtpCodes.                                                               *)

Asked(c) == code[c].state \in {"WAITING", "SENDING"}

(* A request that asks for a code holds the row of its registration: the   *)
(* number it will send to is the registration's.                           *)
HoldsRow ==
    \A c \in Codes : Asked(c) =>
        /\ code[c].reg \in Regs /\ code[c].phone = reg[code[c].reg].phone
        /\ code[c].tries = 0 /\ code[c].wrong = 0
        /\ \A d \in Codes : Asked(d) /\ code[d].reg = code[c].reg => d = c

(* What an admitted request has counted stays true until it commits: the   *)
(* tenant's lock keeps all others from committing.                         *)
AdmissionHolds ==
    \A c \in Codes : code[c].state = "SENDING" =>
        /\ BelowLimits(c) /\ Cooled(c)
        /\ \A d \in Codes : code[d].state = "SENDING" => d = c

\* Each wrong answer has been counted, and a code that may be tried has room.
CountedCodes ==
    \A c \in Codes :
        /\ code[c].wrong <= code[c].tries /\ code[c].tries <= MaxTries
        /\ code[c].state = "LIVE" => code[c].tries < MaxTries

OtpInv == /\ TypeOK /\ HoldsRow /\ AdmissionHolds /\ CountedCodes
          /\ QuotasKept /\ OneLiveCode /\ VerifiedIsCurrent

-----------------------------------------------------------------------------
(* Counting.                                                               *)

LEMMA PolicyTypes ==
    /\ MaxTries \in Nat /\ MaxTries > 0
    /\ PhoneLimit \in Nat /\ PhoneLimit > 0 /\ AddressLimit \in Nat /\ AddressLimit > 0
    /\ TenantLimit \in Nat /\ TenantLimit > 0 /\ Hour \in Nat /\ Minute \in Nat
    /\ Cooldown \in Nat /\ MaxTime \in Nat /\ TTL \in Nat
BY PolicyAssumption

\* The rows others can see, and what the limits look at, stay.
RowsStay ==
    /\ Stored' = Stored
    /\ \A d \in Stored : /\ code'[d].reg = code[d].reg /\ code'[d].phone = code[d].phone
                         /\ code'[d].address = code[d].address
                         /\ code'[d].created = code[d].created

LEMMA CountsStay ==
    ASSUME RowsStay
    PROVE  /\ \A r : Of(r)' = Of(r)
           /\ \A x : /\ Since(Stored, x)' = Since(Stored, x)
                     /\ \A p : Since(ToPhone(p), x)' = Since(ToPhone(p), x)
                     /\ \A ip : Since(FromAddress(ip), x)' = Since(FromAddress(ip), x)
           /\ \A x, y : /\ Window(Stored, x, y)' = Window(Stored, x, y)
                        /\ \A p : Window(ToPhone(p), x, y)' = Window(ToPhone(p), x, y)
                        /\ \A ip : Window(FromAddress(ip), x, y)' = Window(FromAddress(ip), x, y)
BY DEF RowsStay, Of, Since, ToPhone, FromAddress, Window

LEMMA QuotasStay == QuotasKept /\ RowsStay => QuotasKept'
<1> SUFFICES ASSUME QuotasKept, RowsStay PROVE QuotasKept'
  OBVIOUS
<1>1. \A r \in Regs : \A c \in Of(r) : code'[c].created = code[c].created
  BY DEF RowsStay, Of
<1>2. ASSUME NEW t \in 0..MaxTime
      PROVE  /\ \A p \in Phones : Cardinality(Window(ToPhone(p), t - Hour, t))' <= PhoneLimit
             /\ \A ip \in Addresses :
                   Cardinality(Window(FromAddress(ip), t - Hour, t))' <= AddressLimit
             /\ Cardinality(Window(Stored, t - Minute, t))' <= TenantLimit
  <2>1. /\ \A p : Window(ToPhone(p), t - Hour, t)' = Window(ToPhone(p), t - Hour, t)
        /\ \A ip : Window(FromAddress(ip), t - Hour, t)' = Window(FromAddress(ip), t - Hour, t)
        /\ Window(Stored, t - Minute, t)' = Window(Stored, t - Minute, t)
    BY CountsStay
  <2>. QED BY <2>1 DEF QuotasKept
<1>3. \A r \in Regs : \A c, d \in Of(r)' : c # d =>
         \/ code'[c].created + Cooldown <= code'[d].created
         \/ code'[d].created + Cooldown <= code'[c].created
  BY <1>1, CountsStay DEF QuotasKept
<1>. QED BY <1>2, <1>3 DEF QuotasKept

\* A window that holds the new code holds nothing its request has not counted.
LEMMA WindowCounted ==
    ASSUME NEW S, NEW T, NEW W, NEW c, NEW limit \in Nat, IsFiniteSet(S),
           Cardinality(S) < limit, W \subseteq S \cup {c}
    PROVE  Cardinality(W) <= limit
<1>1. IsFiniteSet(S \cup {c}) /\ Cardinality(S \cup {c}) <= Cardinality(S) + 1
  <2>1. Cardinality(S) \in Nat
    BY FS_CardinalityType
  <2>2. /\ IsFiniteSet(S \cup {c})
        /\ Cardinality(S \cup {c}) = IF c \in S THEN Cardinality(S) ELSE Cardinality(S) + 1
    BY FS_AddElement
  <2>. QED BY <2>1, <2>2
<1>2. Cardinality(W) <= Cardinality(S \cup {c})
  BY <1>1, FS_Subset
<1>3. Cardinality(S) \in Nat /\ Cardinality(S \cup {c}) \in Nat /\ Cardinality(W) \in Nat
  BY <1>1, FS_CardinalityType, FS_Subset
<1>. QED BY <1>1, <1>2, <1>3

LEMMA OtpBegins == Init => OtpInv
<1> SUFFICES ASSUME Init PROVE OtpInv
  OBVIOUS
<1> USE IdentitiesAssumption, PolicyTypes DEF Init, NoCode
<1>1. TypeOK
  <2>1. NoCode \in Challenge
    BY DEF NoCode, Challenge
  <2>2. reg \in [Regs -> Registration]
    BY DEF Registration
  <2>. QED BY <2>1, <2>2 DEF TypeOK
<1>2. Stored = {} /\ \A c \in Codes : code[c].state = "NONE"
  BY DEF Stored
<1>3. HoldsRow /\ AdmissionHolds /\ CountedCodes
  BY <1>2 DEF HoldsRow, AdmissionHolds, CountedCodes, Asked
<1>4. OneLiveCode /\ VerifiedIsCurrent
  BY <1>2 DEF OneLiveCode, VerifiedIsCurrent, Of
<1>5. QuotasKept
  <2>1. \A x, y : /\ Window(Stored, x, y) = {}
                  /\ \A p : Window(ToPhone(p), x, y) = {}
                  /\ \A ip : Window(FromAddress(ip), x, y) = {}
    BY <1>2 DEF Window, ToPhone, FromAddress
  <2>2. \A r \in Regs : Of(r) = {}
    BY <1>2 DEF Of
  <2>3. Cardinality({}) = 0
    BY FS_EmptySet
  <2>4. ASSUME NEW t \in 0..MaxTime
        PROVE  /\ \A p \in Phones : Cardinality(Window(ToPhone(p), t - Hour, t)) <= PhoneLimit
               /\ \A ip \in Addresses :
                     Cardinality(Window(FromAddress(ip), t - Hour, t)) <= AddressLimit
               /\ Cardinality(Window(Stored, t - Minute, t)) <= TenantLimit
    <3>1. /\ \A p : Window(ToPhone(p), t - Hour, t) = {}
          /\ \A ip : Window(FromAddress(ip), t - Hour, t) = {}
          /\ Window(Stored, t - Minute, t) = {}
      BY <2>1
    <3>2. 0 <= PhoneLimit /\ 0 <= AddressLimit /\ 0 <= TenantLimit
      OBVIOUS
    <3>3. \A p : Cardinality(Window(ToPhone(p), t - Hour, t)) = 0
      BY <2>3, <3>1, Zenon
    <3>4. \A ip : Cardinality(Window(FromAddress(ip), t - Hour, t)) = 0
      BY <2>3, <3>1, Zenon
    <3>5. Cardinality(Window(Stored, t - Minute, t)) = 0
      BY <2>3, <3>1, Zenon
    <3> HIDE DEF Init
    <3>. QED BY <3>2, <3>3, <3>4, <3>5
  <2>. QED BY <2>2, <2>4 DEF QuotasKept
<1>. QED BY <1>1, <1>3, <1>4, <1>5 DEF OtpInv

-----------------------------------------------------------------------------
(* Requests for a code, up to the commit.                                  *)

(* A code that is not stored moves to another such state: all the          *)
(* properties look at stored codes.                                        *)
LEMMA HiddenKeeps ==
    ASSUME OtpInv, NEW c \in Codes, NEW new \in Challenge,
           c \notin Stored, new.state \notin {"LIVE", "INVALID", "CONSUMED"},
           code' = [code EXCEPT ![c] = new], UNCHANGED <<clock, reg>>,
           new.wrong <= new.tries, new.tries <= MaxTries
    PROVE  TypeOK' /\ RowsStay /\ CountedCodes' /\ QuotasKept' /\ OneLiveCode' /\ VerifiedIsCurrent'
<1> USE DEF OtpInv
<1>0. code'[c] = new /\ \A d \in Codes \ {c} : code'[d] = code[d]
  BY DEF TypeOK
<1>1. TypeOK'
  BY DEF TypeOK
<1>2. RowsStay
  BY <1>0 DEF RowsStay, Stored
<1>3. CountedCodes'
  BY <1>0 DEF CountedCodes
<1>4. QuotasKept'
  BY <1>2, QuotasStay
<1>5. \A r : \A d \in Of(r) : d \in Codes \ {c}
  BY DEF Of, Stored
<1>6. OneLiveCode' /\ VerifiedIsCurrent'
  BY <1>0, <1>2, <1>5, CountsStay DEF OneLiveCode, VerifiedIsCurrent
<1>. QED BY <1>1, <1>2, <1>3, <1>4, <1>6

LEMMA CooledStays ==
    ASSUME RowsStay, NEW c \in Codes, Cooled(c),
           code'[c].reg = code[c].reg, code'[c].created = code[c].created
    PROVE  Cooled(c)'
BY DEF RowsStay, Cooled, Of

LEMMA AdmissionStays ==
    ASSUME AdmissionHolds, RowsStay,
           \A d \in Codes : code'[d].state = "SENDING" => code'[d] = code[d]
    PROVE  AdmissionHolds'
<1>1. ASSUME NEW d \in Codes, code'[d].state = "SENDING"
      PROVE  BelowLimits(d)' /\ Cooled(d)' /\ \A e \in Codes : code'[e].state = "SENDING" => e = d
  <2>1. code'[d] = code[d] /\ code[d].state = "SENDING"
    BY <1>1
  <2>2. BelowLimits(d) /\ Cooled(d)
    BY <2>1 DEF AdmissionHolds
  <2>3. BelowLimits(d)'
    BY <2>1, <2>2, CountsStay DEF BelowLimits
  <2>4. Cooled(d)'
    BY <2>1, <2>2, CooledStays
  <2>. QED BY <2>1, <2>3, <2>4 DEF AdmissionHolds
<1>. QED BY <1>1 DEF AdmissionHolds

LEMMA BeginKeepsQuotas ==
    ASSUME OtpInv, NEW c \in Codes, NEW r \in Regs, NEW ip \in Addresses, SendBegin(c, r, ip)
    PROVE  OtpInv'
<1> DEFINE new == [state |-> "WAITING", reg |-> r, phone |-> reg[r].phone,
                   address |-> ip, created |-> clock, tries |-> 0, wrong |-> 0]
<1>1. new \in Challenge /\ new.state = "WAITING" /\ new.reg = r /\ new.phone = reg[r].phone
         /\ new.tries = 0 /\ new.wrong = 0
  BY DEF OtpInv, TypeOK, Challenge, Registration
<1>2. code' = [code EXCEPT ![c] = new] /\ UNCHANGED <<clock, reg>>
         /\ code[c].state = "NONE" /\ ~RowLocked(r)
  BY DEF SendBegin
<1> HIDE DEF new
<1>3. TypeOK' /\ RowsStay /\ CountedCodes' /\ QuotasKept' /\ OneLiveCode' /\ VerifiedIsCurrent'
  <2>1. c \notin Stored /\ new.state \notin {"LIVE", "INVALID", "CONSUMED"}
           /\ new.wrong <= new.tries /\ new.tries <= MaxTries
    BY <1>1, <1>2, PolicyTypes DEF Stored
  <2>. QED BY <1>1, <1>2, <2>1, HiddenKeeps
<1>4. code'[c] = new /\ \A d \in Codes \ {c} : code'[d] = code[d]
  BY <1>2 DEF OtpInv, TypeOK
<1>5. AdmissionHolds'
  BY <1>1, <1>3, <1>4, AdmissionStays DEF OtpInv
<1>6. HoldsRow'
  <2>1. \A d \in Codes : Asked(d) => code[d].reg # r
    BY <1>2 DEF RowLocked, Asked
  <2>. QED BY <1>1, <1>2, <1>4, <2>1 DEF OtpInv, HoldsRow, Asked
<1>. QED BY <1>3, <1>5, <1>6 DEF OtpInv

LEMMA AdmittedKeeps ==
    ASSUME OtpInv, NEW c \in Codes, SendAdmitted(c)
    PROVE  OtpInv'
<1> DEFINE new == [code[c] EXCEPT !.state = "SENDING"]
<1>1. new \in Challenge /\ new.state = "SENDING" /\ new.reg = code[c].reg
         /\ new.phone = code[c].phone /\ new.address = code[c].address
         /\ new.created = code[c].created
         /\ new.tries = code[c].tries /\ new.wrong = code[c].wrong
  BY DEF OtpInv, TypeOK, Challenge
<1>2. code' = [code EXCEPT ![c] = new] /\ UNCHANGED <<clock, reg>>
         /\ code[c].state = "WAITING" /\ ~TenantLocked /\ BelowLimits(c) /\ Cooled(c)
  BY DEF SendAdmitted
<1> HIDE DEF new
<1>3. TypeOK' /\ RowsStay /\ CountedCodes' /\ QuotasKept' /\ OneLiveCode' /\ VerifiedIsCurrent'
  <2>1. c \notin Stored /\ new.state \notin {"LIVE", "INVALID", "CONSUMED"}
           /\ new.wrong <= new.tries /\ new.tries <= MaxTries
    BY <1>1, <1>2 DEF Stored, OtpInv, CountedCodes
  <2>. QED BY <1>1, <1>2, <2>1, HiddenKeeps
<1>4. code'[c] = new /\ \A d \in Codes \ {c} : code'[d] = code[d]
  BY <1>2 DEF OtpInv, TypeOK
<1>5. \A d \in Codes : code'[d].state = "SENDING" => d = c
  BY <1>2, <1>4 DEF TenantLocked
<1>6. BelowLimits(c)'
  BY <1>1, <1>2, <1>3, <1>4, CountsStay DEF BelowLimits
<1>7. Cooled(c)'
  BY <1>1, <1>2, <1>3, <1>4, CooledStays
<1>8. AdmissionHolds'
  BY <1>5, <1>6, <1>7 DEF AdmissionHolds
<1>9. HoldsRow'
  BY <1>1, <1>2, <1>4 DEF OtpInv, HoldsRow, Asked
<1>. QED BY <1>3, <1>8, <1>9 DEF OtpInv

\* A request that ends without a row gives the locks back.
LEMMA EndKeeps ==
    ASSUME OtpInv, NEW c \in Codes, SendRefused(c) \/ SendLost(c)
    PROVE  OtpInv'
<1>1. PICK new \in Challenge :
        /\ code' = [code EXCEPT ![c] = new] /\ UNCHANGED <<clock, reg>>
        /\ code[c].state \in {"WAITING", "SENDING"} /\ new.state \in {"NONE", "LOST"}
        /\ new.wrong <= new.tries /\ new.tries <= MaxTries
  <2>1. CASE SendRefused(c)
    <3>1. NoCode \in Challenge /\ NoCode.state = "NONE" /\ NoCode.wrong = 0 /\ NoCode.tries = 0
      BY PolicyTypes DEF NoCode, Challenge
    <3>2. code' = [code EXCEPT ![c] = NoCode] /\ UNCHANGED <<clock, reg>> /\ code[c].state = "WAITING"
      BY <2>1 DEF SendRefused
    <3>3. NoCode.wrong <= NoCode.tries /\ NoCode.tries <= MaxTries
      BY <3>1, PolicyTypes
    <3>4. NoCode.state \in {"NONE", "LOST"} /\ code[c].state \in {"WAITING", "SENDING"}
      BY <3>1, <3>2
    <3>. QED BY <3>1, <3>2, <3>3, <3>4, Zenon
  <2>2. CASE SendLost(c)
    <3> DEFINE new == [code[c] EXCEPT !.state = "LOST"]
    <3>1. new \in Challenge /\ new.state = "LOST"
             /\ new.tries = code[c].tries /\ new.wrong = code[c].wrong
      BY DEF OtpInv, TypeOK, Challenge
    <3>2. code' = [code EXCEPT ![c] = new]
      BY <2>2 DEF SendLost
    <3> HIDE DEF new
    <3>. QED BY <2>2, <3>1, <3>2 DEF SendLost, OtpInv, CountedCodes
  <2>. QED BY <2>1, <2>2
<1>2. TypeOK' /\ RowsStay /\ CountedCodes' /\ QuotasKept' /\ OneLiveCode' /\ VerifiedIsCurrent'
  <2>1. c \notin Stored /\ new.state \notin {"LIVE", "INVALID", "CONSUMED"}
    BY <1>1 DEF Stored
  <2>. QED BY <1>1, <2>1, HiddenKeeps
<1>3. code'[c] = new /\ \A d \in Codes \ {c} : code'[d] = code[d]
  BY <1>1 DEF OtpInv, TypeOK
<1>4. AdmissionHolds'
  BY <1>1, <1>2, <1>3, AdmissionStays DEF OtpInv
<1>5. HoldsRow'
  BY <1>1, <1>3 DEF OtpInv, HoldsRow, Asked
<1>. QED BY <1>2, <1>4, <1>5 DEF OtpInv

-----------------------------------------------------------------------------
(* The commit.                                                             *)

LEMMA CommitRows ==
    ASSUME OtpInv, NEW c \in Codes, SendCommit(c)
    PROVE  /\ code[c].state = "SENDING" /\ UNCHANGED <<clock, reg>>
           /\ code' \in [Codes -> Challenge] /\ code'[c].state = "LIVE"
           /\ Stored' = Stored \cup {c}
           /\ \A d \in Codes : /\ code'[d].reg = code[d].reg /\ code'[d].phone = code[d].phone
                               /\ code'[d].address = code[d].address
                               /\ code'[d].created = code[d].created
                               /\ code'[d].tries = code[d].tries /\ code'[d].wrong = code[d].wrong
           /\ \A d \in Codes \ {c} :
                 code'[d] = code[d] \/ (code[d].state = "LIVE" /\ code'[d].state = "INVALID")
           /\ \A d \in Of(code[c].reg) : code'[d].state # "LIVE"
<1> DEFINE hit == {d \in Of(code[c].reg) : code[d].state = "LIVE"}
           Row(d, state) == [code[d] EXCEPT !.state = state]
<1>1. /\ code[c].state = "SENDING" /\ UNCHANGED <<clock, reg>>
      /\ code' = [d \in Codes |-> IF d = c THEN [code[c] EXCEPT !.state = "LIVE"]
                                  ELSE IF d \in Of(code[c].reg) /\ code[d].state = "LIVE"
                                  THEN [code[d] EXCEPT !.state = "INVALID"] ELSE code[d]]
  BY DEF SendCommit
<1>2. \A d \in Codes : code[d] \in Challenge
  BY DEF OtpInv, TypeOK
<1>3. c \notin Stored /\ Of(code[c].reg) \subseteq Stored /\ Stored \subseteq Codes
  BY <1>1 DEF Stored, Of
<1>4. code'[c] = Row(c, "LIVE")
  BY <1>1
<1>5. \A d \in hit : d \in Codes /\ code'[d] = Row(d, "INVALID")
  BY <1>1, <1>3
<1>6. \A d \in Codes : d # c /\ d \notin hit => code'[d] = code[d]
  BY <1>1
<1>7. \A d \in Codes, s \in {"LIVE", "INVALID"} :
         /\ Row(d, s) \in Challenge /\ Row(d, s).state = s /\ Row(d, s).reg = code[d].reg
         /\ Row(d, s).phone = code[d].phone /\ Row(d, s).address = code[d].address
         /\ Row(d, s).created = code[d].created
         /\ Row(d, s).tries = code[d].tries /\ Row(d, s).wrong = code[d].wrong
  BY <1>2 DEF Challenge
<1> HIDE DEF Row
<1>8. /\ code'[c] \in Challenge /\ code'[c].state = "LIVE"
      /\ \A d \in hit : code'[d] \in Challenge /\ code'[d].state = "INVALID" /\ code[d].state = "LIVE"
  BY <1>3, <1>4, <1>5, <1>7
<1>9. \A d \in Codes : /\ code'[d].reg = code[d].reg /\ code'[d].phone = code[d].phone
                       /\ code'[d].address = code[d].address
                       /\ code'[d].created = code[d].created
                       /\ code'[d].tries = code[d].tries /\ code'[d].wrong = code[d].wrong
  <2> TAKE d \in Codes
  <2>1. CASE d = c
    BY <1>4, <1>7, <2>1
  <2>2. CASE d \in hit
    BY <1>5, <1>7, <2>2
  <2>3. CASE d # c /\ d \notin hit
    BY <1>6, <2>3
  <2>. QED BY <2>1, <2>2, <2>3
<1>10. code' \in [Codes -> Challenge]
  <2>1. \A d \in Codes : code'[d] \in Challenge
    BY <1>2, <1>6, <1>8
  <2>. QED BY <1>1, <2>1
<1>11. \A d \in Codes \ {c} :
          code'[d] = code[d] \/ (code[d].state = "LIVE" /\ code'[d].state = "INVALID")
  BY <1>6, <1>8
<1>12. Stored' = Stored \cup {c}
  BY <1>8, <1>11 DEF Stored
<1>13. \A d \in Of(code[c].reg) : code'[d].state # "LIVE"
  <2>1. \A d \in Of(code[c].reg) : d \in Codes \ {c}
    BY <1>3
  <2>2. \A d \in Of(code[c].reg) : d \in hit \/ (code'[d] = code[d] /\ code[d].state # "LIVE")
    BY <1>6, <2>1
  <2>. QED BY <1>8, <2>2
<1>. QED BY <1>1, <1>8, <1>9, <1>10, <1>11, <1>12, <1>13

LEMMA CommitQuotas ==
    ASSUME OtpInv, NEW c \in Codes, SendCommit(c)
    PROVE  QuotasKept'
<1>1. /\ code[c].state = "SENDING" /\ Stored' = Stored \cup {c}
      /\ \A d \in Codes : /\ code'[d].reg = code[d].reg /\ code'[d].phone = code[d].phone
                          /\ code'[d].address = code[d].address
                          /\ code'[d].created = code[d].created
  BY CommitRows
<1>2. BelowLimits(c) /\ Cooled(c)
  BY <1>1 DEF OtpInv, AdmissionHolds
<1>3. IsFiniteSet(Stored) /\ \A S : S \subseteq Stored => IsFiniteSet(S)
  <2>1. Stored \subseteq Codes
    BY DEF Stored
  <2>. QED BY <2>1, IdentitiesAssumption, FS_Subset
<1>4. \A d \in Stored \cup {c} : code[d].created \in Int
  BY DEF Stored, OtpInv, TypeOK, Challenge
<1>5. ASSUME NEW t \in 0..MaxTime, NEW span \in Nat, NEW limit \in Nat \ {0}, NEW S,
             S \subseteq Stored, Cardinality(Window(S, t - span, t)) <= limit,
             NEW A, A \subseteq S \cup {c},
             c \in A => Cardinality(Since(S, code[c].created - span)) < limit
      PROVE  Cardinality({d \in A : t - span <= code[d].created /\ code[d].created <= t}) <= limit
  <2> DEFINE W == {d \in A : t - span <= code[d].created /\ code[d].created <= t}
             E == Since(S, code[c].created - span)
  <2>1. CASE c \in W
    <3>1. t - span <= code[c].created /\ code[c].created <= t
      BY <2>1
    <3>2. \A d \in W : d # c => code[d].created >= code[c].created - span
      BY <1>4, <1>5, <3>1
    <3>3. W \subseteq E \cup {c}
      BY <1>5, <3>2 DEF Since
    <3>4. IsFiniteSet(E)
      BY <1>3, <1>5 DEF Since
    <3>5. Cardinality(E) < limit
      BY <1>5, <2>1
    <3> HIDE DEF W, E
    <3>6. Cardinality(W) <= limit
      BY <3>3, <3>4, <3>5, WindowCounted
    <3>. QED BY <3>6 DEF W
  <2>2. CASE c \notin W
    <3>1. W \subseteq Window(S, t - span, t)
      BY <1>5, <2>2 DEF Window
    <3>2. IsFiniteSet(Window(S, t - span, t))
      BY <1>3, <1>5 DEF Window
    <3>3. /\ Cardinality(W) <= Cardinality(Window(S, t - span, t))
          /\ Cardinality(W) \in Nat /\ Cardinality(Window(S, t - span, t)) \in Nat
      BY <3>1, <3>2, FS_Subset, FS_CardinalityType
    <3> HIDE DEF W
    <3>4. Cardinality(W) <= limit
      BY <1>5, <3>3
    <3>. QED BY <3>4 DEF W
  <2>. QED BY <2>1, <2>2
<1>6. ASSUME NEW t \in 0..MaxTime
      PROVE  /\ \A p \in Phones : Cardinality(Window(ToPhone(p), t - Hour, t))' <= PhoneLimit
             /\ \A ip \in Addresses :
                   Cardinality(Window(FromAddress(ip), t - Hour, t))' <= AddressLimit
             /\ Cardinality(Window(Stored, t - Minute, t))' <= TenantLimit
  <2>1. ASSUME NEW p \in Phones
        PROVE  Cardinality(Window(ToPhone(p), t - Hour, t))' <= PhoneLimit
    <3> DEFINE A == {d \in Stored \cup {c} : code[d].phone = p}
    <3>1. A \subseteq ToPhone(p) \cup {c} /\ ToPhone(p) \subseteq Stored
      BY DEF ToPhone
    <3>2. c \in A => Cardinality(Since(ToPhone(p), code[c].created - Hour)) < PhoneLimit
      BY <1>2 DEF BelowLimits
    <3>3. Cardinality(Window(ToPhone(p), t - Hour, t)) <= PhoneLimit
      BY DEF OtpInv, QuotasKept
    <3>4. Window(ToPhone(p), t - Hour, t)'
             = {d \in A : t - Hour <= code[d].created /\ code[d].created <= t}
      BY <1>1 DEF Window, ToPhone, Stored
    <3> HIDE DEF A
    <3>5. Hour \in Nat /\ PhoneLimit \in Nat \ {0}
      BY PolicyTypes
    <3>6. Cardinality({d \in A : t - Hour <= code[d].created /\ code[d].created <= t}) <= PhoneLimit
      BY <1>5, <3>1, <3>2, <3>3, <3>5
    <3>. QED BY <3>4, <3>6
  <2>2. ASSUME NEW ip \in Addresses
        PROVE  Cardinality(Window(FromAddress(ip), t - Hour, t))' <= AddressLimit
    <3> DEFINE A == {d \in Stored \cup {c} : code[d].address = ip}
    <3>1. A \subseteq FromAddress(ip) \cup {c} /\ FromAddress(ip) \subseteq Stored
      BY DEF FromAddress
    <3>2. c \in A => Cardinality(Since(FromAddress(ip), code[c].created - Hour)) < AddressLimit
      BY <1>2 DEF BelowLimits
    <3>3. Cardinality(Window(FromAddress(ip), t - Hour, t)) <= AddressLimit
      BY DEF OtpInv, QuotasKept
    <3>4. Window(FromAddress(ip), t - Hour, t)'
             = {d \in A : t - Hour <= code[d].created /\ code[d].created <= t}
      BY <1>1 DEF Window, FromAddress, Stored
    <3> HIDE DEF A
    <3>5. Hour \in Nat /\ AddressLimit \in Nat \ {0}
      BY PolicyTypes
    <3>6. Cardinality({d \in A : t - Hour <= code[d].created /\ code[d].created <= t}) <= AddressLimit
      BY <1>5, <3>1, <3>2, <3>3, <3>5
    <3>. QED BY <3>4, <3>6
  <2>3. Cardinality(Window(Stored, t - Minute, t))' <= TenantLimit
    <3> DEFINE A == Stored \cup {c}
    <3>1. c \in A => Cardinality(Since(Stored, code[c].created - Minute)) < TenantLimit
      BY <1>2 DEF BelowLimits
    <3>2. Cardinality(Window(Stored, t - Minute, t)) <= TenantLimit
      BY DEF OtpInv, QuotasKept
    <3>3. Window(Stored, t - Minute, t)'
             = {d \in A : t - Minute <= code[d].created /\ code[d].created <= t}
      BY <1>1 DEF Window, Stored
    <3>4. A \subseteq Stored \cup {c}
      OBVIOUS
    <3> HIDE DEF A
    <3>5. Minute \in Nat /\ TenantLimit \in Nat \ {0}
      BY PolicyTypes
    <3>6. Cardinality({d \in A : t - Minute <= code[d].created /\ code[d].created <= t}) <= TenantLimit
      BY <1>5, <3>1, <3>2, <3>4, <3>5
    <3>. QED BY <3>3, <3>6
  <2>. QED BY <2>1, <2>2, <2>3
<1>7. ASSUME NEW r \in Regs, NEW d \in Of(r)', NEW e \in Of(r)', d # e
      PROVE  \/ code'[d].created + Cooldown <= code'[e].created
             \/ code'[e].created + Cooldown <= code'[d].created
  <2>1. \A x \in Of(r)' : x \in Codes /\ code'[x].created = code[x].created /\ (x \in Of(r) \/ x = c)
    BY <1>1 DEF Of, Stored
  <2>2. c \in Of(r)' => \A x \in Of(r) : code[x].created + Cooldown <= code[c].created
    BY <1>1, <1>2 DEF Cooled, Of, Stored
  <2>. QED BY <1>7, <2>1, <2>2 DEF OtpInv, QuotasKept
<1>. QED BY <1>6, <1>7 DEF QuotasKept

LEMMA CommitKeepsQuotas ==
    ASSUME OtpInv, NEW c \in Codes, SendCommit(c)
    PROVE  OtpInv'
<1>1. /\ code[c].state = "SENDING" /\ UNCHANGED <<clock, reg>>
      /\ code' \in [Codes -> Challenge] /\ code'[c].state = "LIVE"
      /\ Stored' = Stored \cup {c}
      /\ \A d \in Codes : /\ code'[d].reg = code[d].reg /\ code'[d].phone = code[d].phone
                          /\ code'[d].created = code[d].created
                          /\ code'[d].tries = code[d].tries /\ code'[d].wrong = code[d].wrong
      /\ \A d \in Codes \ {c} :
            code'[d] = code[d] \/ (code[d].state = "LIVE" /\ code'[d].state = "INVALID")
      /\ \A d \in Of(code[c].reg) : code'[d].state # "LIVE"
  BY CommitRows
<1>2. Asked(c) /\ Cooled(c) /\ code[c].reg \in Regs
  BY <1>1 DEF Asked, OtpInv, HoldsRow, AdmissionHolds
<1>3. TypeOK'
  BY <1>1 DEF OtpInv, TypeOK
<1>4. HoldsRow'
  <2>1. \A d \in Codes : Asked(d)' => d # c /\ Asked(d) /\ code'[d] = code[d]
    BY <1>1 DEF Asked
  <2>. QED BY <1>1, <2>1 DEF OtpInv, HoldsRow
<1>5. AdmissionHolds'
  <2>1. \A d \in Codes : code'[d].state # "SENDING"
    BY <1>1 DEF OtpInv, AdmissionHolds
  <2>. QED BY <2>1 DEF AdmissionHolds
<1>6. CountedCodes'
  <2>1. code[c].tries = 0
    BY <1>2 DEF OtpInv, HoldsRow
  <2>. QED BY <1>1, <2>1, PolicyTypes DEF OtpInv, CountedCodes
<1>7. \A r : \A d \in Of(r)' : d \in Codes /\ (d \in Of(r) \/ (d = c /\ r = code[c].reg))
  BY <1>1 DEF Of, Stored
<1>8. OneLiveCode'
  <2>1. ASSUME NEW r \in Regs, NEW d \in Of(r)', NEW e \in Of(r)', code'[d].state = "LIVE"
        PROVE  /\ code'[e].state = "LIVE" => d = e
               /\ code'[e].created <= code'[d].created
               /\ code'[d].phone = reg'[r].phone
    <3>1. CASE r = code[c].reg
      <4>1. d = c /\ (code'[e].state = "LIVE" => e = c)
        BY <1>1, <1>7, <2>1, <3>1
      <4>2. code[c].phone = reg[r].phone
        BY <1>2, <3>1 DEF OtpInv, HoldsRow
      <4>3. code[e].created <= code[c].created
        <5>1. code[e].created \in Nat /\ code[c].created \in Nat /\ Cooldown \in Nat
          BY <1>7, PolicyTypes DEF OtpInv, TypeOK, Challenge
        <5>2. e = c \/ code[e].created + Cooldown <= code[c].created
          BY <1>2, <1>7, <3>1 DEF Cooled
        <5>. QED BY <5>1, <5>2
      <4>. QED BY <1>1, <1>7, <2>1, <4>1, <4>2, <4>3
    <3>2. CASE r # code[c].reg
      <4>1. d \in Of(r) /\ e \in Of(r) /\ d \in Codes \ {c} /\ e \in Codes
        BY <1>1, <1>7, <2>1, <3>2 DEF Of, Stored
      <4>2. code'[d] = code[d]
        BY <1>1, <2>1, <4>1
      <4>3. e # c
        BY <3>2, <4>1 DEF Of
      <4>4. code'[e].state = "LIVE" => code[e].state = "LIVE"
        BY <1>1, <4>1, <4>3
      <4>. QED BY <1>1, <2>1, <4>1, <4>2, <4>4 DEF OtpInv, OneLiveCode
    <3>. QED BY <3>1, <3>2
  <2>. QED BY <2>1 DEF OneLiveCode
<1>9. VerifiedIsCurrent'
  <2>1. \A d \in Codes : code[d].state = "CONSUMED" => code'[d] = code[d]
    BY <1>1
  <2>2. \A r \in Regs : \A d \in Of(r) : code[d].state = "CONSUMED" => d \in Of(r)' /\ code'[d] = code[d]
    BY <1>1, <2>1 DEF Of, Stored
  <2>. QED BY <1>1, <2>2 DEF OtpInv, VerifiedIsCurrent
<1>10. QuotasKept'
  BY CommitQuotas
<1>. QED BY <1>3, <1>4, <1>5, <1>6, <1>8, <1>9, <1>10 DEF OtpInv

-----------------------------------------------------------------------------
(* Steps that only spend codes: verification and a new phone number.       *)

(* Some live codes are counted, invalidated or consumed; what identifies a *)
(* code stays.  Requests that hold a row keep it as it is.                 *)
Spends ==
    /\ clock' \in 0..MaxTime /\ reg' \in [Regs -> Registration] /\ code' \in [Codes -> Challenge]
    /\ \A d \in Codes :
          \/ code'[d] = code[d]
          \/ /\ code[d].state = "LIVE" /\ code'[d].state \in {"LIVE", "INVALID", "CONSUMED"}
             /\ code'[d].reg = code[d].reg /\ code'[d].phone = code[d].phone
             /\ code'[d].address = code[d].address /\ code'[d].created = code[d].created
             /\ code'[d].wrong <= code'[d].tries /\ code'[d].tries <= MaxTries
             /\ code'[d].state = "LIVE" => code'[d].tries < MaxTries
    /\ \A d \in Codes : Asked(d) => reg'[code[d].reg] = reg[code[d].reg]
    \* A live code keeps its registration's number.
    /\ \A r \in Regs : \/ reg'[r].phone = reg[r].phone
                       \/ \A d \in Of(r) : code'[d].state # "LIVE"

LEMMA SpendsKeeps ==
    ASSUME OtpInv, Spends
    PROVE  /\ TypeOK' /\ RowsStay /\ HoldsRow' /\ AdmissionHolds' /\ CountedCodes'
           /\ QuotasKept' /\ OneLiveCode'
<1> USE DEF OtpInv
<1>1. TypeOK'
  BY DEF Spends, TypeOK
<1>2. RowsStay
  BY DEF Spends, RowsStay, Stored
<1>3. \A d \in Codes : code'[d].state \in {"WAITING", "SENDING"} => code'[d] = code[d]
  BY DEF Spends
<1>4. HoldsRow'
  <2>1. \A d \in Codes : Asked(d)' => code'[d] = code[d] /\ Asked(d)
    BY <1>3 DEF Asked
  <2>2. \A d \in Codes : Asked(d) => reg'[code[d].reg] = reg[code[d].reg]
    BY DEF Spends
  <2>. QED BY <2>1, <2>2 DEF HoldsRow
<1>5. AdmissionHolds'
  BY <1>2, <1>3, AdmissionStays
<1>6. CountedCodes'
  BY DEF Spends, CountedCodes
<1>7. QuotasKept'
  BY <1>2, QuotasStay
<1>8. OneLiveCode'
  <2>1. ASSUME NEW r \in Regs, NEW d \in Of(r), NEW e \in Of(r), code'[d].state = "LIVE"
        PROVE  /\ code'[e].state = "LIVE" => d = e
               /\ code'[e].created <= code'[d].created
               /\ code'[d].phone = reg'[r].phone
    <3>1. d \in Codes /\ e \in Codes /\ code[d].state = "LIVE"
             /\ (code'[e].state = "LIVE" => code[e].state = "LIVE")
      BY <2>1 DEF Spends, Of, Stored
    <3>2. /\ code'[d].phone = code[d].phone /\ code'[d].created = code[d].created
          /\ code'[e].created = code[e].created
      BY <1>2 DEF RowsStay, Of
    <3>3. reg'[r].phone = reg[r].phone
      BY <2>1 DEF Spends
    <3>. QED BY <3>1, <3>2, <3>3 DEF OneLiveCode
  <2>2. \A r : Of(r)' = Of(r)
    BY <1>2, CountsStay
  <2>. QED BY <2>1, <2>2 DEF OneLiveCode
<1>. QED BY <1>1, <1>2, <1>4, <1>5, <1>6, <1>7, <1>8

LEMMA VerifyKeeps ==
    ASSUME OtpInv, NEW r \in Regs, NEW c \in Codes, VerifyWrong(r, c) \/ VerifyRight(r, c)
    PROVE  OtpInv'
<1>1. /\ ~RowLocked(r) /\ c \in Of(r) /\ code[c].state = "LIVE" /\ code[c].phone = reg[r].phone
      /\ clock' = clock
  BY DEF VerifyWrong, VerifyRight, Newest, Usable
<1>2. code[c] \in Challenge /\ code[c].reg = r /\ code[c].tries < MaxTries
         /\ code[c].wrong <= code[c].tries /\ code[c].wrong \in Nat /\ code[c].tries \in Nat
  BY <1>1 DEF OtpInv, TypeOK, Challenge, Of, CountedCodes
<1>3. PICK new \in Challenge :
        /\ code' = [code EXCEPT ![c] = new]
        /\ new.reg = code[c].reg /\ new.phone = code[c].phone
        /\ new.address = code[c].address /\ new.created = code[c].created
        /\ new.wrong <= new.tries /\ new.tries <= MaxTries
        /\ \/ /\ reg' = reg /\ new.state \in {"LIVE", "INVALID"}
              /\ new.state = "LIVE" => new.tries < MaxTries
           \/ reg' = [reg EXCEPT ![r].verified = TRUE] /\ new.state = "CONSUMED"
  <2>1. CASE VerifyWrong(r, c)
    <3> DEFINE counted == IF code[c].tries >= MaxTries THEN code[c].tries ELSE code[c].tries + 1
               wrong == code[c].wrong + 1
               state == IF counted >= MaxTries THEN "INVALID" ELSE "LIVE"
               written == [code[c] EXCEPT !.tries = counted, !.wrong = wrong, !.state = state]
    <3>1. counted \in Nat /\ wrong \in Nat /\ wrong <= counted /\ counted <= MaxTries
      BY <1>2, PolicyTypes
    <3>2. state \in {"LIVE", "INVALID"} /\ (state = "LIVE" => counted < MaxTries)
      BY <3>1, PolicyTypes
    <3>3. code' = [code EXCEPT ![c] = written] /\ reg' = reg
      BY <2>1 DEF VerifyWrong
    <3> HIDE DEF counted, wrong, state
    <3>4. /\ written \in Challenge /\ written.reg = code[c].reg /\ written.phone = code[c].phone
          /\ written.address = code[c].address /\ written.created = code[c].created
          /\ written.tries = counted /\ written.wrong = wrong /\ written.state = state
      <4>1. written = [code[c] EXCEPT !.tries = counted, !.wrong = wrong, !.state = state]
        OBVIOUS
      <4> HIDE DEF written
      <4>2. code[c] \in Challenge
        BY <1>2
      <4>. QED BY <3>1, <3>2, <4>1, <4>2 DEF Challenge
    <3> HIDE DEF written
    <3>5. written.wrong <= written.tries /\ written.tries <= MaxTries /\ written.state \in {"LIVE", "INVALID"}
             /\ (written.state = "LIVE" => written.tries < MaxTries)
      BY <3>1, <3>2, <3>4
    <3>. QED BY <3>3, <3>4, <3>5, Zenon
  <2>2. CASE VerifyRight(r, c)
    <3> DEFINE tries == code[c].tries + 1
               written == [code[c] EXCEPT !.state = "CONSUMED", !.tries = tries]
    <3>1. tries \in Nat /\ code[c].wrong <= tries /\ tries <= MaxTries
      BY <1>2, PolicyTypes
    <3>2. code' = [code EXCEPT ![c] = written] /\ reg' = [reg EXCEPT ![r].verified = TRUE]
      BY <2>2 DEF VerifyRight
    <3> HIDE DEF tries
    <3>3. /\ written \in Challenge /\ written.reg = code[c].reg /\ written.phone = code[c].phone
          /\ written.address = code[c].address /\ written.created = code[c].created
          /\ written.tries = tries /\ written.wrong = code[c].wrong /\ written.state = "CONSUMED"
      <4>1. written = [code[c] EXCEPT !.state = "CONSUMED", !.tries = tries]
        OBVIOUS
      <4> HIDE DEF written
      <4>2. code[c] \in Challenge
        BY <1>2
      <4>. QED BY <3>1, <4>1, <4>2 DEF Challenge
    <3> HIDE DEF written
    <3>4. written.wrong <= written.tries /\ written.tries <= MaxTries
      BY <3>1, <3>3
    <3>. QED BY <3>2, <3>3, <3>4, Zenon
  <2>. QED BY <2>1, <2>2
<1>4. /\ code' \in [Codes -> Challenge] /\ code'[c] = new
      /\ \A d \in Codes \ {c} : code'[d] = code[d]
  BY <1>3 DEF OtpInv, TypeOK
<1>5. /\ reg' \in [Regs -> Registration] /\ \A s \in Regs \ {r} : reg'[s] = reg[s]
      /\ reg'[r].phone = reg[r].phone
  BY <1>3 DEF OtpInv, TypeOK, Registration
<1>6. Spends
  <2>1. \A d \in Codes : Asked(d) => code[d].reg \in Regs \ {r}
    BY <1>1 DEF RowLocked, Asked, OtpInv, HoldsRow
  <2>2. \A d \in Codes : Asked(d) => reg'[code[d].reg] = reg[code[d].reg]
    BY <1>5, <2>1
  <2>3. \A s \in Regs : reg'[s].phone = reg[s].phone
    BY <1>5
  <2>4. clock' \in 0..MaxTime
    BY <1>1 DEF OtpInv, TypeOK
  <2>5. new.state \in {"LIVE", "INVALID", "CONSUMED"} /\ (new.state = "LIVE" => new.tries < MaxTries)
    BY <1>3
  <2>. QED BY <1>1, <1>3, <1>4, <1>5, <2>2, <2>3, <2>4, <2>5 DEF Spends
<1>7. TypeOK' /\ RowsStay /\ HoldsRow' /\ AdmissionHolds' /\ CountedCodes' /\ QuotasKept' /\ OneLiveCode'
  BY <1>6, SpendsKeeps
<1>8. VerifiedIsCurrent'
  <2>1. \A s : Of(s)' = Of(s)
    BY <1>7, CountsStay
  <2>2. \A d \in Codes : code[d].state = "CONSUMED" => code'[d] = code[d]
    BY <1>1, <1>4
  <2>3. \A s \in Regs : \A d \in Of(s) : code[d].state = "CONSUMED" => code'[d] = code[d]
    BY <2>2 DEF Of, Stored
  <2>4. ASSUME NEW s \in Regs, reg'[s].verified
        PROVE  \E d \in Of(s) : code'[d].state = "CONSUMED" /\ code'[d].phone = reg'[s].phone
    <3>1. CASE reg[s].verified
      <4>1. reg'[s].phone = reg[s].phone
        BY <1>5
      <4>. QED BY <2>3, <3>1, <4>1 DEF OtpInv, VerifiedIsCurrent
    <3>2. CASE ~reg[s].verified
      <4>1. s = r /\ new.state = "CONSUMED"
        BY <1>3, <1>5, <2>4, <3>2 DEF OtpInv, TypeOK
      <4>. QED BY <1>1, <1>3, <1>4, <1>5, <4>1
    <3>. QED BY <3>1, <3>2
  <2>. QED BY <2>1, <2>4 DEF VerifiedIsCurrent
<1>. QED BY <1>7, <1>8 DEF OtpInv

LEMMA ChangeKeeps ==
    ASSUME OtpInv, NEW r \in Regs, NEW p \in Phones, ChangePhone(r, p)
    PROVE  OtpInv'
<1> DEFINE Row(d) == [code[d] EXCEPT !.state = "INVALID"]
           hit == {d \in Of(r) : code[d].state = "LIVE"}
<1>1. /\ ~RowLocked(r) /\ clock' = clock
      /\ reg' = [reg EXCEPT ![r] = [phone |-> p, verified |-> FALSE]]
      /\ code' = [d \in Codes |-> IF d \in Of(r) /\ code[d].state = "LIVE"
                                  THEN [code[d] EXCEPT !.state = "INVALID"] ELSE code[d]]
  BY DEF ChangePhone
<1>2. \A d \in Codes : /\ Row(d) \in Challenge /\ Row(d).state = "INVALID"
                       /\ Row(d).reg = code[d].reg /\ Row(d).phone = code[d].phone
                       /\ Row(d).address = code[d].address /\ Row(d).created = code[d].created
                       /\ Row(d).tries = code[d].tries /\ Row(d).wrong = code[d].wrong
  BY DEF OtpInv, TypeOK, Challenge
<1>3. /\ \A d \in hit : d \in Codes /\ code'[d] = Row(d)
      /\ \A d \in Codes : d \notin hit => code'[d] = code[d]
  BY <1>1 DEF Of, Stored
<1> HIDE DEF Row
<1>4. code' \in [Codes -> Challenge]
  <2>1. \A d \in Codes : code'[d] \in Challenge
    BY <1>2, <1>3 DEF OtpInv, TypeOK
  <2>. QED BY <1>1, <2>1
<1>5. \A d \in Codes : Asked(d) => code[d].reg \in Regs \ {r}
  BY <1>1 DEF RowLocked, Asked, OtpInv, HoldsRow
<1>6. /\ reg' \in [Regs -> Registration] /\ \A s \in Regs \ {r} : reg'[s] = reg[s]
      /\ reg'[r].verified = FALSE
  <2>1. [phone |-> p, verified |-> FALSE] \in Registration
    BY DEF Registration
  <2>. QED BY <1>1, <2>1 DEF OtpInv, TypeOK
<1>7. Spends
  <2>1. ASSUME NEW d \in hit
        PROVE  /\ code[d].state = "LIVE" /\ code'[d].state = "INVALID"
               /\ code'[d].reg = code[d].reg /\ code'[d].phone = code[d].phone
               /\ code'[d].address = code[d].address /\ code'[d].created = code[d].created
               /\ code'[d].wrong <= code'[d].tries /\ code'[d].tries <= MaxTries
    BY <1>2, <1>3 DEF OtpInv, CountedCodes
  <2>2. \A d \in Of(r) : code'[d].state # "LIVE"
    <3>1. \A d \in Of(r) : d \in Codes /\ (d \in hit \/ code[d].state # "LIVE")
      BY DEF Of, Stored
    <3>. QED BY <1>3, <2>1, <3>1
  <2>3. \A s \in Regs : reg'[s].phone = reg[s].phone \/ \A d \in Of(s) : code'[d].state # "LIVE"
    BY <1>6, <2>2
  <2>4. clock' \in 0..MaxTime
    BY <1>1 DEF OtpInv, TypeOK
  <2>5. \A d \in Codes : Asked(d) => reg'[code[d].reg] = reg[code[d].reg]
    BY <1>5, <1>6
  <2> HIDE DEF hit
  <2>6. \A d \in Codes :
          \/ code'[d] = code[d]
          \/ /\ code[d].state = "LIVE" /\ code'[d].state \in {"LIVE", "INVALID", "CONSUMED"}
             /\ code'[d].reg = code[d].reg /\ code'[d].phone = code[d].phone
             /\ code'[d].address = code[d].address /\ code'[d].created = code[d].created
             /\ code'[d].wrong <= code'[d].tries /\ code'[d].tries <= MaxTries
             /\ code'[d].state = "LIVE" => code'[d].tries < MaxTries
    BY <1>3, <2>1
  <2>. QED BY <1>4, <1>6, <2>3, <2>4, <2>5, <2>6 DEF Spends
<1>8. TypeOK' /\ RowsStay /\ HoldsRow' /\ AdmissionHolds' /\ CountedCodes' /\ QuotasKept' /\ OneLiveCode'
  BY <1>7, SpendsKeeps
<1>9. VerifiedIsCurrent'
  <2>1. \A s : Of(s)' = Of(s)
    BY <1>8, CountsStay
  <2>2. \A s \in Regs : \A d \in Of(s) : code[d].state = "CONSUMED" => code'[d] = code[d]
    BY <1>3 DEF Of, Stored
  <2>. QED BY <1>6, <2>1, <2>2 DEF OtpInv, VerifiedIsCurrent
<1>. QED BY <1>8, <1>9 DEF OtpInv

LEMMA TickKeeps ==
    ASSUME OtpInv, UNCHANGED <<reg, code>>, clock' \in 0..MaxTime
    PROVE  OtpInv'
<1>1. TypeOK'
  BY DEF OtpInv, TypeOK
<1>2. RowsStay
  BY DEF RowsStay, Stored
<1>3. QuotasKept' /\ AdmissionHolds'
  BY <1>2, QuotasStay, AdmissionStays DEF OtpInv
<1>4. HoldsRow' /\ CountedCodes'
  BY DEF OtpInv, HoldsRow, CountedCodes, Asked
<1>5. OneLiveCode' /\ VerifiedIsCurrent'
  BY <1>2, CountsStay DEF OtpInv, OneLiveCode, VerifiedIsCurrent
<1>. QED BY <1>1, <1>3, <1>4, <1>5 DEF OtpInv

-----------------------------------------------------------------------------
(* Theorems.                                                               *)

(* What requests may rely on while they hold a row or the tenant's lock,   *)
(* with the properties as parts (send and verify of app/otp/service.py).   *)
THEOREM OtpInvariance == Spec => []OtpInv
<1>1. OtpInv /\ [Next]_vars => OtpInv'
  <2> SUFFICES ASSUME OtpInv, [Next]_vars PROVE OtpInv'
    OBVIOUS
  <2>1. ASSUME NEW c \in Codes, CodeStep(c) PROVE OtpInv'
    <3>1. ASSUME NEW r \in Regs, NEW ip \in Addresses, SendBegin(c, r, ip) PROVE OtpInv'
      BY <3>1, BeginKeepsQuotas
    <3>2. CASE SendAdmitted(c)
      BY <3>2, AdmittedKeeps
    <3>3. CASE SendRefused(c) \/ SendLost(c)
      BY <3>3, EndKeeps
    <3>4. CASE SendCommit(c)
      BY <3>4, CommitKeepsQuotas
    <3>5. ASSUME NEW r \in Regs, VerifyWrong(r, c) \/ VerifyRight(r, c) PROVE OtpInv'
      BY <3>5, VerifyKeeps
    <3>. QED BY <2>1, <3>1, <3>2, <3>3, <3>4, <3>5 DEF CodeStep
  <2>2. ASSUME NEW r \in Regs, NEW p \in Phones, ChangePhone(r, p) PROVE OtpInv'
    BY <2>2, ChangeKeeps
  <2>3. CASE Tick
    <3>1. clock' \in 0..MaxTime
      BY <2>3, PolicyTypes DEF Tick, OtpInv, TypeOK
    <3>. QED BY <2>3, <3>1, TickKeeps DEF Tick
  <2>4. CASE UNCHANGED vars
    <3>1. clock' \in 0..MaxTime
      BY <2>4 DEF vars, OtpInv, TypeOK
    <3>. QED BY <2>4, <3>1, TickKeeps DEF vars
  <2>. QED BY <2>1, <2>2, <2>3, <2>4 DEF Next
<1>. QED BY OtpBegins, <1>1, PTL DEF Spec

(* However sends overlap, wait for the locks and die, no window holds more *)
(* codes than its quota, the codes of a registration are apart, and nobody *)
(* is told more often than the limit that a code is wrong.                 *)
THEOREM RationedCorrect == Spec => []Rationed
<1>1. OtpInv => Rationed
  <2> SUFFICES ASSUME OtpInv PROVE Rationed
    OBVIOUS
  <2>1. \A c \in Codes : code[c].wrong \in Nat /\ code[c].tries \in Nat
    BY DEF OtpInv, TypeOK, Challenge
  <2>. QED BY <2>1, PolicyTypes DEF OtpInv, CountedCodes, Rationed, GuessesBounded
<1>. QED BY <1>1, OtpInvariance, PTL

(* Only the newest code, sent to the number the registration has, can      *)
(* verify it, and a verified registration has consumed a code that was     *)
(* sent to the number it has (verify, and patch of a phone number).        *)
THEOREM CodeProvesPhoneCorrect == Spec => []CodeProvesPhone
<1>1. OtpInv => CodeProvesPhone
  BY DEF OtpInv, CodeProvesPhone
<1>. QED BY <1>1, OtpInvariance, PTL

-----------------------------------------------------------------------------
(* The modules together.                                                   *)

(* A tenant's site and its editors: whichever module a behaviour is about, *)
(* the tables and the requests of all have their types.                    *)
THEOREM SiteTypesCorrect == AllSpec => []SiteTypeOK
<1>1. /\ AllInit => ContentInit /\ ProfileInit /\ FormsInit /\ Init /\ MediaInit /\ AccessInit
      /\ [AllNext]_<<contentVars, profileVars, formVars, vars, mediaVars, accessVars, turn>> =>
            /\ [ContentNext]_contentVars /\ [ProfileNext]_profileVars /\ [FormsNext]_formVars
            /\ [Next]_vars /\ [MediaNext]_mediaVars /\ [AccessNext]_accessVars
  BY DEF AllInit, AllNext
<1>2. ContentInv /\ ProfileInv /\ FormsInv /\ OtpInv /\ MediaInv /\ AccessInv => SiteTypeOK
  BY DEF SiteTypeOK, ContentInv, ProfileInv, FormsInv, OtpInv, MediaInv, AccessInv
<1>. QED BY <1>1, <1>2, ContentInvariance, ProfileInvariance, FormsInvariance, OtpInvariance,
            MediaInvariance, AccessInvariance, PTL
         DEF AllSpec, ContentSpec, ProfileSpec, FormsSpec, Spec, MediaSpec, AccessSpec
=============================================================================
