---------------------------- MODULE MediaObjects ----------------------------
(***************************************************************************)
(* Media assets and the objects behind them (app/media/router.py,          *)
(* app/media/storage.py, the profile images of app/registrations/router.py).*)
(* The API declares an asset and hands out an upload form; the browser     *)
(* sends the object to the store, as often as it likes until the form      *)
(* expires; a later call inspects the object under the lock of the row.    *)
(*                                                                         *)
(* A registration points at its profile image (portrait).  Of its status   *)
(* only this is kept, in standing: OPEN, the applicant may edit it;        *)
(* SUBMITTED, it has a submitted status since he submitted it; IMPOSED, it *)
(* has one because the administrator or a payment wrote it; CANCELLED.     *)
(* The other conditions of a submission, a code or a payment are left out. *)
(* Files are a type and a size; names, keys, dimensions and digests are    *)
(* left out, save that a completion records its own.                       *)
(***************************************************************************)
EXTENDS Naturals

CONSTANTS
    Assets,         \* ids of media rows
    NoAsset,
    Owners,         \* registrations
    NoOwner,        \* an asset of the administration
    Completions,    \* calls that complete an upload; each brings a digest of its own
    NoCompletion,
    Types,          \* the media types that are allowed for the asset
    MaxBytes,       \* settings.upload_max_bytes
    FormTTL,        \* settings.s3_presign_ttl_seconds
    LastTick        \* bound on time

ASSUME MediaAssumption ==
    /\ MaxBytes \in Nat /\ FormTTL \in Nat /\ LastTick \in Nat
    /\ NoAsset \notin Assets /\ NoOwner \notin Owners /\ NoCompletion \notin Completions

VARIABLES
    assets,     \* committed rows
    object,     \* the store: what is under the key of an asset
    touched,    \* assets whose object was replaced since it was last inspected
    portrait,   \* registrations.profile_image_id
    standing,   \* what registrations.status lets the applicant do, and why
    call,       \* the completions
    tick

mediaVars == <<assets, object, touched, portrait, standing, call, tick>>

Declared == [type : Types, size : 1..MaxBytes]

\* What a browser may try to store.
File == [type : Types, size : 1..MaxBytes + 1]

NoFile == [type |-> "", size |-> 0]

Media == [status : {"NONE", "PENDING", "READY", "REJECTED"}, visibility : {"PUBLIC", "PRIVATE"},
          as : Declared \cup {NoFile}, digest : Completions \cup {NoCompletion},
          expires : 0..LastTick + FormTTL]

Unused == [status |-> "NONE", visibility |-> "PRIVATE", as |-> NoFile,
           digest |-> NoCompletion, expires |-> 0]

Standing == {"OPEN", "SUBMITTED", "IMPOSED", "CANCELLED"}

Waiting == [at |-> "start", asset |-> NoAsset, owner |-> NoOwner]

MediaInit ==
    /\ assets = [a \in Assets |-> Unused]
    /\ object = [a \in Assets |-> NoFile]
    /\ touched = {}
    /\ portrait = [r \in Owners |-> NoAsset]
    /\ standing = [r \in Owners |-> "OPEN"]
    /\ call = [q \in Completions |-> Waiting]
    /\ tick = 0

\* Row locks are held from the first statement of a completion to its end.
Inspecting(a) == \E q \in Completions : call[q].at # "start" /\ call[q].asset = a

OwnerLocked(r) == \E q \in Completions : call[q].at # "start" /\ call[q].owner = r

-----------------------------------------------------------------------------
(* Declarations.                                                           *)

Declare(a, as, visibility) ==
    /\ assets[a] = Unused
    /\ assets' = [assets EXCEPT ![a] = [Unused EXCEPT
           !.status = "PENDING", !.visibility = visibility, !.as = as,
           !.expires = tick + FormTTL]]

\* initiate_upload, by an editor.
InitiateUpload(a, as, visibility) ==
    /\ Declare(a, as, visibility)
    /\ UNCHANGED <<object, touched, portrait, standing, call, tick>>

\* initiate_profile_image_upload: the registration points at the image at once.
InitiatePortrait(r, a, as) ==
    /\ ~OwnerLocked(r)
    /\ Declare(a, as, "PRIVATE")
    /\ portrait' = [portrait EXCEPT ![r] = a]
    /\ UNCHANGED <<object, touched, standing, call, tick>>

\* Mutation: the form does not bind the content type.
Accepts_AnyType(a, file) == tick < assets[a].expires /\ file.size <= MaxBytes

(* The policy of presign_upload, which the store enforces: the declared    *)
(* type, a bounded size, an expiry.                                        *)
Accepts(a, file) ==
    tick < assets[a].expires /\ file.type = assets[a].as.type /\ file.size <= MaxBytes

\* The browser stores a file, for the first time or again.
Send(a, file) ==
    /\ Accepts(a, file)
    /\ object' = [object EXCEPT ![a] = file]
    /\ touched' = touched \cup {a}
    /\ UNCHANGED <<assets, portrait, standing, call, tick>>

-----------------------------------------------------------------------------
(* complete_upload and complete_profile_image_upload (owner r).            *)

\* Mutation: the row of the asset is read without FOR UPDATE.
CompleteBegin_NoLock(q, a, r) ==
    /\ call[q] = Waiting
    /\ assets[a].status \notin {"NONE", "READY"}
    /\ r # NoOwner => /\ ~OwnerLocked(r) /\ portrait[r] = a
                      /\ assets[a].visibility = "PRIVATE"
    /\ call' = [call EXCEPT ![q] = [at |-> "locked", asset |-> a, owner |-> r]]
    /\ UNCHANGED <<assets, object, touched, portrait, standing, tick>>

CompleteBegin(q, a, r) ==
    /\ call[q] = Waiting
    /\ ~Inspecting(a)
    /\ assets[a].status \notin {"NONE", "READY"}
    /\ r # NoOwner => /\ ~OwnerLocked(r) /\ portrait[r] = a
                      /\ assets[a].visibility = "PRIVATE"
    /\ call' = [call EXCEPT ![q] = [at |-> "locked", asset |-> a, owner |-> r]]
    /\ UNCHANGED <<assets, object, touched, portrait, standing, tick>>

\* inspect finds the object as it was declared.
InspectMatches(q) ==
    LET a == call[q].asset
    IN  /\ call[q].at = "locked" /\ object[a] = assets[a].as
        /\ call' = [call EXCEPT ![q].at = "inspected"]
        /\ touched' = touched \ {a}
        /\ UNCHANGED <<assets, object, portrait, standing, tick>>

\* Mutation: the session commits although the handler raises.
InspectDiffers_Commits(q) ==
    LET a == call[q].asset
    IN  /\ call[q].at = "locked" /\ object[a] # assets[a].as
        /\ assets' = IF call[q].owner = NoOwner /\ object[a] # NoFile
                     THEN [assets EXCEPT ![a].status = "REJECTED"] ELSE assets
        /\ call' = [call EXCEPT ![q] = Waiting]
        /\ UNCHANGED <<object, touched, portrait, standing, tick>>

(* There is no object, or not the declared one.  The first handler sets    *)
(* REJECTED before it raises; the exception rolls that back.               *)
InspectDiffers(q) ==
    /\ call[q].at = "locked" /\ object[call[q].asset] # assets[call[q].asset].as
    /\ call' = [call EXCEPT ![q] = Waiting]
    /\ UNCHANGED <<assets, object, touched, portrait, standing, tick>>

CompleteCommit(q) ==
    /\ call[q].at = "inspected"
    /\ assets' = [assets EXCEPT ![call[q].asset].status = "READY",
                                ![call[q].asset].digest = q]
    /\ call' = [call EXCEPT ![q] = Waiting]
    /\ UNCHANGED <<object, touched, portrait, standing, tick>>

\* The store does not answer, or the process dies.
CompleteFails(q) ==
    /\ call[q] # Waiting
    /\ call' = [call EXCEPT ![q] = Waiting]
    /\ UNCHANGED <<assets, object, touched, portrait, standing, tick>>

-----------------------------------------------------------------------------
(* The registration.                                                       *)

\* Mutation: any ready asset of the tenant will do.
PatchPortrait_Any(r, a) ==
    /\ ~OwnerLocked(r) /\ standing[r] = "OPEN"
    /\ a # NoAsset => assets[a].status = "READY"
    /\ portrait' = [portrait EXCEPT ![r] = a]
    /\ UNCHANGED <<assets, object, touched, standing, call, tick>>

\* Mutation: the image can be changed in any status.
PatchPortrait_AnyStatus(r, a) ==
    /\ ~OwnerLocked(r)
    /\ a # NoAsset => assets[a].status = "READY" /\ assets[a].visibility = "PRIVATE"
    /\ portrait' = [portrait EXCEPT ![r] = a]
    /\ UNCHANGED <<assets, object, touched, standing, call, tick>>

\* RegistrationService.patch with a profile_image_id, which may be null.
PatchPortrait(r, a) ==
    /\ ~OwnerLocked(r) /\ standing[r] = "OPEN"
    /\ a # NoAsset => assets[a].status = "READY" /\ assets[a].visibility = "PRIVATE"
    /\ portrait' = [portrait EXCEPT ![r] = a]
    /\ UNCHANGED <<assets, object, touched, standing, call, tick>>

Stands(r, s) ==
    /\ standing' = [standing EXCEPT ![r] = s]
    /\ UNCHANGED <<assets, object, touched, portrait, call, tick>>

\* RegistrationService.submit, as far as the image goes; once more after a reopening.
SubmitPortrait(r) ==
    /\ ~OwnerLocked(r) /\ standing[r] = "OPEN"
    /\ portrait[r] # NoAsset /\ assets[portrait[r]].status = "READY"
    /\ Stands(r, "SUBMITTED")

\* OTPService.verify writes PHONE_VERIFIED over any status.
VerifyReopens(r) == ~OwnerLocked(r) /\ Stands(r, "OPEN")

\* RegistrationAdminService.update: a cancellation, or the restoration of a cancelled row.
AdminCancels(r) == ~OwnerLocked(r) /\ Stands(r, "CANCELLED")

AdminRestores(r) == ~OwnerLocked(r) /\ standing[r] = "CANCELLED" /\ Stands(r, "IMPOSED")

(* verify_callback writes COMPLETED or SUBMITTED over any status, which    *)
(* makes no difference here to a registration that stands submitted.       *)
PaymentDecides(r) == ~OwnerLocked(r) /\ standing[r] # "SUBMITTED" /\ Stands(r, "IMPOSED")

Elapse ==
    /\ tick < LastTick
    /\ tick' = tick + 1
    /\ UNCHANGED <<assets, object, touched, portrait, standing, call>>

MediaNext ==
    \/ \E a \in Assets, as \in Declared :
          \/ \E v \in {"PUBLIC", "PRIVATE"} : InitiateUpload(a, as, v)
          \/ \E r \in Owners : InitiatePortrait(r, a, as)
    \/ \E a \in Assets, file \in File : Send(a, file)
    \/ \E q \in Completions :
          \/ \E a \in Assets, r \in Owners \cup {NoOwner} : CompleteBegin(q, a, r)
          \/ InspectMatches(q) \/ InspectDiffers(q) \/ CompleteCommit(q) \/ CompleteFails(q)
    \/ \E r \in Owners :
          \/ \E a \in Assets \cup {NoAsset} : PatchPortrait(r, a)
          \/ SubmitPortrait(r)
          \/ VerifyReopens(r) \/ AdminCancels(r) \/ AdminRestores(r) \/ PaymentDecides(r)
    \/ Elapse

MediaSpec == MediaInit /\ [][MediaNext]_mediaVars

-----------------------------------------------------------------------------
(* Properties.                                                             *)

(* Rows, objects and pointers have their types, and a pointer names a row  *)
(* that exists.                                                            *)
MediaTypeOK ==
    /\ assets \in [Assets -> Media] /\ object \in [Assets -> File \cup {NoFile}]
    /\ touched \subseteq Assets /\ tick \in 0..LastTick
    /\ standing \in [Owners -> Standing]
    /\ portrait \in [Owners -> Assets \cup {NoAsset}]
    /\ \A r \in Owners : portrait[r] # NoAsset => assets[portrait[r]].status # "NONE"

(* A completed asset keeps the digest and dimensions of the call that      *)
(* completed it: no other completion is still at work on it. And no row is *)
(* committed as REJECTED, so that an upload that did not match can be      *)
(* repeated.                                                               *)
Settled ==
    \A a \in Assets :
        /\ assets[a].status = "READY" => ~Inspecting(a)
        /\ assets[a].status # "REJECTED"

(* The object of a completed asset is the one that was declared, unless    *)
(* the form was used again after the inspection; then it still has the     *)
(* declared type, at most the permitted size.  The form outlives the       *)
(* completion, and nothing inspects the object a second time.              *)
ServedAsDeclared ==
    \A a \in Assets :
        assets[a].status = "READY" =>
            /\ a \notin touched => object[a] = assets[a].as
            /\ object[a].type = assets[a].as.type
            /\ object[a].size \in 1..MaxBytes

(* No registration's image, old or new, completed by whichever of the two  *)
(* handlers, is ever one that download_media serves to the public.  And a  *)
(* registration its applicant submitted has an image while it stands,      *)
(* however often it was reopened and edited before; though not always a    *)
(* completed one: the upload of a new one may begin after the submission.  *)
(* One that is submitted because the administrator restored it, or because *)
(* a payment was decided after it was reopened, may have none.             *)
PortraitsStayPrivate ==
    /\ \A r \in Owners : portrait[r] # NoAsset => assets[portrait[r]].visibility = "PRIVATE"
    /\ \A r \in Owners : standing[r] = "SUBMITTED" => portrait[r] # NoAsset

(* What a completed row says is true of its object, as far as the code can *)
(* know, and stays said; and personal images are not served to the public. *)
MediaTruthful == Settled /\ ServedAsDeclared /\ PortraitsStayPrivate
=============================================================================
