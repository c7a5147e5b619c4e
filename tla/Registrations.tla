--------------------------- MODULE Registrations ---------------------------
(***************************************************************************)
(* Exam registrations of one tenant and one exam: the rows of the table    *)
(* `registrations`, the public handlers that edit, verify and submit them  *)
(* (app/registrations/router.py, service.py; app/otp/service.py) and the   *)
(* administrator's update (app/registrations/admin_service.py).            *)
(*                                                                         *)
(* Every handler is one PostgreSQL transaction that first locks its        *)
(* registration row (authorized_draft with lock=True, get with lock=True), *)
(* so a handler is one action, guarded by "no other request holds the row" *)
(* (held).  The one exception is submit(): it takes a second lock, on the  *)
(* exam row, reads the count of submitted rows of OTHER registrations and  *)
(* then writes, so it is split into SubmitBegin and SubmitCommit.          *)
(***************************************************************************)
EXTENDS Naturals, FiniteSets

CONSTANTS
    Regs,           \* identities of registration rows
    NoReg,          \* "no registration", of a transaction not yet made
    Capacity,       \* exam_offerings.capacity
    LateVerifiers   \* registrations for which a right one-time code may reach
                    \* otp/verify after the row left the editable statuses

ASSUME RegsAssumption == IsFiniteSet(Regs) /\ NoReg \notin Regs
ASSUME CapacityAssumption == Capacity \in Nat \ {0}
ASSUME LateVerifiersAssumption == LateVerifiers \subseteq Regs

VARIABLES
    reg,        \* the table: a row for each identity, ABSENT before create_draft
    held,       \* rows whose lock a request keeps over an await or a second lock
    submitting  \* registrations whose submit() holds the exam row

regVars == <<reg, held, submitting>>

-----------------------------------------------------------------------------

MUTABLE_STATUSES == {"PHONE_VERIFICATION_REQUIRED", "PHONE_VERIFIED"}

SUBMITTED_STATUSES == {"SUBMITTED", "PAYMENT_PENDING", "COMPLETED"}

Statuses == {"ABSENT", "CANCELLED"} \cup MUTABLE_STATUSES \cup SUBMITTED_STATUSES

(* verified: phone_verified_at is set; challenge: an OTP challenge for the *)
(* current phone is neither consumed, invalidated nor expired; form: all   *)
(* required fields, both contacts and valid extra answers are there;       *)
(* image: the status of the media asset profile_image_id names;            *)
(* submitted: submitted_at is set; audited: the audit trail has an         *)
(* administrator's update of the row.                                      *)
Registration ==
    [status : Statuses, verified : BOOLEAN, challenge : BOOLEAN,
     form : BOOLEAN, image : {"NONE", "PENDING", "READY"},
     payment : {"PENDING", "SUCCESSFUL", "FAILED"},
     submitted : BOOLEAN, audited : BOOLEAN]

NoRow == [status |-> "ABSENT", verified |-> FALSE, challenge |-> FALSE,
          form |-> FALSE, image |-> "NONE", payment |-> "PENDING",
          submitted |-> FALSE, audited |-> FALSE]

RegTypeOK ==
    /\ reg \in [Regs -> Registration]
    /\ held \in SUBSET Regs
    /\ submitting \in SUBSET Regs

\* The request of registration r found its row and holds the row lock.
Locks(r) == r \notin held /\ reg[r].status # "ABSENT"

\* The rows submit() counts against the capacity of the exam.
Occupied == {r \in Regs : reg[r].status \in SUBMITTED_STATUSES}

RegInit ==
    /\ reg = [r \in Regs |-> NoRow]
    /\ held = {}
    /\ submitting = {}

-----------------------------------------------------------------------------
(* Mutations: slips in a handler that the properties must notice.  They    *)
(* are no part of RegNext.                                                 *)

\* Contacts may be replaced in any status.
ReplaceContacts_AnyStatus(r, form) ==
    /\ Locks(r)
    /\ reg' = [reg EXCEPT ![r].form = form]
    /\ UNCHANGED <<held, submitting>>

\* The exam row is read without FOR UPDATE.
SubmitBegin_NoExamLock(r) ==
    /\ Locks(r)
    /\ reg[r].status \in MUTABLE_STATUSES
    /\ reg[r].verified /\ reg[r].form /\ reg[r].image = "READY"
    /\ Cardinality(Occupied) < Capacity
    /\ submitting' = submitting \cup {r}
    /\ held' = held \cup {r}
    /\ UNCHANGED reg

\* An update with only a note writes its missing status.
AdminUpdate_WritesMissing(r, requested) ==
    /\ Locks(r)
    /\ reg' = [reg EXCEPT ![r].status = requested, ![r].audited = TRUE]
    /\ UNCHANGED <<held, submitting>>

-----------------------------------------------------------------------------
(* Public handlers.                                                        *)

\* create_draft locks the exam row: it waits while a submit() holds it.
CreateDraft(r) ==
    /\ reg[r].status = "ABSENT"
    /\ submitting = {}
    /\ reg' = [reg EXCEPT ![r].status = "PHONE_VERIFICATION_REQUIRED"]
    /\ UNCHANGED <<held, submitting>>

(* PATCH: any subset of the fields, hence any new value of form; an image  *)
(* reference is cleared or names a READY private asset; a new phone drops  *)
(* the verification and the pending challenges.                            *)
Patch(r, form, image, newPhone) ==
    /\ Locks(r)
    /\ reg[r].status \in MUTABLE_STATUSES
    /\ image \in {reg[r].image, "NONE", "READY"}
    /\ reg' = [reg EXCEPT ![r] =
                 [@ EXCEPT !.form = form,
                           !.image = image,
                           !.verified = reg[r].verified /\ ~newPhone,
                           !.challenge = reg[r].challenge /\ ~newPhone,
                           !.status = IF newPhone
                                      THEN "PHONE_VERIFICATION_REQUIRED"
                                      ELSE reg[r].status]]
    /\ UNCHANGED <<held, submitting>>

\* PUT contacts: one or two contacts replace all earlier ones.
ReplaceContacts(r, form) ==
    /\ Locks(r)
    /\ reg[r].status \in MUTABLE_STATUSES
    /\ reg' = [reg EXCEPT ![r].form = form]
    /\ UNCHANGED <<held, submitting>>

\* A new upload becomes the profile image at once, in any status.
InitiateProfileImageUpload(r) ==
    /\ Locks(r)
    /\ reg' = [reg EXCEPT ![r].image = "PENDING"]
    /\ UNCHANGED <<held, submitting>>

CompleteProfileImageUpload(r) ==
    /\ Locks(r)
    /\ reg[r].image = "PENDING"
    /\ reg' = [reg EXCEPT ![r].image = "READY"]
    /\ UNCHANGED <<held, submitting>>

\* A new challenge replaces the unconsumed ones, in any status.
SendOtp(r) ==
    /\ Locks(r)
    /\ reg' = [reg EXCEPT ![r].challenge = TRUE]
    /\ UNCHANGED <<held, submitting>>

\* The right code.  The handler does not look at the status it overwrites.
VerifyOtp(r) ==
    /\ Locks(r)
    /\ reg[r].challenge
    /\ reg[r].status \in MUTABLE_STATUSES \/ r \in LateVerifiers
    /\ reg' = [reg EXCEPT ![r] = [@ EXCEPT !.challenge = FALSE,
                                           !.verified = TRUE,
                                           !.status = "PHONE_VERIFIED"]]
    /\ UNCHANGED <<held, submitting>>

\* The challenge expires, or wrong codes exhaust its attempts.
LoseChallenge(r) ==
    /\ Locks(r)
    /\ reg[r].challenge
    /\ reg' = [reg EXCEPT ![r].challenge = FALSE]
    /\ UNCHANGED <<held, submitting>>

(* submit(), first half: the row is locked and validated, the exam row is  *)
(* locked, the submitted rows are counted.                                 *)
SubmitBegin(r) ==
    /\ Locks(r)
    /\ reg[r].status \in MUTABLE_STATUSES
    /\ reg[r].verified
    /\ reg[r].form
    /\ reg[r].image = "READY"
    /\ submitting = {}
    /\ Cardinality(Occupied) < Capacity
    /\ submitting' = submitting \cup {r}
    /\ held' = held \cup {r}
    /\ UNCHANGED reg

SubmitCommit(r) ==
    /\ r \in submitting
    /\ reg' = [reg EXCEPT ![r].status = "SUBMITTED", ![r].submitted = TRUE]
    /\ submitting' = submitting \ {r}
    /\ held' = held \ {r}

\* The transaction rolls back: a crash, a lost connection.
SubmitAbort(r) ==
    /\ r \in submitting
    /\ submitting' = submitting \ {r}
    /\ held' = held \ {r}
    /\ UNCHANGED reg

-----------------------------------------------------------------------------
(* The administrator's update: a new status or, with NOTE, only an         *)
(* internal note.  Each leaves an audit event.                             *)

AdminUpdate(r, requested) ==
    /\ Locks(r)
    /\ requested = "SUBMITTED" => reg[r].status = "CANCELLED"
    /\ requested = "CANCELLED" => reg[r].status # "COMPLETED"
    /\ reg' = [reg EXCEPT ![r] =
                 [@ EXCEPT !.status = IF requested = "NOTE"
                                      THEN reg[r].status ELSE requested,
                           !.audited = TRUE]]
    /\ UNCHANGED <<held, submitting>>

-----------------------------------------------------------------------------

RegNext ==
    \E r \in Regs :
        \/ CreateDraft(r)
        \/ \E form, newPhone \in BOOLEAN, image \in {"NONE", "PENDING", "READY"} :
               Patch(r, form, image, newPhone)
        \/ \E form \in BOOLEAN : ReplaceContacts(r, form)
        \/ InitiateProfileImageUpload(r)
        \/ CompleteProfileImageUpload(r)
        \/ SendOtp(r)
        \/ VerifyOtp(r)
        \/ LoseChallenge(r)
        \/ SubmitBegin(r)
        \/ SubmitCommit(r)
        \/ SubmitAbort(r)
        \/ \E requested \in {"SUBMITTED", "CANCELLED", "NOTE"} :
               AdminUpdate(r, requested)
=============================================================================
