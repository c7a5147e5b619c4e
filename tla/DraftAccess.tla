---------------------------- MODULE DraftAccess ----------------------------
(***************************************************************************)
(* What lets an applicant act on a draft: the draft token, which expires   *)
(* and can be replaced (RegistrationService.authorized_draft and           *)
(* rotate_token), and the link back from the payment page, a signed state  *)
(* that expires on its own (app/payments/router.py, PaymentService).       *)
(*                                                                         *)
(* A request reads its token from the header when it arrives, waits for    *)
(* the row of the registration, and holds it until it commits.  Times are  *)
(* compared when the row is read, never again.  What the requests write    *)
(* to the registration is left to Registrations and Payments.              *)
(***************************************************************************)
EXTENDS Naturals, FiniteSets

CONSTANTS
    Drafts,         \* registrations
    Visits,         \* requests of applicants
    Returns,        \* callbacks: the browser comes back from the payment page
    NoDraft,
    TokenTTL,       \* settings.draft_token_ttl_seconds
    LinkTTL,        \* settings.callback_token_ttl_seconds
    MaxTokens,      \* bound on rotations
    MaxPayments,    \* bound on payments of one registration
    LastMoment      \* bound on time

ASSUME AccessAssumption ==
    /\ TokenTTL \in Nat /\ LinkTTL \in Nat /\ MaxTokens \in Nat \ {0}
    /\ MaxPayments \in Nat /\ LastMoment \in Nat /\ NoDraft \notin Drafts

VARIABLES
    draft,      \* draft_token_hash (the number of the token) and its expiry
    payment,    \* its last transaction: number, status, expiry of the link
    visit,      \* the requests
    back,       \* the callbacks: for which transaction of which registration
    moment

accessVars == <<draft, payment, visit, back, moment>>

Draft == [token : 1..MaxTokens, expires : 0..LastMoment + TokenTTL]

Payment == [no : 0..MaxPayments, status : {"NONE", "PENDING", "DECIDED"}, expires : 0..LastMoment + LinkTTL]

Visit == [at : {"start", "waiting", "admitted", "signed"}, wants : {"read", "patch", "rotate", "pay"},
          draft : Drafts \cup {NoDraft}, token : 1..MaxTokens, signed : 0..LastMoment]

Abroad == [draft |-> NoDraft, no |-> 0]

Away == [at |-> "start", wants |-> "read", draft |-> NoDraft, token |-> 1, signed |-> 0]

AccessInit ==
    /\ draft = [d \in Drafts |-> [token |-> 1, expires |-> TokenTTL]]
    /\ payment = [d \in Drafts |-> [no |-> 0, status |-> "NONE", expires |-> 0]]
    /\ visit = [v \in Visits |-> Away]
    /\ back = [b \in Returns |-> Abroad]
    /\ moment = 0

RowHeld(d) == \E v \in Visits : visit[v].at \in {"admitted", "signed"} /\ visit[v].draft = d

\* Mutation: the expiry of the token is not looked at.
Admissible_Ageless(d, token) == draft[d].token = token

Admissible(d, token) == draft[d].expires > moment /\ draft[d].token = token

-----------------------------------------------------------------------------
(* The requests with a draft token.                                        *)

Come(v, wants, d, token) ==
    /\ visit[v] = Away /\ token <= draft[d].token
    /\ visit' = [visit EXCEPT ![v] = [Away EXCEPT
           !.at = "waiting", !.wants = wants, !.draft = d, !.token = token]]
    /\ UNCHANGED <<draft, payment, back, moment>>

\* get_registration and payment_status take no lock and change nothing.
Read(v) ==
    /\ visit[v].at = "waiting" /\ visit[v].wants = "read"
    /\ visit' = [visit EXCEPT ![v] = Away]
    /\ UNCHANGED <<draft, payment, back, moment>>

\* Mutation: the token is compared with a row that is not locked.
Authorize_NoLock(v) ==
    LET d == visit[v].draft
    IN  /\ visit[v].at = "waiting" /\ visit[v].wants # "read"
        /\ Admissible(d, visit[v].token)
        /\ visit' = [visit EXCEPT ![v].at = "admitted"]
        /\ UNCHANGED <<draft, payment, back, moment>>

\* SELECT ... FOR UPDATE gives the row as the last holder has left it.
Authorize(v) ==
    LET d == visit[v].draft
    IN  /\ visit[v].at = "waiting" /\ visit[v].wants # "read"
        /\ ~RowHeld(d)
        /\ Admissible(d, visit[v].token)
        /\ visit' = [visit EXCEPT ![v].at = "admitted"]
        /\ UNCHANGED <<draft, payment, back, moment>>

\* DRAFT_ACCESS_DENIED.
Deny(v) ==
    LET d == visit[v].draft
    IN  /\ visit[v].at = "waiting" /\ ~RowHeld(d)
        /\ ~Admissible(d, visit[v].token)
        /\ visit' = [visit EXCEPT ![v] = Away]
        /\ UNCHANGED <<draft, payment, back, moment>>

Patched(v) ==
    /\ visit[v].at = "admitted" /\ visit[v].wants = "patch"
    /\ visit' = [visit EXCEPT ![v] = Away]
    /\ UNCHANGED <<draft, payment, back, moment>>

\* Mutation: the new token's term is added to the old one's.
Rotated_Extends(v) ==
    LET d == visit[v].draft
    IN  /\ visit[v].at = "admitted" /\ visit[v].wants = "rotate"
        /\ draft[d].token < MaxTokens
        /\ draft' = [draft EXCEPT ![d] = [token |-> @.token + 1, expires |-> @.expires + TokenTTL]]
        /\ visit' = [visit EXCEPT ![v] = Away]
        /\ UNCHANGED <<payment, back, moment>>

\* rotate_token: the new one has a new term.
Rotated(v) ==
    LET d == visit[v].draft
    IN  /\ visit[v].at = "admitted" /\ visit[v].wants = "rotate"
        /\ draft[d].token < MaxTokens
        /\ draft' = [draft EXCEPT ![d] = [token |-> @.token + 1, expires |-> moment + TokenTTL]]
        /\ visit' = [visit EXCEPT ![v] = Away]
        /\ UNCHANGED <<payment, back, moment>>

\* PaymentService.initiate signs the link, then waits for the gateway.
Signed(v) ==
    /\ visit[v].at = "admitted" /\ visit[v].wants = "pay"
    /\ payment[visit[v].draft].status # "PENDING"
    /\ visit' = [visit EXCEPT ![v].at = "signed", ![v].signed = moment]
    /\ UNCHANGED <<draft, payment, back, moment>>

Opened(v) ==
    /\ visit[v].at = "signed" /\ payment[visit[v].draft].no < MaxPayments
    /\ payment' = [payment EXCEPT ![visit[v].draft] =
           [no |-> @.no + 1, status |-> "PENDING", expires |-> visit[v].signed + LinkTTL]]
    /\ visit' = [visit EXCEPT ![v] = Away]
    /\ UNCHANGED <<draft, back, moment>>

\* Refused further on (a pending payment, a state that does not allow it), or dead.
VisitFails(v) ==
    /\ visit[v].at \in {"admitted", "signed"}
    /\ visit' = [visit EXCEPT ![v] = Away]
    /\ UNCHANGED <<draft, payment, back, moment>>

-----------------------------------------------------------------------------
(* payment_callback: the state is verified before the transaction begins.  *)

\* Mutation: the state does not expire.
Return_Ageless(b, d) ==
    /\ back[b] = Abroad
    /\ payment[d].status = "PENDING"
    /\ back' = [back EXCEPT ![b] = [draft |-> d, no |-> payment[d].no]]
    /\ UNCHANGED <<draft, payment, visit, moment>>

Return(b, d) ==
    /\ back[b] = Abroad
    /\ payment[d].status = "PENDING" /\ moment < payment[d].expires
    /\ back' = [back EXCEPT ![b] = [draft |-> d, no |-> payment[d].no]]
    /\ UNCHANGED <<draft, payment, visit, moment>>

\* The row of the registration is updated, too; a decided payment stays.
Decide(b) ==
    /\ back[b] # Abroad /\ ~RowHeld(back[b].draft)
    /\ payment' = [payment EXCEPT ![back[b].draft].status =
                      IF payment[back[b].draft].no = back[b].no THEN "DECIDED" ELSE @]
    /\ back' = [back EXCEPT ![b] = Abroad]
    /\ UNCHANGED <<draft, visit, moment>>

ReturnFails(b) ==
    /\ back[b] # Abroad
    /\ back' = [back EXCEPT ![b] = Abroad]
    /\ UNCHANGED <<draft, payment, visit, moment>>

Later ==
    /\ moment < LastMoment
    /\ moment' = moment + 1
    /\ UNCHANGED <<draft, payment, visit, back>>

AccessNext ==
    \/ \E v \in Visits :
          \/ \E wants \in {"read", "patch", "rotate", "pay"}, d \in Drafts, t \in 1..MaxTokens :
                Come(v, wants, d, t)
          \/ Read(v) \/ Authorize(v) \/ Deny(v) \/ Patched(v) \/ Rotated(v)
          \/ Signed(v) \/ Opened(v) \/ VisitFails(v)
    \/ \E b \in Returns : Decide(b) \/ ReturnFails(b) \/ \E d \in Drafts : Return(b, d)
    \/ Later

AccessSpec == AccessInit /\ [][AccessNext]_accessVars

-----------------------------------------------------------------------------
(* Properties.                                                             *)

\* Rows and requests have their types, and no token outlives its term.
AccessTypeOK ==
    /\ draft \in [Drafts -> Draft] /\ payment \in [Drafts -> Payment]
    /\ visit \in [Visits -> Visit]
    /\ back \in [Returns -> [draft : Drafts \cup {NoDraft}, no : 0..MaxPayments]]
    /\ moment \in 0..LastMoment
    /\ \A d \in Drafts : draft[d].expires <= moment + TokenTTL

(* Whoever holds the row has the token that is current: once a rotation    *)
(* has committed, nothing is written with an older token, not even by a    *)
(* request that arrived, or was waiting for the row, before.               *)
OldTokensAreDead ==
    \A v \in Visits :
        visit[v].at \in {"admitted", "signed"} => draft[visit[v].draft].token = visit[v].token

LockedOut(d) == moment >= draft[d].expires /\ ~RowHeld(d)

(* An expired token is never revived: with no request left that was        *)
(* admitted in time, none is admitted any more, and no rotation happens.   *)
ExpiredStaysExpired == [][\A d \in Drafts : LockedOut(d) => LockedOut(d)']_accessVars

Abandoned(d) ==
    /\ payment[d].status = "PENDING" /\ moment >= payment[d].expires
    /\ \A b \in Returns : back[b] # [draft |-> d, no |-> payment[d].no]

(* A payment whose link has expired, with no callback on its way, is       *)
(* pending for good, and no other payment of the registration begins: "A   *)
(* payment attempt is already pending for this registration."              *)
(* (app/payments/service.py:63) is all that the applicant gets.            *)
AbandonedStaysPending ==
    [][\A d \in Drafts :
          Abandoned(d) => Abandoned(d)' /\ payment'[d].no = payment[d].no]_accessVars

(* Nothing that has expired comes back to life: neither a draft token nor  *)
(* the link back from a payment.                                           *)
ExpiryIsFinal == ExpiredStaysExpired /\ AbandonedStaysPending
=============================================================================
