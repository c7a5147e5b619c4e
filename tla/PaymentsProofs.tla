--------------------------- MODULE PaymentsProofs ---------------------------
(***************************************************************************)
(* Proofs about Payments, for every number of registrations, transactions  *)
(* and keys, every capacity and every set of late verifiers.               *)
(***************************************************************************)
EXTENDS Payments, FiniteSetTheorems, TLAPS

-----------------------------------------------------------------------------
(* Type correctness, table by table.                                       *)

\* No handler of the registration module breaks the registrations table.
LEMMA RegStepType == RegTypeOK /\ RegNext => RegTypeOK'
<1> SUFFICES ASSUME RegTypeOK, NEW r \in Regs,
                    \/ CreateDraft(r)
                    \/ \E form, newPhone \in BOOLEAN, image \in {"NONE", "PENDING", "READY"} :
                           Patch(r, form, image, newPhone)
                    \/ \E form \in BOOLEAN : ReplaceContacts(r, form)
                    \/ InitiateProfileImageUpload(r)
                    \/ CompleteProfileImageUpload(r)
                    \/ SendOtp(r)
                    \/ VerifyOtp(r)
                    \/ LoseChallenge(r)
                    \/ SubmitBegin(r)
                    \/ SubmitCommit(r)
                    \/ SubmitAbort(r)
                    \/ \E requested \in {"SUBMITTED", "CANCELLED", "NOTE"} :
                           AdminUpdate(r, requested)
             PROVE  RegTypeOK'
  BY DEF RegNext
<1>a. reg[r] \in Registration
  BY DEF RegTypeOK
<1>b. ASSUME NEW row \in Registration, reg' = [reg EXCEPT ![r] = row], UNCHANGED <<held, submitting>>
      PROVE  RegTypeOK'
  BY <1>b DEF RegTypeOK
<1>c. \A s \in Statuses : [reg[r] EXCEPT !.status = s] \in Registration
  BY <1>a DEF Registration
<1>1. CASE CreateDraft(r)
  BY <1>1, <1>b, <1>c DEF CreateDraft, Statuses, MUTABLE_STATUSES
<1>2. ASSUME NEW form \in BOOLEAN, NEW newPhone \in BOOLEAN,
             NEW image \in {"NONE", "PENDING", "READY"},
             Patch(r, form, image, newPhone)
      PROVE  RegTypeOK'
  <2> DEFINE row == [reg[r] EXCEPT
                       !.form = form, !.image = image,
                       !.verified = reg[r].verified /\ ~newPhone,
                       !.challenge = reg[r].challenge /\ ~newPhone,
                       !.status = IF newPhone THEN "PHONE_VERIFICATION_REQUIRED"
                                  ELSE reg[r].status]
  <2>1. "PHONE_VERIFICATION_REQUIRED" \in Statuses
    BY DEF Statuses, MUTABLE_STATUSES
  <2>2. row \in Registration
    BY <1>a, <2>1 DEF Registration
  <2>3. reg' = [reg EXCEPT ![r] = row] /\ UNCHANGED <<held, submitting>>
    BY <1>2 DEF Patch
  <2>4. QED
    BY <2>2, <2>3, <1>b
<1>3. ASSUME NEW form \in BOOLEAN, ReplaceContacts(r, form)
      PROVE  RegTypeOK'
  <2>1. [reg[r] EXCEPT !.form = form] \in Registration
    BY <1>a DEF Registration
  <2>2. QED
    BY <2>1, <1>3, <1>b DEF ReplaceContacts
<1>4. CASE InitiateProfileImageUpload(r) \/ CompleteProfileImageUpload(r)
  <2>1. \A image \in {"PENDING", "READY"} : [reg[r] EXCEPT !.image = image] \in Registration
    BY <1>a DEF Registration
  <2>2. QED
    BY <2>1, <1>4, <1>b DEF InitiateProfileImageUpload, CompleteProfileImageUpload
<1>5. CASE SendOtp(r) \/ LoseChallenge(r)
  <2>1. \A live \in BOOLEAN : [reg[r] EXCEPT !.challenge = live] \in Registration
    BY <1>a DEF Registration
  <2>2. QED
    BY <2>1, <1>5, <1>b DEF SendOtp, LoseChallenge
<1>6. CASE VerifyOtp(r)
  <2> DEFINE row == [reg[r] EXCEPT !.challenge = FALSE, !.verified = TRUE,
                                   !.status = "PHONE_VERIFIED"]
  <2>1. row \in Registration
    BY <1>a DEF Registration, Statuses, MUTABLE_STATUSES
  <2>2. reg' = [reg EXCEPT ![r] = row] /\ UNCHANGED <<held, submitting>>
    BY <1>6 DEF VerifyOtp
  <2>3. QED
    BY <2>1, <2>2, <1>b
<1>7. CASE SubmitBegin(r) \/ SubmitAbort(r)
  BY <1>7 DEF RegTypeOK, SubmitBegin, SubmitAbort
<1>8. CASE SubmitCommit(r)
  <2>1. [reg[r] EXCEPT !.status = "SUBMITTED", !.submitted = TRUE] \in Registration
    BY <1>a DEF Registration, Statuses, SUBMITTED_STATUSES
  <2>2. QED
    BY <2>1, <1>8 DEF RegTypeOK, SubmitCommit
<1>9. ASSUME NEW requested \in {"SUBMITTED", "CANCELLED", "NOTE"},
             AdminUpdate(r, requested)
      PROVE  RegTypeOK'
  <2> DEFINE row == [reg[r] EXCEPT
                       !.status = IF requested = "NOTE" THEN reg[r].status ELSE requested,
                       !.audited = TRUE]
  <2>1. row \in Registration
    BY <1>a DEF Registration, Statuses, SUBMITTED_STATUSES
  <2>2. reg' = [reg EXCEPT ![r] = row] /\ UNCHANGED <<held, submitting>>
    BY <1>9 DEF AdminUpdate
  <2>3. QED
    BY <2>1, <2>2, <1>b
<1>10. QED
  BY <1>1, <1>2, <1>3, <1>4, <1>5, <1>6, <1>7, <1>8, <1>9

\* No payment handler breaks the registrations table.
LEMMA PayStepRegType == TypeOK /\ PayNext => RegTypeOK'
<1> SUFFICES ASSUME TypeOK, NEW t \in Txns,
                    \/ \E r \in Regs, k \in Keys : InitiateOpen(r, t, k)
                    \/ InitiateCommit(t)
                    \/ InitiateAbort(t)
                    \/ \E outcome \in {"PAID", "CLOSED"} : SettleOrder(t, outcome)
                    \/ CallbackVerify(t)
                    \/ CallbackCommit(t)
                    \/ CallbackAbort(t)
             PROVE  RegTypeOK'
  BY DEF PayNext
<1> USE DEF TypeOK, RegTypeOK, Registration, Statuses, MUTABLE_STATUSES,
            SUBMITTED_STATUSES
<1>1. ASSUME NEW r \in Regs, NEW k \in Keys, InitiateOpen(r, t, k)
      PROVE  RegTypeOK'
  BY <1>1 DEF InitiateOpen, Opens
<1>2. CASE InitiateCommit(t) \/ InitiateAbort(t)
  BY <1>2 DEF InitiateCommit, InitiateAbort
<1>3. ASSUME NEW outcome \in {"PAID", "CLOSED"}, SettleOrder(t, outcome)
      PROVE  RegTypeOK'
  BY <1>3 DEF SettleOrder
<1>4. CASE CallbackVerify(t) \/ CallbackCommit(t) \/ CallbackAbort(t)
  BY <1>4 DEF CallbackVerify, CallbackCommit, CallbackAbort
<1>5. QED
  BY <1>1, <1>2, <1>3, <1>4

\* No payment handler breaks the transactions, nor what is known of the gateway.
LEMMA PayStepPayType == TypeOK /\ PayNext => PayTypeOK'
<1> SUFFICES ASSUME PayTypeOK, NEW t \in Txns,
                    \/ \E r \in Regs, k \in Keys : InitiateOpen(r, t, k)
                    \/ InitiateCommit(t)
                    \/ InitiateAbort(t)
                    \/ \E outcome \in {"PAID", "CLOSED"} : SettleOrder(t, outcome)
                    \/ CallbackVerify(t)
                    \/ CallbackCommit(t)
                    \/ CallbackAbort(t)
             PROVE  PayTypeOK'
  BY DEF PayNext, TypeOK
<1> USE DEF PayTypeOK, Transaction, TxnStatuses
<1>1. ASSUME NEW r \in Regs, NEW k \in Keys, InitiateOpen(r, t, k)
      PROVE  PayTypeOK'
  BY <1>1 DEF InitiateOpen, Opens
<1>2. CASE InitiateCommit(t) \/ InitiateAbort(t)
  BY <1>2 DEF InitiateCommit, InitiateAbort
<1>3. ASSUME NEW outcome \in {"PAID", "CLOSED"}, SettleOrder(t, outcome)
      PROVE  PayTypeOK'
  BY <1>3 DEF SettleOrder
<1>4. CASE CallbackVerify(t) \/ CallbackCommit(t) \/ CallbackAbort(t)
  BY <1>4 DEF CallbackVerify, CallbackCommit, CallbackAbort
<1>5. QED
  BY <1>1, <1>2, <1>3, <1>4

LEMMA TypeStep == TypeOK /\ [Next]_vars => TypeOK'
<1> SUFFICES ASSUME TypeOK, [Next]_vars PROVE TypeOK'
  OBVIOUS
<1>1. CASE RegNext /\ UNCHANGED payVars
  <2>1. RegTypeOK'
    BY <1>1, RegStepType DEF TypeOK
  <2>2. PayTypeOK'
    BY <1>1 DEF TypeOK, PayTypeOK, payVars
  <2>3. QED
    BY <2>1, <2>2 DEF TypeOK
<1>2. CASE PayNext
  BY <1>2, PayStepRegType, PayStepPayType DEF TypeOK
<1>3. CASE UNCHANGED vars
  BY <1>3 DEF vars, TypeOK, RegTypeOK, PayTypeOK
<1>4. QED
  BY <1>1, <1>2, <1>3 DEF Next

LEMMA InitType == Init => TypeOK
  BY DEF Init, RegInit, NoRow, TypeOK, RegTypeOK, PayTypeOK, Registration,
         Statuses, MUTABLE_STATUSES, SUBMITTED_STATUSES, Transaction, TxnStatuses

(* Rows, transactions and locks keep their types: the statuses the         *)
(* handlers write are those the CHECK constraints of the schema allow.     *)
THEOREM TypeCorrect == Spec => []TypeOK
  BY InitType, TypeStep, PTL DEF Spec
-----------------------------------------------------------------------------
(* The handlers of the registration module, reduced to what the invariant  *)
(* depends on.  All but submit() edit one unheld row and move no lock.     *)

Edit(r) ==
    /\ r \in held => reg[r].status = "ABSENT"
    /\ UNCHANGED <<held, submitting>>
    /\ \A s \in Regs \ {r} : reg'[s] = reg[s]
    /\ reg'[r].payment = reg[r].payment
    /\ reg'[r].submitted = reg[r].submitted
    /\ reg[r].audited => reg'[r].audited
    /\ \/ reg[r].status \in MUTABLE_STATUSES \cup {"ABSENT"} \/ r \in LateVerifiers
       \/ reg'[r].verified = reg[r].verified /\ reg'[r].form = reg[r].form
    /\ \/ reg'[r].status = reg[r].status
       \/ /\ reg[r].status \in MUTABLE_STATUSES \cup {"ABSENT"} \/ r \in LateVerifiers
          /\ reg'[r].status \in MUTABLE_STATUSES
       \/ /\ reg[r].status = "CANCELLED"
          /\ reg'[r].status = "SUBMITTED"
          /\ reg'[r].audited
       \/ /\ reg[r].status # "COMPLETED"
          /\ reg'[r].status = "CANCELLED"
          /\ reg'[r].audited

\* Every step of the registration module is an edit or a half of submit().
LEMMA RegSteps ==
    ASSUME RegTypeOK, RegNext
    PROVE  \E r \in Regs : Edit(r) \/ SubmitBegin(r) \/ SubmitCommit(r) \/ SubmitAbort(r)
<1> SUFFICES ASSUME NEW r \in Regs,
                    \/ CreateDraft(r)
                    \/ \E form, newPhone \in BOOLEAN, image \in {"NONE", "PENDING", "READY"} :
                           Patch(r, form, image, newPhone)
                    \/ \E form \in BOOLEAN : ReplaceContacts(r, form)
                    \/ InitiateProfileImageUpload(r)
                    \/ CompleteProfileImageUpload(r)
                    \/ SendOtp(r)
                    \/ VerifyOtp(r)
                    \/ LoseChallenge(r)
                    \/ \E requested \in {"SUBMITTED", "CANCELLED", "NOTE"} :
                           AdminUpdate(r, requested)
             PROVE  Edit(r)
  BY DEF RegNext
<1>a. reg \in [Regs -> Registration]
  BY DEF RegTypeOK
<1>b. reg[r] \in Registration
  BY <1>a
<1>1. CASE CreateDraft(r)
  BY <1>1, <1>a, <1>b DEF CreateDraft, Edit, MUTABLE_STATUSES, Registration
<1>2. ASSUME NEW form \in BOOLEAN, NEW newPhone \in BOOLEAN,
             NEW image \in {"NONE", "PENDING", "READY"},
             Patch(r, form, image, newPhone)
      PROVE  Edit(r)
  BY <1>2, <1>a, <1>b DEF Patch, Locks, Edit, MUTABLE_STATUSES, Registration
<1>3. ASSUME NEW form \in BOOLEAN, ReplaceContacts(r, form)
      PROVE  Edit(r)
  BY <1>3, <1>a, <1>b DEF ReplaceContacts, Locks, Edit, MUTABLE_STATUSES, Registration
<1>4. CASE InitiateProfileImageUpload(r) \/ CompleteProfileImageUpload(r)
  BY <1>4, <1>a, <1>b DEF InitiateProfileImageUpload, CompleteProfileImageUpload, Locks, Edit,
                    Registration
<1>5. CASE SendOtp(r) \/ LoseChallenge(r)
  BY <1>5, <1>a, <1>b DEF SendOtp, LoseChallenge, Locks, Edit, Registration
<1>6. CASE VerifyOtp(r)
  BY <1>6, <1>a, <1>b DEF VerifyOtp, Locks, Edit, MUTABLE_STATUSES, Registration
<1>7. ASSUME NEW requested \in {"SUBMITTED", "CANCELLED", "NOTE"},
             AdminUpdate(r, requested)
      PROVE  Edit(r)
  BY <1>7, <1>a, <1>b DEF AdminUpdate, Locks, Edit, Registration
<1>8. QED
  BY <1>1, <1>2, <1>3, <1>4, <1>5, <1>6, <1>7
-----------------------------------------------------------------------------
(* Each step preserves the inductive invariant.                            *)

\* The part of IInv about transactions and the rows they belong to.
PayInv ==
    /\ LockedRows
    /\ TxnRows
    /\ OneActivePayment
    /\ WaitsForAPayment
    /\ CompletedIsPaid
    /\ PaidOnce
    /\ SubmittedIsClosed
    /\ PayersAreSeated

LEMMA EditKeeps ==
    ASSUME TypeOK, PayInv, NEW r \in Regs, Edit(r), UNCHANGED payVars
    PROVE  PayInv'
<1> USE DEF PayInv, payVars
<1>1. LockedRows'
  BY DEF TypeOK, RegTypeOK, LockedRows, Edit, MUTABLE_STATUSES
<1>2. TxnRows' /\ OneActivePayment'
  BY DEF TxnRows, OneActivePayment, TxnsOf
<1>3. WaitsForAPayment'
  BY DEF WaitsForAPayment, TxnsOf, Edit, MUTABLE_STATUSES
<1>4. CompletedIsPaid'
  BY DEF CompletedIsPaid, TxnsOf, Edit, MUTABLE_STATUSES
<1>5. PaidOnce'
  BY DEF PaidOnce, Prompt, TxnsOf, Edit, MUTABLE_STATUSES
<1>6. SubmittedIsClosed'
  BY DEF SubmittedIsClosed, Prompt, Edit, MUTABLE_STATUSES
<1>7. PayersAreSeated'
  BY DEF PayersAreSeated, Untouched, Occupied, Prompt, Edit, MUTABLE_STATUSES,
         SUBMITTED_STATUSES
<1>8. QED
  BY <1>1, <1>2, <1>3, <1>4, <1>5, <1>6, <1>7

LEMMA SubmitKeeps ==
    ASSUME TypeOK, PayInv, NEW r \in Regs, UNCHANGED payVars,
           SubmitBegin(r) \/ SubmitCommit(r) \/ SubmitAbort(r)
    PROVE  PayInv'
<1> USE DEF PayInv, payVars
<1>1. TxnRows' /\ OneActivePayment'
  BY DEF TxnRows, OneActivePayment, TxnsOf
<1>2. CASE SubmitBegin(r)
  <2>1. /\ reg' = reg /\ submitting' = submitting \cup {r} /\ held' = held \cup {r}
        /\ reg[r].status \in MUTABLE_STATUSES
        /\ reg[r].verified /\ reg[r].form
    BY <1>2 DEF SubmitBegin
  <2>2. LockedRows'
    BY <2>1 DEF LockedRows
  <2>3. WaitsForAPayment' /\ CompletedIsPaid' /\ PaidOnce'
    BY <2>1 DEF WaitsForAPayment, CompletedIsPaid, PaidOnce, TxnsOf
  <2>4. SubmittedIsClosed' /\ PayersAreSeated'
    BY <2>1 DEF SubmittedIsClosed, PayersAreSeated, Untouched, Occupied
  <2>5. QED
    BY <1>1, <2>2, <2>3, <2>4
<1>3. CASE SubmitAbort(r)
  <2>1. reg' = reg /\ r \in submitting /\ submitting' = submitting \ {r} /\ held' = held \ {r}
    BY <1>3 DEF SubmitAbort
  <2>2. LockedRows'
    BY <2>1 DEF LockedRows, MUTABLE_STATUSES
  <2>3. WaitsForAPayment' /\ CompletedIsPaid' /\ PaidOnce'
    BY <2>1 DEF WaitsForAPayment, CompletedIsPaid, PaidOnce, TxnsOf
  <2>4. SubmittedIsClosed' /\ PayersAreSeated'
    BY <2>1 DEF SubmittedIsClosed, PayersAreSeated, Untouched, Occupied
  <2>5. QED
    BY <1>1, <2>2, <2>3, <2>4
<1>4. CASE SubmitCommit(r)
  <2>1. reg \in [Regs -> Registration]
    BY DEF TypeOK, RegTypeOK
  <2>2. /\ r \in submitting /\ submitting' = submitting \ {r} /\ held' = held \ {r}
        /\ \A s \in Regs \ {r} : reg'[s] = reg[s]
        /\ reg'[r].status = "SUBMITTED"
        /\ reg'[r].verified = reg[r].verified
        /\ reg'[r].form = reg[r].form
        /\ reg'[r].audited = reg[r].audited
    BY <1>4, <2>1 DEF SubmitCommit, Registration
  <2>3. reg[r].status \in MUTABLE_STATUSES /\ reg[r].verified /\ reg[r].form
    BY <2>2 DEF LockedRows
  <2>4. LockedRows'
    BY <2>2, <2>3, RegsAssumption DEF TypeOK, RegTypeOK, LockedRows, MUTABLE_STATUSES
  <2>5. WaitsForAPayment' /\ CompletedIsPaid'
    BY <2>2 DEF WaitsForAPayment, CompletedIsPaid, TxnsOf
  <2>6. PaidOnce'
    BY <2>2, <2>3 DEF PaidOnce, Prompt, TxnsOf, MUTABLE_STATUSES
  <2>7. SubmittedIsClosed'
    BY <2>2, <2>3 DEF SubmittedIsClosed, Prompt, MUTABLE_STATUSES
  <2>8. PayersAreSeated'
    BY <2>2 DEF PayersAreSeated, Untouched, Prompt, Occupied, SUBMITTED_STATUSES
  <2>9. QED
    BY <1>1, <2>4, <2>5, <2>6, <2>7, <2>8
<1>5. QED
  BY <1>2, <1>3, <1>4

\* Opening a payment: the guards are all that keeps a second one away.
LEMMA InitiateOpenKeeps ==
    ASSUME TypeOK, PayInv, NEW r \in Regs, NEW t \in Txns, NEW k \in Keys,
           InitiateOpen(r, t, k)
    PROVE  PayInv'
<1> USE DEF PayInv
<1>1. /\ reg' = reg /\ submitting' = submitting /\ answer' = answer
      /\ held' = held \cup {r}
      /\ txn[t].status = "FREE"
      /\ txn'[t].status = "OPENING" /\ txn'[t].reg = r
      /\ order'[t] = "OPEN"
      /\ \A u \in Txns \ {t} : txn'[u] = txn[u] /\ order'[u] = order[u]
  BY DEF InitiateOpen, Opens, TypeOK, PayTypeOK
<1>2. /\ r \notin held
      /\ reg[r].status \in {"SUBMITTED", "PAYMENT_PENDING"}
      /\ \A u \in Txns : ~(txn[u].reg = r /\ txn[u].status = "PENDING")
  BY DEF InitiateOpen, Opens, Locks, TxnsOf
<1>3. \A u \in Txns : ~(txn[u].reg = r /\ txn[u].status = "OPENING")
  BY <1>2 DEF LockedRows
<1>4. LockedRows'
  BY <1>1, <1>2 DEF LockedRows
<1>5. TxnRows'
  BY <1>1 DEF TxnRows
<1>6. OneActivePayment'
  BY <1>1, <1>2, <1>3 DEF OneActivePayment, TxnsOf
<1>7. WaitsForAPayment'
  BY <1>1 DEF WaitsForAPayment, TxnsOf
<1>8. CompletedIsPaid'
  BY <1>1 DEF CompletedIsPaid, TxnsOf
<1>9. PaidOnce'
  BY <1>1, <1>2 DEF PaidOnce, TxnsOf
<1>10. SubmittedIsClosed'
  BY <1>1 DEF SubmittedIsClosed
<1>11. PayersAreSeated'
  BY <1>1, <1>2 DEF PayersAreSeated, Untouched, Occupied, SUBMITTED_STATUSES
<1>12. QED
  BY <1>4, <1>5, <1>6, <1>7, <1>8, <1>9, <1>10, <1>11

\* What a commit of a transaction's registration leaves alone.
LEMMA InitiateCommitKeeps ==
    ASSUME TypeOK, PayInv, NEW t \in Txns, InitiateCommit(t)
    PROVE  PayInv'
<1> USE DEF PayInv
<1> DEFINE r == txn[t].reg
<1>1. /\ txn[t].status = "OPENING" /\ r \in held
      /\ r \in Regs
      /\ reg[r].status \in {"SUBMITTED", "PAYMENT_PENDING"}
  BY DEF InitiateCommit, LockedRows, TxnRows
<1>2. /\ submitting' = submitting /\ answer' = answer /\ order' = order
      /\ held' = held \ {r}
      /\ txn'[t].status = "PENDING" /\ txn'[t].reg = r
      /\ \A u \in Txns \ {t} : txn'[u] = txn[u]
  BY DEF InitiateCommit, TypeOK, PayTypeOK, Transaction
<1>3. reg \in [Regs -> Registration]
  BY DEF TypeOK, RegTypeOK
<1>4. /\ \A s \in Regs \ {r} : reg'[s] = reg[s]
      /\ reg'[r].status = "PAYMENT_PENDING"
      /\ reg'[r].payment = reg[r].payment
      /\ reg'[r].verified = reg[r].verified
      /\ reg'[r].form = reg[r].form
      /\ reg'[r].submitted = reg[r].submitted
      /\ reg'[r].audited = reg[r].audited
  BY <1>1, <1>3 DEF InitiateCommit, Registration
<1>5. r \notin submitting
  BY <1>1 DEF LockedRows, MUTABLE_STATUSES
<1>6. \A u \in Txns \ {t} : ~(txn[u].reg = r /\ txn[u].status \in {"OPENING", "PENDING"})
  BY <1>1 DEF OneActivePayment, TxnsOf
<1>7. LockedRows'
  BY <1>1, <1>2, <1>4, <1>5, <1>6 DEF LockedRows, TypeOK, RegTypeOK
<1>8. TxnRows'
  BY <1>1, <1>2 DEF TxnRows
<1>9. OneActivePayment'
  BY <1>1, <1>2 DEF OneActivePayment, TxnsOf
<1>10. WaitsForAPayment'
  BY <1>1, <1>2, <1>4 DEF WaitsForAPayment, TxnsOf
<1>11. CompletedIsPaid'
  BY <1>1, <1>2, <1>4 DEF CompletedIsPaid, TxnsOf
<1>12. PaidOnce'
  BY <1>1, <1>2, <1>4 DEF PaidOnce, Prompt, TxnsOf
<1>13. SubmittedIsClosed'
  BY <1>1, <1>4 DEF SubmittedIsClosed, Prompt, MUTABLE_STATUSES
<1>14. PayersAreSeated'
  BY <1>1, <1>2, <1>4 DEF PayersAreSeated, Untouched, Prompt, Occupied, SUBMITTED_STATUSES
<1>15. QED
  BY <1>7, <1>8, <1>9, <1>10, <1>11, <1>12, <1>13, <1>14

\* A rollback frees the row and leaves a transaction that counts for nothing.
LEMMA InitiateAbortKeeps ==
    ASSUME TypeOK, PayInv, NEW t \in Txns, InitiateAbort(t)
    PROVE  PayInv'
<1> USE DEF PayInv
<1> DEFINE r == txn[t].reg
<1>1. /\ txn[t].status = "OPENING" /\ r \in held /\ r \in Regs
      /\ reg[r].status \in {"SUBMITTED", "PAYMENT_PENDING"}
  BY DEF InitiateAbort, LockedRows, TxnRows
<1>2. /\ reg' = reg /\ submitting' = submitting /\ answer' = answer /\ order' = order
      /\ held' = held \ {r}
      /\ txn'[t].status = "LOST" /\ txn'[t].reg = r
      /\ \A u \in Txns \ {t} : txn'[u] = txn[u]
  BY DEF InitiateAbort, TypeOK, PayTypeOK, Transaction
<1>3. r \notin submitting
  BY <1>1 DEF LockedRows, MUTABLE_STATUSES
<1>4. \A u \in Txns \ {t} : ~(txn[u].reg = r /\ txn[u].status \in {"OPENING", "PENDING"})
  BY <1>1 DEF OneActivePayment, TxnsOf
<1>5. LockedRows'
  BY <1>1, <1>2, <1>3, <1>4 DEF LockedRows
<1>6. TxnRows'
  BY <1>1, <1>2 DEF TxnRows
<1>7. OneActivePayment'
  BY <1>1, <1>2 DEF OneActivePayment, TxnsOf
<1>8. WaitsForAPayment' /\ CompletedIsPaid'
  BY <1>1, <1>2 DEF WaitsForAPayment, CompletedIsPaid, TxnsOf
<1>9. PaidOnce'
  BY <1>1, <1>2 DEF PaidOnce, TxnsOf
<1>10. SubmittedIsClosed' /\ PayersAreSeated'
  BY <1>1, <1>2 DEF SubmittedIsClosed, PayersAreSeated, Untouched, Occupied
<1>11. QED
  BY <1>5, <1>6, <1>7, <1>8, <1>9, <1>10

\* The gateway and the first half of a callback only learn and remember.
LEMMA GatewayKeeps ==
    ASSUME TypeOK, PayInv, NEW t \in Txns,
           \/ \E outcome \in {"PAID", "CLOSED"} : SettleOrder(t, outcome)
           \/ CallbackVerify(t)
           \/ CallbackAbort(t)
    PROVE  PayInv'
<1> USE DEF PayInv
<1>1. /\ reg' = reg /\ submitting' = submitting /\ held' = held /\ txn' = txn
      /\ \A u \in Txns : order[u] = "PAID" => order'[u] = "PAID"
      /\ \A u \in Txns : answer'[u] # "NONE" => txn[u].status = "PENDING"
      /\ \A u \in Txns : answer'[u] = "PAID" => order'[u] = "PAID"
  BY DEF SettleOrder, CallbackVerify, CallbackAbort, TypeOK, PayTypeOK, TxnRows
<1>2. LockedRows' /\ OneActivePayment' /\ WaitsForAPayment'
  BY <1>1 DEF LockedRows, OneActivePayment, WaitsForAPayment, TxnsOf
<1>3. TxnRows'
  BY <1>1 DEF TxnRows
<1>4. CompletedIsPaid' /\ PaidOnce'
  BY <1>1 DEF CompletedIsPaid, PaidOnce, TxnsOf
<1>5. SubmittedIsClosed' /\ PayersAreSeated'
  BY <1>1 DEF SubmittedIsClosed, PayersAreSeated, Untouched, Occupied
<1>6. QED
  BY <1>2, <1>3, <1>4, <1>5

(* The commit of a callback decides the transaction and overwrites the     *)
(* registration: its transaction was the only active one, so nothing else  *)
(* waits for what it takes away.                                           *)
LEMMA CallbackCommitKeeps ==
    ASSUME TypeOK, PayInv, NEW t \in Txns, CallbackCommit(t)
    PROVE  PayInv'
<1> USE DEF PayInv
<1> DEFINE r == txn[t].reg
           paid == answer[t] = "PAID"
<1>1. /\ answer[t] # "NONE" /\ r \notin held
      /\ txn[t].status = "PENDING" /\ r \in Regs
      /\ paid => order[t] = "PAID"
  BY DEF CallbackCommit, TxnRows
<1>2. /\ submitting' = submitting /\ order' = order /\ held' = held
      /\ answer'[t] = "NONE"
      /\ txn'[t].reg = r
      /\ txn'[t].status = IF paid THEN "SUCCESSFUL" ELSE "FAILED"
      /\ \A u \in Txns \ {t} : txn'[u] = txn[u] /\ answer'[u] = answer[u]
  BY DEF CallbackCommit, TypeOK, PayTypeOK, Transaction
<1>3. reg \in [Regs -> Registration]
  BY DEF TypeOK, RegTypeOK
<1>4. /\ \A s \in Regs \ {r} : reg'[s] = reg[s]
      /\ reg'[r].status = IF paid THEN "COMPLETED" ELSE "SUBMITTED"
      /\ reg'[r].payment = IF paid THEN "SUCCESSFUL" ELSE "FAILED"
      /\ reg'[r].verified = reg[r].verified
      /\ reg'[r].form = reg[r].form
      /\ reg'[r].submitted = reg[r].submitted
      /\ reg'[r].audited = reg[r].audited
  BY <1>1, <1>3 DEF CallbackCommit, Registration
<1>5. \A u \in Txns \ {t} : ~(txn[u].reg = r /\ txn[u].status \in {"OPENING", "PENDING"})
  BY <1>1 DEF OneActivePayment, TxnsOf
<1>6. LockedRows'
  BY <1>1, <1>2, <1>4 DEF LockedRows, TypeOK, RegTypeOK
<1>7. TxnRows'
  BY <1>1, <1>2 DEF TxnRows
<1>8. OneActivePayment'
  BY <1>1, <1>2 DEF OneActivePayment, TxnsOf
<1>9. WaitsForAPayment'
  BY <1>1, <1>2, <1>4 DEF WaitsForAPayment, TxnsOf
<1>10. CompletedIsPaid'
  BY <1>1, <1>2, <1>4 DEF CompletedIsPaid, TxnsOf
<1>11. PaidOnce'
  <2>1. SUFFICES ASSUME NEW s \in Prompt, NEW u \in Txns,
                        txn'[u].reg = s, txn'[u].status = "SUCCESSFUL"
                 PROVE  /\ reg'[s].status = "COMPLETED"
                        /\ \A v \in Txns :
                             /\ txn'[v].reg = s
                             /\ txn'[v].status \in {"OPENING", "PENDING", "SUCCESSFUL"}
                             => v = u
    BY DEF PaidOnce, TxnsOf, Prompt
  <2>2. s \in Regs
    BY DEF Prompt
  <2>3. \A v \in Txns : txn[v].reg = s /\ txn[v].status = "SUCCESSFUL" =>
            /\ reg[s].status = "COMPLETED"
            /\ \A w \in Txns :
                 /\ txn[w].reg = s
                 /\ txn[w].status \in {"OPENING", "PENDING", "SUCCESSFUL"}
                 => w = v
    BY DEF PaidOnce, TxnsOf
  <2>4. CASE s # r
    BY <1>1, <1>2, <1>4, <2>1, <2>2, <2>3, <2>4
  <2>5. CASE s = r
    <3>1. \A v \in Txns : ~(txn[v].reg = s /\ txn[v].status = "SUCCESSFUL")
      BY <1>1, <2>3, <2>5
    <3>2. u = t /\ paid
      BY <1>2, <2>1, <3>1
    <3>3. QED
      BY <1>2, <1>4, <1>5, <2>1, <2>5, <3>1, <3>2
  <2>6. QED
    BY <2>4, <2>5
<1>12. SubmittedIsClosed'
  BY <1>1, <1>4 DEF SubmittedIsClosed, Prompt, MUTABLE_STATUSES
<1>13. PayersAreSeated'
  BY <1>1, <1>2, <1>4 DEF PayersAreSeated, Untouched, Prompt, Occupied, SUBMITTED_STATUSES
<1>14. QED
  BY <1>6, <1>7, <1>8, <1>9, <1>10, <1>11, <1>12, <1>13

LEMMA PayInvStep == TypeOK /\ PayInv /\ [Next]_vars => PayInv'
<1> SUFFICES ASSUME TypeOK, PayInv, [Next]_vars PROVE PayInv'
  OBVIOUS
<1>1. CASE RegNext /\ UNCHANGED payVars
  <2>1. PICK r \in Regs : Edit(r) \/ SubmitBegin(r) \/ SubmitCommit(r) \/ SubmitAbort(r)
    BY <1>1, RegSteps DEF TypeOK
  <2>2. QED
    BY <1>1, <2>1, EditKeeps, SubmitKeeps
<1>2. CASE PayNext
  <2>1. PICK t \in Txns :
            \/ \E r \in Regs, k \in Keys : InitiateOpen(r, t, k)
            \/ InitiateCommit(t)
            \/ InitiateAbort(t)
            \/ \E outcome \in {"PAID", "CLOSED"} : SettleOrder(t, outcome)
            \/ CallbackVerify(t)
            \/ CallbackCommit(t)
            \/ CallbackAbort(t)
    BY <1>2 DEF PayNext
  <2>2. CASE \E r \in Regs, k \in Keys : InitiateOpen(r, t, k)
    BY <2>2, InitiateOpenKeeps
  <2>3. CASE InitiateCommit(t) \/ InitiateAbort(t)
    BY <2>3, InitiateCommitKeeps, InitiateAbortKeeps
  <2>4. CASE \/ \E outcome \in {"PAID", "CLOSED"} : SettleOrder(t, outcome)
             \/ CallbackVerify(t)
             \/ CallbackAbort(t)
    BY <2>4, GatewayKeeps
  <2>5. CASE CallbackCommit(t)
    BY <2>5, CallbackCommitKeeps
  <2>6. QED
    BY <2>1, <2>2, <2>3, <2>4, <2>5
<1>3. CASE UNCHANGED vars
  BY <1>3 DEF vars, PayInv, LockedRows, TxnRows, OneActivePayment, WaitsForAPayment,
              CompletedIsPaid, PaidOnce, SubmittedIsClosed, PayersAreSeated, TxnsOf,
              Untouched, Occupied
<1>4. QED
  BY <1>1, <1>2, <1>3 DEF Next

-----------------------------------------------------------------------------
(* The capacity.  Only the first half of submit() takes a seat, and it     *)
(* counts all submitted rows, of touched and of late registrations too.    *)

\* The seats are finitely many: Cardinality means what it says.
LEMMA SeatsFinite ==
    ASSUME TypeOK
    PROVE  IsFiniteSet(Occupied) /\ IsFiniteSet(Seats) /\ IsFiniteSet(Untouched \cap Occupied)
<1>1. Occupied \subseteq Regs /\ Seats \subseteq Regs /\ Untouched \cap Occupied \subseteq Regs
  BY DEF Occupied, Seats, TypeOK, RegTypeOK
<1>2. QED
  BY <1>1, RegsAssumption, FS_Subset

\* Every step but the first half of submit() takes no seat.
LEMMA SeatsOnlyShrink ==
    ASSUME TypeOK, PayInv, [Next]_vars, \A r \in Regs : ~SubmitBegin(r)
    PROVE  Seats' \subseteq Seats
<1>1. ASSUME NEW r \in Regs, Edit(r)
      PROVE  Seats' \subseteq Seats
  BY <1>1 DEF Edit, Seats, Untouched, Prompt, Occupied, MUTABLE_STATUSES, SUBMITTED_STATUSES
<1>2. ASSUME NEW r \in Regs, SubmitAbort(r)
      PROVE  Seats' \subseteq Seats
  BY <1>2 DEF SubmitAbort, Seats, Untouched, Occupied
<1>3. ASSUME NEW r \in Regs, SubmitCommit(r)
      PROVE  Seats' \subseteq Seats
  <2>1. reg \in [Regs -> Registration]
    BY DEF TypeOK, RegTypeOK
  <2>2. /\ r \in submitting /\ submitting' = submitting \ {r}
        /\ \A s \in Regs \ {r} : reg'[s] = reg[s]
    BY <1>3, <2>1 DEF SubmitCommit
  <2>3. QED
    BY <2>2 DEF Seats, Untouched, Prompt, Occupied
<1>4. ASSUME NEW t \in Txns, InitiateCommit(t) \/ CallbackCommit(t)
      PROVE  Seats' \subseteq Seats
  <2> DEFINE r == txn[t].reg
  <2>1. reg \in [Regs -> Registration]
    BY DEF TypeOK, RegTypeOK
  <2>2. txn[t].status \in {"OPENING", "PENDING"} /\ r \in Regs
    BY <1>4 DEF InitiateCommit, CallbackCommit, PayInv, TxnRows
  <2>3. /\ submitting' = submitting
        /\ \A s \in Regs \ {r} : reg'[s] = reg[s]
        /\ reg'[r].audited = reg[r].audited
    BY <1>4, <2>1, <2>2 DEF InitiateCommit, CallbackCommit, Registration
  <2>4. r \in Untouched => r \in Occupied
    BY <2>2 DEF PayInv, PayersAreSeated
  <2>5. QED
    BY <2>2, <2>3, <2>4 DEF Seats, Untouched, Prompt, Occupied
<1>5. ASSUME reg' = reg, submitting' = submitting
      PROVE  Seats' \subseteq Seats
  BY <1>5 DEF Seats, Untouched, Occupied
<1>6. CASE RegNext /\ UNCHANGED payVars
  BY <1>6, <1>1, <1>2, <1>3, RegSteps DEF TypeOK
<1>7. CASE PayNext
  BY <1>7, <1>4, <1>5 DEF PayNext, InitiateOpen, Opens, InitiateAbort, SettleOrder,
                         CallbackVerify, CallbackAbort
<1>8. CASE UNCHANGED vars
  BY <1>8, <1>5 DEF vars
<1>9. QED
  BY <1>6, <1>7, <1>8 DEF Next

LEMMA SeatsStep ==
    ASSUME TypeOK, PayInv, Cardinality(Seats) <= Capacity, [Next]_vars
    PROVE  Cardinality(Seats') <= Capacity
<1>a. IsFiniteSet(Occupied) /\ IsFiniteSet(Seats)
  BY SeatsFinite
<1>b. Cardinality(Occupied) \in Nat /\ Cardinality(Seats) \in Nat
  BY <1>a, FS_CardinalityType
<1>1. ASSUME NEW r \in Regs, SubmitBegin(r)
      PROVE  Cardinality(Seats') <= Capacity
  <2> DEFINE S == Occupied \cup {r}
  <2>1. Seats' \subseteq S
    BY <1>1 DEF SubmitBegin, Seats, Untouched, Occupied
  <2>2. /\ IsFiniteSet(S)
        /\ \/ Cardinality(S) = Cardinality(Occupied)
           \/ Cardinality(S) = Cardinality(Occupied) + 1
    BY <1>a, FS_AddElement, Zenon
  <2>3. Cardinality(Seats') <= Cardinality(S)
    BY <2>1, <2>2, FS_Subset
  <2>4. IsFiniteSet(Seats')
    BY <2>1, <2>2, FS_Subset
  <2>5. Cardinality(Seats') \in Nat /\ Cardinality(S) \in Nat
    BY <2>2, <2>4, FS_CardinalityType
  <2>6. Cardinality(Occupied) < Capacity
    BY <1>1 DEF SubmitBegin
  <2>7. QED
    BY <1>b, <2>2, <2>3, <2>5, <2>6, CapacityAssumption
<1>2. CASE \A r \in Regs : ~SubmitBegin(r)
  <2>1. Seats' \subseteq Seats
    BY <1>2, SeatsOnlyShrink
  <2>2. IsFiniteSet(Seats') /\ Cardinality(Seats') <= Cardinality(Seats)
    BY <1>a, <2>1, FS_Subset
  <2>3. Cardinality(Seats') \in Nat
    BY <2>2, FS_CardinalityType
  <2>4. QED
    BY <1>b, <2>2, <2>3, CapacityAssumption
<1>3. QED
  BY <1>1, <1>2

-----------------------------------------------------------------------------
(* The invariants the runs check, for every value of the constants.        *)

LEMMA InitInv == Init => IInv
<1> SUFFICES ASSUME Init PROVE IInv
  OBVIOUS
<1>1. TypeOK
  BY InitType
<1>2. /\ submitting = {}
      /\ \A r \in Regs : reg[r].status = "ABSENT" /\ reg[r].submitted = FALSE
      /\ \A t \in Txns : txn[t].status = "FREE" /\ answer[t] = "NONE"
  BY DEF Init, RegInit, NoRow
<1>3. LockedRows /\ TxnRows /\ OneActivePayment /\ WaitsForAPayment /\ CompletedIsPaid
      /\ PaidOnce /\ SubmittedIsClosed /\ PayersAreSeated
  BY <1>2 DEF LockedRows, TxnRows, OneActivePayment, WaitsForAPayment, CompletedIsPaid,
              PaidOnce, SubmittedIsClosed, PayersAreSeated, TxnsOf, Prompt
<1>4. Cardinality(Seats) <= Capacity
  <2>1. Seats = {}
    BY <1>2 DEF Seats, Occupied, SUBMITTED_STATUSES
  <2>2. QED
    BY <2>1, FS_EmptySet, CapacityAssumption
<1>5. QED
  BY <1>1, <1>3, <1>4 DEF IInv

LEMMA InvStep == IInv /\ [Next]_vars => IInv'
<1> SUFFICES ASSUME IInv, [Next]_vars PROVE IInv'
  OBVIOUS
<1>1. TypeOK /\ PayInv /\ Cardinality(Seats) <= Capacity
  BY DEF IInv, PayInv
<1>2. TypeOK' /\ PayInv' /\ Cardinality(Seats') <= Capacity
  BY <1>1, TypeStep, PayInvStep, SeatsStep
<1>3. QED
  BY <1>2 DEF IInv, PayInv

(* Every reachable state satisfies the inductive invariant.                *)
THEOREM Invariance == Spec => []IInv
  BY InitInv, InvStep, PTL DEF Spec

(* The unique index on active payments never refuses a row.                *)
THEOREM OneActiveCorrect == Spec => []OneActivePayment
<1>1. IInv => OneActivePayment
  BY DEF IInv
<1>2. QED
  BY <1>1, Invariance, PTL

(* No registration waits for a payment that nothing can decide any more.   *)
THEOREM WaitsCorrect == Spec => []WaitsForAPayment
<1>1. IInv => WaitsForAPayment
  BY DEF IInv
<1>2. QED
  BY <1>1, Invariance, PTL

(* Nothing but a payment the gateway holds completes a registration.       *)
THEOREM CompletedCorrect == Spec => []CompletedIsPaid
<1>1. IInv => CompletedIsPaid
  BY DEF IInv
<1>2. QED
  BY <1>1, Invariance, PTL

(* Without late verification nobody is charged twice.                      *)
THEOREM PaidOnceCorrect == Spec => []PaidOnce
<1>1. IInv => PaidOnce
  BY DEF IInv
<1>2. QED
  BY <1>1, Invariance, PTL

(* Without late verification what submit() validated stays valid.          *)
THEOREM SubmittedCorrect == Spec => []SubmittedStaysValid
<1>1. IInv => SubmittedStaysValid
  BY DEF IInv, SubmittedIsClosed, SubmittedStaysValid
<1>2. QED
  BY <1>1, Invariance, PTL

(* The capacity check holds for all registrations no administrator and no  *)
(* late code moved, whatever happens to the others.                        *)
THEOREM SeatsCorrect == Spec => []SeatsRespected
<1>1. ASSUME IInv PROVE SeatsRespected
  <2> DEFINE S == {r \in Prompt \cap Occupied : ~reg[r].audited}
  <2>1. S \subseteq Seats
    BY DEF Seats, Untouched
  <2>2. IsFiniteSet(Seats) /\ Cardinality(Seats) <= Capacity
    BY <1>1, SeatsFinite DEF IInv
  <2>3. IsFiniteSet(S) /\ Cardinality(S) <= Cardinality(Seats)
    BY <2>1, <2>2, FS_Subset
  <2>4. Cardinality(S) \in Nat /\ Cardinality(Seats) \in Nat
    BY <2>2, <2>3, FS_CardinalityType
  <2>5. QED
    BY <2>2, <2>3, <2>4, CapacityAssumption DEF SeatsRespected
<1>2. QED
  BY <1>1, Invariance, PTL

(* A decision is final and a pending transaction never changes hands.      *)
THEOREM DecidedCorrect == Spec => DecidedOnce
<1> DEFINE Final ==
       \A t \in Txns :
        /\ txn[t].status \in {"SUCCESSFUL", "FAILED"} => txn'[t] = txn[t]
        /\ txn[t].status = "PENDING" =>
               [txn'[t] EXCEPT !.status = "PENDING"] = txn[t]
<1>1. ASSUME IInv, Next PROVE Final
  <2>1. txn \in [Txns -> Transaction]
    BY <1>1 DEF IInv, TypeOK, PayTypeOK
  <2>2. ASSUME NEW t \in Txns, txn[t].status = "PENDING"
        PROVE  [txn[t] EXCEPT !.status = "PENDING"] = txn[t]
    BY <2>1, <2>2 DEF Transaction
  <2>3. CASE txn' = txn
    BY <2>2, <2>3
  <2>4. ASSUME NEW t \in Txns,
               txn[t].status \in {"FREE", "OPENING"},
               \A u \in Txns \ {t} : txn'[u] = txn[u]
        PROVE  Final
    BY <2>2, <2>4
  <2>5. ASSUME NEW t \in Txns, CallbackCommit(t)
        PROVE  Final
    <3>1. PICK s \in TxnStatuses : txn' = [txn EXCEPT ![t].status = s]
      BY <2>5 DEF CallbackCommit, TxnStatuses
    <3>2. txn[t].status = "PENDING"
      BY <1>1, <2>5 DEF CallbackCommit, IInv, TxnRows
    <3>3. [txn'[t] EXCEPT !.status = "PENDING"] = txn[t]
      BY <2>1, <3>1, <3>2 DEF Transaction
    <3>4. \A u \in Txns \ {t} : txn'[u] = txn[u]
      BY <2>1, <3>1
    <3>5. QED
      BY <2>2, <3>2, <3>3, <3>4
  <2>6. ASSUME NEW t \in Txns, NEW r \in Regs, NEW k \in Keys, InitiateOpen(r, t, k)
        PROVE  Final
    BY <2>1, <2>4, <2>6 DEF InitiateOpen, Opens
  <2>7. ASSUME NEW t \in Txns, InitiateCommit(t) \/ InitiateAbort(t)
        PROVE  Final
    BY <2>1, <2>4, <2>7 DEF InitiateCommit, InitiateAbort
  <2>8. QED
    BY <1>1, <2>3, <2>5, <2>6, <2>7 DEF Next, PayNext, payVars, SettleOrder,
       CallbackVerify, CallbackAbort
<1>2. IInv /\ [Next]_vars => [Final]_vars
  BY <1>1
<1>3. QED
  BY <1>2, Invariance, PTL DEF Spec, DecidedOnce

-----------------------------------------------------------------------------
(* The handlers implement PaymentPromise.                                  *)

\* The refinement mapping: what a payer is told, from the transactions.
PhaseMap == [r \in Prompt |-> Phase(r)]

\* A step that leaves the transactions of a payer alone leaves his phase alone.
LEMMA PhaseFrame ==
    ASSUME NEW r,
           \A t \in Txns :
               \/ txn'[t] = txn[t]
               \/ /\ ~(txn[t].reg = r /\ txn[t].status \in {"PENDING", "SUCCESSFUL"})
                  /\ ~(txn'[t].reg = r /\ txn'[t].status \in {"PENDING", "SUCCESSFUL"})
    PROVE  Phase(r)' = Phase(r)
  BY DEF Phase, TxnsOf

\* The commit of an initiation is an Open, or is not seen.
LEMMA CommitPromise ==
    ASSUME IInv, NEW t \in Txns, InitiateCommit(t)
    PROVE  [Promise!Next]_PhaseMap
<1> DEFINE r == txn[t].reg
<1>1. /\ txn[t].status = "OPENING" /\ r \in Regs
      /\ txn \in [Txns -> Transaction]
  BY DEF InitiateCommit, IInv, TxnRows, TypeOK, PayTypeOK
<1>2. /\ txn'[t].status = "PENDING" /\ txn'[t].reg = r
      /\ \A u \in Txns \ {t} : txn'[u] = txn[u]
  BY <1>1 DEF InitiateCommit, Transaction
<1>3. \A s \in Prompt \ {r} : Phase(s)' = Phase(s)
  BY <1>1, <1>2, PhaseFrame
<1>4. CASE r \in Prompt
  <2>1. \A u \in Txns \ {t} : ~(txn[u].reg = r /\ txn[u].status \in {"PENDING", "SUCCESSFUL"})
    BY <1>1, <1>4 DEF IInv, OneActivePayment, PaidOnce, TxnsOf
  <2>2. Phase(r) = "due" /\ Phase(r)' = "pending"
    BY <1>1, <1>2, <2>1 DEF Phase, TxnsOf
  <2>3. Promise!Open(r)
    BY <1>2, <1>3, <1>4, <2>2 DEF Promise!Open
  <2>4. QED
    BY <1>4, <2>3 DEF Promise!Next
<1>5. CASE r \notin Prompt
  BY <1>3, <1>5 DEF PhaseMap
<1>6. QED
  BY <1>4, <1>5

\* The commit of a callback is a Settle or a Fail, or is not seen.
LEMMA CallbackPromise ==
    ASSUME IInv, NEW t \in Txns, CallbackCommit(t)
    PROVE  [Promise!Next]_PhaseMap
<1> DEFINE r == txn[t].reg
<1>1. /\ txn[t].status = "PENDING" /\ r \in Regs
      /\ txn \in [Txns -> Transaction]
  BY DEF CallbackCommit, IInv, TxnRows, TypeOK, PayTypeOK
<1>2. /\ txn'[t].status \in {"SUCCESSFUL", "FAILED"} /\ txn'[t].reg = r
      /\ \A u \in Txns \ {t} : txn'[u] = txn[u]
  BY <1>1 DEF CallbackCommit, Transaction
<1>3. \A s \in Prompt \ {r} : Phase(s)' = Phase(s)
  BY <1>1, <1>2, PhaseFrame
<1>4. CASE r \in Prompt
  <2>1. \A u \in Txns \ {t} : ~(txn[u].reg = r /\ txn[u].status \in {"PENDING", "SUCCESSFUL"})
    BY <1>1, <1>4 DEF IInv, OneActivePayment, PaidOnce, TxnsOf
  <2>2. Phase(r) = "pending"
    BY <1>1, <2>1 DEF Phase, TxnsOf
  <2>3. Phase(r)' = IF txn'[t].status = "SUCCESSFUL" THEN "settled" ELSE "due"
    BY <1>1, <1>2, <2>1 DEF Phase, TxnsOf
  <2>4. Promise!Settle(r) \/ Promise!Fail(r)
    BY <1>2, <1>3, <1>4, <2>2, <2>3 DEF Promise!Settle, Promise!Fail
  <2>5. QED
    BY <1>4, <2>4 DEF Promise!Next
<1>5. CASE r \notin Prompt
  BY <1>3, <1>5 DEF PhaseMap
<1>6. QED
  BY <1>4, <1>5

\* Any other step is not seen.
LEMMA OtherPromise ==
    ASSUME IInv, [Next]_vars, \A t \in Txns : ~InitiateCommit(t) /\ ~CallbackCommit(t)
    PROVE  PhaseMap' = PhaseMap
<1>1. txn \in [Txns -> Transaction]
  BY DEF IInv, TypeOK, PayTypeOK
<1>2. CASE txn' = txn
  BY <1>2, PhaseFrame DEF PhaseMap
<1>3. ASSUME NEW t \in Txns,
             \/ \E r \in Regs, k \in Keys : InitiateOpen(r, t, k)
             \/ InitiateAbort(t)
      PROVE  PhaseMap' = PhaseMap
  <2>1. /\ txn[t].status \in {"FREE", "OPENING"}
        /\ txn'[t].status \in {"OPENING", "LOST"}
        /\ \A u \in Txns \ {t} : txn'[u] = txn[u]
    BY <1>1, <1>3 DEF InitiateOpen, Opens, InitiateAbort, Transaction
  <2>2. \A r \in Prompt : Phase(r)' = Phase(r)
    BY <2>1, PhaseFrame
  <2>3. QED
    BY <2>2 DEF PhaseMap
<1>4. QED
  BY <1>2, <1>3 DEF Next, PayNext, payVars, vars, SettleOrder, CallbackVerify, CallbackAbort

(* Without late verification every payer is kept the promise: one attempt  *)
(* at a time, a failed attempt may be repeated, a settled one never.       *)
THEOREM Implements == Spec => PromiseKept
<1>1. Init => Promise!Init
  <2> SUFFICES ASSUME Init PROVE Promise!Init
    OBVIOUS
  <2>1. \A r \in Prompt : Phase(r) = "due"
    BY DEF Init, Phase, TxnsOf
  <2>2. QED
    BY <2>1 DEF Promise!Init
<1>2. IInv /\ [Next]_vars => [Promise!Next]_PhaseMap
  BY CommitPromise, CallbackPromise, OtherPromise
<1>3. IInv /\ [Next]_vars => [Promise!Next]_[r \in Prompt |-> Phase(r)]
  BY <1>2 DEF PhaseMap
<1>4. QED
  BY <1>1, <1>3, Invariance, PTL DEF Spec, PromiseKept, Promise!Spec
=============================================================================
