------------------------------ MODULE Payments ------------------------------
(***************************************************************************)
(* Registrations and their online payment: the table payment_transactions, *)
(* PaymentService.initiate and verify_callback (app/payments/service.py),  *)
(* and the payment gateway they call while their transaction is open.      *)
(*                                                                         *)
(* Both handlers await the gateway in the middle of a transaction, so each *)
(* is two actions: up to the gateway's answer, and the commit; between the *)
(* two the request may die and roll back, while what it did at the gateway *)
(* stays.  A callback may come early, late, twice or never.                *)
(***************************************************************************)
EXTENDS Registrations

CONSTANTS
    Txns,       \* identities of payment transactions
    Keys,       \* Idempotency-Key header values
    NoKey,      \* the key of a transaction that does not exist yet
    Priced      \* registrations created with a price above zero

ASSUME TxnsAssumption == IsFiniteSet(Txns)
ASSUME KeysAssumption == NoKey \notin Keys
ASSUME PricedAssumption == Priced \subseteq Regs

VARIABLES
    txn,        \* the table, with the rows still uncommitted or rolled back
    order,      \* what the gateway knows of the order of each transaction
    answer      \* the gateway's answer a callback in flight is about to write

payVars == <<txn, order, answer>>
vars == <<reg, held, submitting, txn, order, answer>>

-----------------------------------------------------------------------------

(* FREE: never used.  OPENING: inserted by a request that has not          *)
(* committed.  LOST: that request rolled back, the gateway's order stays.  *)
(* The code's callback_consumed_at is set exactly when the status leaves   *)
(* PENDING, and is not kept separately.                                    *)
TxnStatuses == {"FREE", "OPENING", "LOST", "PENDING", "SUCCESSFUL", "FAILED"}

Committed == {"PENDING", "SUCCESSFUL", "FAILED"}

Transaction == [status : TxnStatuses, reg : Regs \cup {NoReg},
                key : Keys \cup {NoKey}]

PayTypeOK ==
    /\ txn \in [Txns -> Transaction]
    /\ order \in [Txns -> {"NONE", "OPEN", "PAID", "CLOSED"}]
    /\ answer \in [Txns -> {"NONE", "PAID", "UNPAID"}]

\* Every row, every transaction and every lock has the type the schema gives it.
TypeOK == RegTypeOK /\ PayTypeOK

TxnsOf(r, statuses) == {t \in Txns : txn[t].reg = r /\ txn[t].status \in statuses}

KeyUsed(k) == \E t \in Txns : txn[t].status \in Committed /\ txn[t].key = k

Init ==
    /\ RegInit
    /\ txn = [t \in Txns |-> [status |-> "FREE", reg |-> NoReg, key |-> NoKey]]
    /\ order = [t \in Txns |-> "NONE"]
    /\ answer = [t \in Txns |-> "NONE"]

-----------------------------------------------------------------------------
(* The gateway opens an order and the transaction is inserted; both stay   *)
(* invisible to other requests until the commit.                           *)
Opens(r, t, k) ==
    /\ txn' = [txn EXCEPT ![t] = [status |-> "OPENING", reg |-> r, key |-> k]]
    /\ order' = [order EXCEPT ![t] = "OPEN"]
    /\ held' = held \cup {r}
    /\ UNCHANGED <<reg, submitting, answer>>

-----------------------------------------------------------------------------
(* Mutations: slips in a handler that the properties must notice.  They    *)
(* are no part of PayNext.                                                 *)

\* The query for an active transaction is left out.
InitiateOpen_NoActiveQuery(r, t, k) ==
    /\ Locks(r) /\ ~KeyUsed(k) /\ r \in Priced
    /\ reg[r].status \in {"SUBMITTED", "PAYMENT_PENDING"}
    /\ txn[t].status = "FREE"
    /\ Opens(r, t, k)

\* Payable in every submitted status, COMPLETED included.
InitiateOpen_AnySubmitted(r, t, k) ==
    /\ Locks(r) /\ ~KeyUsed(k) /\ r \in Priced
    /\ reg[r].status \in SUBMITTED_STATUSES
    /\ TxnsOf(r, {"PENDING"}) = {}
    /\ txn[t].status = "FREE"
    /\ Opens(r, t, k)

\* The callback's word is taken, the gateway is not asked.
CallbackVerify_Trusting(t) ==
    /\ txn[t].status = "PENDING" /\ answer[t] = "NONE"
    /\ answer' = [answer EXCEPT ![t] = "PAID"]
    /\ UNCHANGED <<reg, held, submitting, txn, order>>

\* A decided transaction is verified again.
CallbackVerify_Again(t) ==
    /\ txn[t].status \in Committed /\ answer[t] = "NONE"
    /\ answer' = [answer EXCEPT ![t] = IF order[t] = "PAID" THEN "PAID" ELSE "UNPAID"]
    /\ UNCHANGED <<reg, held, submitting, txn, order>>

\* A failure does not touch the status of the registration.
CallbackCommit_FailureKeepsStatus(t) ==
    LET r    == txn[t].reg
        paid == answer[t] = "PAID"
    IN  /\ answer[t] # "NONE" /\ r \notin held
        /\ txn' = [txn EXCEPT ![t].status = IF paid THEN "SUCCESSFUL" ELSE "FAILED"]
        /\ reg' = [reg EXCEPT ![r].payment = IF paid THEN "SUCCESSFUL" ELSE "FAILED",
                              ![r].status = IF paid THEN "COMPLETED" ELSE reg[r].status]
        /\ answer' = [answer EXCEPT ![t] = "NONE"]
        /\ UNCHANGED <<held, submitting, order>>

-----------------------------------------------------------------------------
(* POST payment.  A key that is already used returns the existing          *)
(* transaction or a conflict, and changes nothing.                         *)

InitiateOpen(r, t, k) ==
    /\ Locks(r)
    /\ ~KeyUsed(k)
    /\ TxnsOf(r, {"PENDING"}) = {}
    /\ reg[r].status \in {"SUBMITTED", "PAYMENT_PENDING"}
    /\ r \in Priced
    /\ txn[t].status = "FREE"
    /\ Opens(r, t, k)

\* The insert waits for, and loses to, a committed row with the same key.
InitiateCommit(t) ==
    /\ txn[t].status = "OPENING"
    /\ ~KeyUsed(txn[t].key)
    /\ txn' = [txn EXCEPT ![t].status = "PENDING"]
    /\ reg' = [reg EXCEPT ![txn[t].reg].status = "PAYMENT_PENDING"]
    /\ held' = held \ {txn[t].reg}
    /\ UNCHANGED <<submitting, order, answer>>

\* A crash, a duplicate key or an error of the gateway after it opened the order.
InitiateAbort(t) ==
    /\ txn[t].status = "OPENING"
    /\ txn' = [txn EXCEPT ![t].status = "LOST"]
    /\ held' = held \ {txn[t].reg}
    /\ UNCHANGED <<reg, submitting, order, answer>>

-----------------------------------------------------------------------------
(* The gateway: the customer pays or gives up an order whose page the      *)
(* committed initiation told him.                                          *)

SettleOrder(t, outcome) ==
    /\ order[t] = "OPEN"
    /\ txn[t].status \in Committed
    /\ order' = [order EXCEPT ![t] = outcome]
    /\ UNCHANGED <<reg, held, submitting, txn, answer>>

-----------------------------------------------------------------------------
(* GET callback.  A transaction that is no longer PENDING is returned as   *)
(* it is, and nothing changes.                                             *)

\* verify_callback locks the transaction row and asks the gateway.
CallbackVerify(t) ==
    /\ txn[t].status = "PENDING"
    /\ answer[t] = "NONE"
    /\ answer' = [answer EXCEPT ![t] = IF order[t] = "PAID" THEN "PAID" ELSE "UNPAID"]
    /\ UNCHANGED <<reg, held, submitting, txn, order>>

\* Only now is the registration locked; its status is overwritten unread.
CallbackCommit(t) ==
    LET r    == txn[t].reg
        paid == answer[t] = "PAID"
    IN  /\ answer[t] # "NONE"
        /\ r \notin held
        /\ txn' = [txn EXCEPT ![t].status = IF paid THEN "SUCCESSFUL" ELSE "FAILED"]
        /\ reg' = [reg EXCEPT ![r].payment = IF paid THEN "SUCCESSFUL" ELSE "FAILED",
                              ![r].status = IF paid THEN "COMPLETED" ELSE "SUBMITTED"]
        /\ answer' = [answer EXCEPT ![t] = "NONE"]
        /\ UNCHANGED <<held, submitting, order>>

CallbackAbort(t) ==
    /\ answer[t] # "NONE"
    /\ answer' = [answer EXCEPT ![t] = "NONE"]
    /\ UNCHANGED <<reg, held, submitting, txn, order>>

-----------------------------------------------------------------------------

PayNext ==
    \E t \in Txns :
        \/ \E r \in Regs, k \in Keys : InitiateOpen(r, t, k)
        \/ InitiateCommit(t)
        \/ InitiateAbort(t)
        \/ \E outcome \in {"PAID", "CLOSED"} : SettleOrder(t, outcome)
        \/ CallbackVerify(t)
        \/ CallbackCommit(t)
        \/ CallbackAbort(t)

Next ==
    \/ RegNext /\ UNCHANGED payVars
    \/ PayNext

Spec == Init /\ [][Next]_vars

-----------------------------------------------------------------------------
(* What holds in every state.                                              *)

\* The registrations that see no late verification.
Prompt == Regs \ LateVerifiers

(* uq_payment_transactions_active_registration never has to refuse a row:  *)
(* a registration has at most one payment pending or being opened, in any  *)
(* order of initiations, callbacks, rollbacks and status changes.          *)
OneActivePayment ==
    \A r \in Regs : \A t, u \in TxnsOf(r, {"OPENING", "PENDING"}) : t = u

(* A registration waiting for its payment (PAYMENT_PENDING) has a pending  *)
(* transaction whose callback can still move it on: no handler leaves it   *)
(* waiting for nothing.                                                    *)
WaitsForAPayment ==
    \A r \in Regs : reg[r].status = "PAYMENT_PENDING" => TxnsOf(r, {"PENDING"}) # {}

(* Only money completes a registration: COMPLETED means that a successful  *)
(* transaction of this registration exists, that the gateway holds its     *)
(* payment, and that payment_status says so.                               *)
CompletedIsPaid ==
    \A r \in Regs :
        reg[r].status = "COMPLETED" =>
            /\ reg[r].payment = "SUCCESSFUL"
            /\ \E t \in TxnsOf(r, {"SUCCESSFUL"}) : order[t] = "PAID"

(* Without late verification a registration is paid at most once, and once *)
(* it is paid it is COMPLETED with nothing pending: a second payment can   *)
(* never be opened, whatever the administrator and the callbacks do.       *)
PaidOnce ==
    \A r \in Prompt : \A t \in TxnsOf(r, {"SUCCESSFUL"}) :
        /\ reg[r].status = "COMPLETED"
        /\ TxnsOf(r, {"OPENING", "PENDING", "SUCCESSFUL"}) = {t}

(* Without late verification what submit() checked stays true: a row with  *)
(* submitted_at keeps a verified phone and a complete form, through        *)
(* payments, cancellation and restoration.                                 *)
SubmittedStaysValid ==
    \A r \in Prompt : reg[r].submitted => reg[r].verified /\ reg[r].form

(* The exam lock serializes the capacity checks: the rows that no          *)
(* administrator touched and no late code moved never exceed the capacity. *)
SeatsRespected ==
    Cardinality({r \in Prompt \cap Occupied : ~reg[r].audited}) <= Capacity

(* A transaction that was decided is never decided again, and a pending    *)
(* one keeps its registration and key: a duplicate or late callback, also  *)
(* one that overlaps the first, changes nothing.                           *)
DecidedOnce ==
    [][\A t \in Txns :
        /\ txn[t].status \in {"SUCCESSFUL", "FAILED"} => txn'[t] = txn[t]
        /\ txn[t].status = "PENDING" =>
               [txn'[t] EXCEPT !.status = "PENDING"] = txn[t]]_vars

\* Where the payment of r stands, told from its transactions alone.
Phase(r) ==
    IF TxnsOf(r, {"SUCCESSFUL"}) # {} THEN "settled"
    ELSE IF TxnsOf(r, {"PENDING"}) # {} THEN "pending" ELSE "due"

Promise == INSTANCE PaymentPromise
             WITH Payers <- Prompt, phase <- [r \in Prompt |-> Phase(r)]

(* The handlers keep the promise of PaymentPromise to every registration   *)
(* without late verification: pay once, one attempt at a time, and settled *)
(* for good.                                                               *)
PromiseKept == Promise!Spec

-----------------------------------------------------------------------------
(* The inductive invariant the invariants above follow from.               *)

\* What a request that holds a registration over an await may rely on.
LockedRows ==
    /\ \A r \in submitting :
           /\ r \in held
           /\ reg[r].status \in MUTABLE_STATUSES
           /\ reg[r].verified /\ reg[r].form
    /\ \A t \in Txns :
           txn[t].status = "OPENING" =>
               /\ txn[t].reg \in held
               /\ reg[txn[t].reg].status \in {"SUBMITTED", "PAYMENT_PENDING"}

\* How a transaction relates to the gateway and to the callback in flight.
TxnRows ==
    \A t \in Txns :
        /\ txn[t].status # "FREE" => txn[t].reg \in Regs
        /\ answer[t] # "NONE" => txn[t].status = "PENDING"
        /\ answer[t] = "PAID" => order[t] = "PAID"
        /\ txn[t].status = "SUCCESSFUL" => order[t] = "PAID"

\* A submitted row of a prompt client is valid and out of the editable statuses.
SubmittedIsClosed ==
    \A r \in Prompt : reg[r].submitted =>
        /\ reg[r].verified /\ reg[r].form
        /\ reg[r].status \notin MUTABLE_STATUSES \cup {"ABSENT"}

\* Untouched by late codes and by administrators.
Untouched == {r \in Prompt : ~reg[r].audited}

\* An untouched registration keeps its seat while its payment is open.
PayersAreSeated ==
    \A t \in Txns :
        /\ txn[t].status \in {"OPENING", "PENDING"}
        /\ txn[t].reg \in Untouched
        => txn[t].reg \in Occupied

\* The seat of a submit() in flight is counted with the seats taken.
Seats == (Untouched \cap Occupied) \cup submitting

IInv ==
    /\ TypeOK
    /\ LockedRows
    /\ TxnRows
    /\ OneActivePayment
    /\ WaitsForAPayment
    /\ CompletedIsPaid
    /\ PaidOnce
    /\ SubmittedIsClosed
    /\ PayersAreSeated
    /\ Cardinality(Seats) <= Capacity

-----------------------------------------------------------------------------
(* What the repository says of the flow and the code does not keep.        *)

(* docs/payment-flow.md: row locks, the consumed timestamp and the atomic  *)
(* update of the registration "prevent duplicate completion".              *)
NoDuplicateCompletion ==
    \A r \in Regs : \A t, u \in TxnsOf(r, {"SUCCESSFUL"}) : t = u
=============================================================================
