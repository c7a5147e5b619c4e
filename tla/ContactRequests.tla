--------------------------- MODULE ContactRequests ---------------------------
(***************************************************************************)
(* The contact form of a tenant's site (app/content/public_router.py,      *)
(* create_contact_request) and its administration (admin_service.py,       *)
(* handle_contact_request): the table contact_requests.                    *)
(*                                                                         *)
(* A request reads the time its count starts from, waits for the advisory  *)
(* locks of its address and of its phone number, in this order, counts the *)
(* requests of either, and inserts itself.                                 *)
(***************************************************************************)
EXTENDS Integers, FiniteSets

CONSTANTS
    Forms,          \* identities of requests
    Sources,        \* hashes of client addresses
    Callers,        \* phone numbers
    NoSource, NoCaller,
    HourlyLimit,    \* requests in an hour: 5
    Span,           \* what the limit counts over
    LastTime        \* bound: the clock

ASSUME FormsAssumption ==
    /\ IsFiniteSet(Forms)
    /\ NoSource \notin Sources /\ NoCaller \notin Callers
    /\ HourlyLimit \in Nat \ {0} /\ Span \in Nat /\ LastTime \in Nat

VARIABLES
    time,       \* the clock
    form        \* the table contact_requests, and the requests in flight

formVars == <<time, form>>

-----------------------------------------------------------------------------

(* ARRIVED: the time is read; LOCKED: has the lock of its address;         *)
(* ADMITTED: also that of its phone number, and the count was below the    *)
(* limit; the others are the committed row's status.  since: what the      *)
(* count starts from, an hour before it arrived.                           *)
Pending == {"ARRIVED", "LOCKED", "ADMITTED"}

Status == {"NEW", "CONTACTED", "CLOSED", "SPAM"}

Form == [state : {"NONE"} \cup Pending \cup Status,
         source : Sources \cup {NoSource}, caller : Callers \cup {NoCaller},
         since : Int, at : 0..LastTime]

NoForm == [state |-> "NONE", source |-> NoSource, caller |-> NoCaller, since |-> 0, at |-> 0]

\* The clock and every request have their types.
FormsTypeOK == time \in 0..LastTime /\ form \in [Forms -> Form]

FormsInit == time = 0 /\ form = [f \in Forms |-> NoForm]

Received == {f \in Forms : form[f].state \in Status}

\* The count: of the address or of the phone number.
Counted(f) == {g \in Received : /\ form[g].at >= form[f].since
                                /\ \/ form[g].source = form[f].source
                                   \/ form[g].caller = form[f].caller}

SourceLocked(s) ==
    \E f \in Forms : form[f].state \in {"LOCKED", "ADMITTED"} /\ form[f].source = s

CallerLocked(p) == \E f \in Forms : form[f].state = "ADMITTED" /\ form[f].caller = p

-----------------------------------------------------------------------------
(* Mutations: slips in a handler that the properties must notice.  They    *)
(* are no part of FormsNext.                                               *)

\* Only the address is locked.
Admit_NoPhoneLock(f) ==
    /\ form[f].state = "LOCKED"
    /\ Cardinality(Counted(f)) < HourlyLimit
    /\ form' = [form EXCEPT ![f].state = "ADMITTED"]
    /\ UNCHANGED time

\* The row is stamped an hour on.
Receive_Later(f) ==
    /\ form[f].state = "ADMITTED"
    /\ form' = [form EXCEPT ![f].state = "NEW", ![f].at = time + Span]
    /\ UNCHANGED time

-----------------------------------------------------------------------------

Arrive(f, s, p) ==
    /\ form[f].state = "NONE"
    /\ form' = [form EXCEPT ![f] = [state |-> "ARRIVED", source |-> s, caller |-> p,
                                    since |-> time - Span, at |-> 0]]
    /\ UNCHANGED time

LockSource(f) ==
    /\ form[f].state = "ARRIVED"
    /\ ~SourceLocked(form[f].source)
    /\ form' = [form EXCEPT ![f].state = "LOCKED"]
    /\ UNCHANGED time

\* The lock of the phone number, and the count.
Admit(f) ==
    /\ form[f].state = "LOCKED"
    /\ ~CallerLocked(form[f].caller)
    /\ Cardinality(Counted(f)) < HourlyLimit
    /\ form' = [form EXCEPT ![f].state = "ADMITTED"]
    /\ UNCHANGED time

Receive(f) ==
    /\ form[f].state = "ADMITTED"
    /\ form' = [form EXCEPT ![f].state = "NEW", ![f].at = time]
    /\ UNCHANGED time

\* Too many requests, or death: nothing of it remains.
Refuse(f) ==
    /\ form[f].state \in Pending
    /\ form' = [form EXCEPT ![f] = NoForm]
    /\ UNCHANGED time

\* An administrator sets any status, under the lock of the row.
Handle(f, status) ==
    /\ f \in Received
    /\ form' = [form EXCEPT ![f].state = status]
    /\ UNCHANGED time

Pass ==
    /\ time < LastTime
    /\ time' = time + 1
    /\ UNCHANGED form

FormsNext ==
    \/ \E f \in Forms :
          \/ \E s \in Sources, p \in Callers : Arrive(f, s, p)
          \/ LockSource(f)
          \/ Admit(f)
          \/ Receive(f)
          \/ Refuse(f)
          \/ \E status \in Status : Handle(f, status)
    \/ Pass

FormsSpec == FormsInit /\ [][FormsNext]_formVars

-----------------------------------------------------------------------------
(* Properties.                                                             *)

(* However requests overlap, and however long they wait for their locks,   *)
(* no hour has more requests from one address, or for one phone number,    *)
(* than the limit.                                                         *)
FormsThrottled ==
    \A t \in 0..LastTime :
        LET Hourly == {f \in Received : t - Span <= form[f].at /\ form[f].at <= t}
        IN  /\ \A s \in Sources :
                  Cardinality({f \in Hourly : form[f].source = s}) <= HourlyLimit
            /\ \A p \in Callers :
                  Cardinality({f \in Hourly : form[f].caller = p}) <= HourlyLimit
=============================================================================
