------------------------------ MODULE OtpCodes ------------------------------
(***************************************************************************)
(* One-time codes of a tenant's registration drafts (app/otp/service.py):  *)
(* the table otp_challenges, the handlers that send and verify a code      *)
(* (app/registrations/router.py) and the change of a phone number          *)
(* (app/registrations/service.py, patch).                                  *)
(*                                                                         *)
(* Every handler first locks the row of its registration.  Sending then    *)
(* reads the time, waits for the advisory locks of tenant, phone and       *)
(* address, counts, writes, hands the code to the SMS provider, and        *)
(* commits: other registrations' requests run in between, and the request  *)
(* may die before or after the message has left.                           *)
(***************************************************************************)
EXTENDS Integers, FiniteSets

CONSTANTS
    Regs,           \* identities of registration drafts
    NoReg,          \* the registration of a code not yet asked for
    Phones,         \* phone numbers
    NoPhone,        \* its phone number
    Addresses,      \* hashes of client addresses
    NoAddress,      \* its address
    Codes,          \* identities of otp_challenges
    TTL,            \* otp_ttl_seconds
    Cooldown,       \* otp_resend_cooldown_seconds
    MaxTries,       \* otp_max_attempts
    MaxActive,      \* otp_max_active_challenges
    PhoneLimit,     \* otp_phone_hourly_limit
    AddressLimit,   \* otp_ip_hourly_limit
    TenantLimit,    \* otp_tenant_minute_limit
    Hour, Minute,   \* what the limits count over
    MaxTime         \* bound: the clock

ASSUME IdentitiesAssumption ==
    /\ IsFiniteSet(Codes)
    /\ NoReg \notin Regs /\ NoPhone \notin Phones /\ NoAddress \notin Addresses
ASSUME PolicyAssumption ==
    /\ {TTL, Cooldown, MaxTries, MaxActive} \subseteq Nat \ {0}
    /\ {PhoneLimit, AddressLimit, TenantLimit} \subseteq Nat \ {0}
    /\ {Hour, Minute, MaxTime} \subseteq Nat

VARIABLES
    clock,      \* the time
    reg,        \* the registrations
    code        \* the table otp_challenges, and the requests that send a code

vars == <<clock, reg, code>>

-----------------------------------------------------------------------------

\* verified: phone_verified_at is set.
Registration == [phone : Phones, verified : BOOLEAN]

(* WAITING: the row is locked and the time is read; SENDING: the locks are *)
(* held, the limits are kept, the provider has the message; LIVE, INVALID  *)
(* and CONSUMED: the committed row; LOST: the request died after the       *)
(* message left.  created: created_at; tries: attempt_count; wrong: the    *)
(* times a client was told that its code is invalid, or of the limit.      *)
Challenge ==
    [state : {"NONE", "WAITING", "SENDING", "LIVE", "INVALID", "CONSUMED", "LOST"},
     reg : Regs \cup {NoReg}, phone : Phones \cup {NoPhone},
     address : Addresses \cup {NoAddress}, created : 0..MaxTime,
     tries : Nat, wrong : Nat]

NoCode == [state |-> "NONE", reg |-> NoReg, phone |-> NoPhone, address |-> NoAddress,
           created |-> 0, tries |-> 0, wrong |-> 0]

\* The clock, every registration and every code have their types.
TypeOK ==
    /\ clock \in 0..MaxTime
    /\ reg \in [Regs -> Registration]
    /\ code \in [Codes -> Challenge]

Init ==
    /\ clock = 0
    /\ reg \in [Regs -> [phone : Phones, verified : {FALSE}]]
    /\ code = [c \in Codes |-> NoCode]

\* The rows other transactions can see.
Stored == {c \in Codes : code[c].state \in {"LIVE", "INVALID", "CONSUMED"}}

Of(r) == {c \in Stored : code[c].reg = r}

Since(C, time) == {c \in C : code[c].created >= time}

ToPhone(p) == {c \in Stored : code[c].phone = p}

FromAddress(ip) == {c \in Stored : code[c].address = ip}

\* A request holds the row of the registration, FOR UPDATE.
RowLocked(r) == \E c \in Codes : /\ code[c].reg = r
                                 /\ code[c].state \in {"WAITING", "SENDING"}

\* A request holds the tenant's advisory lock.
TenantLocked == \E c \in Codes : code[c].state = "SENDING"

\* send's counts, at the time `created` its request began.
BelowLimits(c) ==
    /\ Cardinality(Since(ToPhone(code[c].phone), code[c].created - Hour)) < PhoneLimit
    /\ Cardinality(Since(FromAddress(code[c].address), code[c].created - Hour)) < AddressLimit
    /\ Cardinality(Since(Stored, code[c].created - Minute)) < TenantLimit

Active(r, now) == {c \in Of(r) : code[c].state = "LIVE" /\ now < code[c].created + TTL}

\* No code of the registration is so new that the next has to wait.
Cooled(c) == \A d \in Of(code[c].reg) : code[d].created + Cooldown <= code[c].created

\* What verify selects: a code of the current phone that may still be used.
Usable(r) == {c \in Of(r) : code[c].state = "LIVE" /\ code[c].phone = reg[r].phone}

Newest(r) == {c \in Usable(r) : \A d \in Usable(r) : code[d].created <= code[c].created}

-----------------------------------------------------------------------------
(* Mutations: slips in a handler that the properties must notice.  They    *)
(* are no part of Next.                                                    *)

\* The row is stamped with the time the code expires.
SendBegin_Expiry(c, r, ip) ==
    /\ code[c].state = "NONE"
    /\ ~RowLocked(r)
    /\ code' = [code EXCEPT ![c] = [state |-> "WAITING", reg |-> r, phone |-> reg[r].phone,
                                    address |-> ip, created |-> clock + TTL,
                                    tries |-> 0, wrong |-> 0]]
    /\ UNCHANGED <<clock, reg>>

\* Only the phone and the address are locked.
SendAdmitted_NoTenantLock(c) ==
    /\ code[c].state = "WAITING"
    /\ \A d \in Codes : code[d].state = "SENDING" =>
          code[d].phone # code[c].phone /\ code[d].address # code[c].address
    /\ BelowLimits(c) /\ Cooled(c)
    /\ Cardinality(Active(code[c].reg, code[c].created)) < MaxActive
    /\ code' = [code EXCEPT ![c].state = "SENDING"]
    /\ UNCHANGED <<clock, reg>>

\* The error is not deferred: it rolls the count of attempts back.
VerifyWrong_RolledBack(r, c) ==
    /\ ~RowLocked(r)
    /\ c \in Newest(r) /\ clock < code[c].created + TTL
    /\ code' = [code EXCEPT ![c].wrong = code[c].wrong + 1]
    /\ UNCHANGED <<clock, reg>>

\* The codes of the old phone number stay.
ChangePhone_CodesStay(r, p) ==
    /\ ~RowLocked(r) /\ p # reg[r].phone
    /\ reg' = [reg EXCEPT ![r] = [phone |-> p, verified |-> FALSE]]
    /\ UNCHANGED <<clock, code>>

\* The verification of the old phone number stays.
ChangePhone_StaysVerified(r, p) ==
    /\ ~RowLocked(r) /\ p # reg[r].phone
    /\ reg' = [reg EXCEPT ![r].phone = p]
    /\ code' = [c \in Codes |-> IF c \in Of(r) /\ code[c].state = "LIVE"
                                THEN [code[c] EXCEPT !.state = "INVALID"] ELSE code[c]]
    /\ UNCHANGED clock

-----------------------------------------------------------------------------
(* send                                                                    *)

SendBegin(c, r, ip) ==
    /\ code[c].state = "NONE"
    /\ ~RowLocked(r)
    /\ code' = [code EXCEPT ![c] = [state |-> "WAITING", reg |-> r, phone |-> reg[r].phone,
                                    address |-> ip, created |-> clock, tries |-> 0, wrong |-> 0]]
    /\ UNCHANGED <<clock, reg>>

\* The locks are there, and every limit has room.
SendAdmitted(c) ==
    /\ code[c].state = "WAITING"
    /\ ~TenantLocked
    /\ BelowLimits(c) /\ Cooled(c)
    /\ Cardinality(Active(code[c].reg, code[c].created)) < MaxActive
    /\ code' = [code EXCEPT ![c].state = "SENDING"]
    /\ UNCHANGED <<clock, reg>>

\* The request is refused, or dies: nothing of it remains.
SendRefused(c) ==
    /\ code[c].state = "WAITING"
    /\ code' = [code EXCEPT ![c] = NoCode]
    /\ UNCHANGED <<clock, reg>>

\* The new row replaces all the registration's rows that are not consumed.
SendCommit(c) ==
    /\ code[c].state = "SENDING"
    /\ code' = [d \in Codes |->
                   IF d = c THEN [code[c] EXCEPT !.state = "LIVE"]
                   ELSE IF d \in Of(code[c].reg) /\ code[d].state = "LIVE"
                   THEN [code[d] EXCEPT !.state = "INVALID"] ELSE code[d]]
    /\ UNCHANGED <<clock, reg>>

\* The message has left, the transaction is rolled back.
SendLost(c) ==
    /\ code[c].state = "SENDING"
    /\ code' = [code EXCEPT ![c].state = "LOST"]
    /\ UNCHANGED <<clock, reg>>

-----------------------------------------------------------------------------
(* verify: an expired code, or none, changes nothing.  The error of a      *)
(* wrong code is raised after the commit.                                  *)

VerifyWrong(r, c) ==
    /\ ~RowLocked(r)
    /\ c \in Newest(r) /\ clock < code[c].created + TTL
    /\ LET counted == IF code[c].tries >= MaxTries THEN code[c].tries ELSE code[c].tries + 1
       IN  code' = [code EXCEPT ![c] =
                       [@ EXCEPT !.tries = counted, !.wrong = code[c].wrong + 1,
                                 !.state = IF counted >= MaxTries THEN "INVALID" ELSE "LIVE"]]
    /\ UNCHANGED <<clock, reg>>

VerifyRight(r, c) ==
    /\ ~RowLocked(r)
    /\ c \in Newest(r) /\ clock < code[c].created + TTL
    /\ code[c].tries < MaxTries
    /\ code' = [code EXCEPT ![c] = [@ EXCEPT !.state = "CONSUMED", !.tries = code[c].tries + 1]]
    /\ reg' = [reg EXCEPT ![r].verified = TRUE]
    /\ UNCHANGED clock

\* patch, with a new phone number: no earlier code may verify it.
ChangePhone(r, p) ==
    /\ ~RowLocked(r)
    /\ p # reg[r].phone
    /\ reg' = [reg EXCEPT ![r] = [phone |-> p, verified |-> FALSE]]
    /\ code' = [c \in Codes |-> IF c \in Of(r) /\ code[c].state = "LIVE"
                                THEN [code[c] EXCEPT !.state = "INVALID"] ELSE code[c]]
    /\ UNCHANGED clock

Tick ==
    /\ clock < MaxTime
    /\ clock' = clock + 1
    /\ UNCHANGED <<reg, code>>

-----------------------------------------------------------------------------

CodeStep(c) ==
    \/ \E r \in Regs, ip \in Addresses : SendBegin(c, r, ip)
    \/ SendAdmitted(c)
    \/ SendRefused(c)
    \/ SendCommit(c)
    \/ SendLost(c)
    \/ \E r \in Regs : VerifyWrong(r, c) \/ VerifyRight(r, c)

Next ==
    \/ \E c \in Codes : CodeStep(c)
    \/ \E r \in Regs, p \in Phones : ChangePhone(r, p)
    \/ Tick

Spec == Init /\ [][Next]_vars

-----------------------------------------------------------------------------
(* Properties.                                                             *)

Window(C, from, to) == {c \in C : from <= code[c].created /\ code[c].created <= to}

(* However requests overlap, and whenever they read the time before they   *)
(* waited, no hour has more codes for a phone or from an address than its  *)
(* limit, no minute more than the tenant's, and the codes of a             *)
(* registration are apart.                                                 *)
QuotasKept ==
    /\ \A t \in 0..MaxTime :
          /\ \A p \in Phones : Cardinality(Window(ToPhone(p), t - Hour, t)) <= PhoneLimit
          /\ \A ip \in Addresses :
                Cardinality(Window(FromAddress(ip), t - Hour, t)) <= AddressLimit
          /\ Cardinality(Window(Stored, t - Minute, t)) <= TenantLimit
    /\ \A r \in Regs : \A c, d \in Of(r) : c # d =>
          \/ code[c].created + Cooldown <= code[d].created
          \/ code[d].created + Cooldown <= code[c].created

(* A registration has at most one code that can still verify it: the       *)
(* newest, and it went to the phone number the registration has now.       *)
OneLiveCode ==
    \A r \in Regs : \A c, d \in Of(r) : code[c].state = "LIVE" =>
        /\ code[d].state = "LIVE" => c = d
        /\ code[d].created <= code[c].created
        /\ code[c].phone = reg[r].phone

(* A verified registration has consumed a code that went to the phone      *)
(* number it has now, however often the number was changed.                *)
VerifiedIsCurrent ==
    \A r \in Regs : reg[r].verified =>
        \E c \in Of(r) : code[c].state = "CONSUMED" /\ code[c].phone = reg[r].phone

(* Nobody is told more often than the limit that a code is wrong: the      *)
(* count survives the error that reports it.                               *)
GuessesBounded == \A c \in Codes : code[c].wrong <= MaxTries

(* Codes are rationed: requests by the three quotas and the cooldown,      *)
(* guesses by the limit of attempts.                                       *)
Rationed == QuotasKept /\ GuessesBounded

(* A verification proves possession of the present number: only the newest *)
(* code, sent to that number, can verify, and a verified registration has  *)
(* consumed such a code.                                                   *)
CodeProvesPhone == OneLiveCode /\ VerifiedIsCurrent
=============================================================================
