------------------------------ MODULE Tenancy ------------------------------
(***************************************************************************)
(* Tenants, their domains, and the database sessions of requests           *)
(* (app/tenancy, app/core/database.py): how a request finds its tenant by  *)
(* host name, how a pooled connection is bound to that tenant for one      *)
(* transaction, and how the platform changes tenants meanwhile.            *)
(*                                                                         *)
(* A request takes one connection to resolve its host and gives it back,   *)
(* then takes one for the session that its dependencies and its handler    *)
(* share.  The routes in Doubles open a second session besides: the check  *)
(* of a one-time code and the export of registrations.                     *)
(***************************************************************************)
EXTENDS FiniteSets, Naturals

CONSTANTS
    Tenants, NoTenant,
    Hosts,          \* host names
    Requests, NoRequest,
    Doubles,        \* the requests whose route opens a session of its own
    Callbacks,      \* the requests exempt from host resolution: signed state names the tenant
    Conns           \* the connections of the pool

ASSUME NamesAssumption == NoTenant \notin Tenants /\ NoRequest \notin Requests
ASSUME RoutesAssumption ==
    /\ IsFiniteSet(Requests)
    /\ Doubles \subseteq Requests /\ Callbacks \subseteq Requests \ Doubles

VARIABLES
    tenant,     \* the table tenants, with the feature that routes require
    domain,     \* the table tenant_domains
    canonical,  \* tenant_site_build_configs.canonical_domain
    adding,     \* the primary domain each tenant's add_domain is about to insert
    conn,       \* the pool
    req         \* the requests

vars == <<tenant, domain, canonical, adding, conn, req>>

-----------------------------------------------------------------------------

\* CLOSED: SUSPENDED or ARCHIVED.
Tenant == [status : {"ABSENT", "ACTIVE", "CLOSED"}, enabled : BOOLEAN]

Domain == [tenant : Tenants \cup {NoTenant}, primary : BOOLEAN]

NoDomain == [tenant |-> NoTenant, primary |-> FALSE]

\* local: the settings end with the transaction.
Connection == [user : Requests \cup {NoRequest}, role : {"LOGIN", "APP"},
               setting : Tenants \cup {NoTenant}, local : BOOLEAN]

Unused == [user |-> NoRequest, role |-> "LOGIN", setting |-> NoTenant, local |-> TRUE]

(* ARRIVED, ADMITTED and WANTS: waits for a connection, to resolve the     *)
(* host, for its session, for a second session; RESOLVING and INSIDE: has  *)
(* one; BOTH: has two.  saw: the tenants some of whose rows it has read.   *)
Request == [pc : {"IDLE", "ARRIVED", "RESOLVING", "ADMITTED", "INSIDE", "WANTS", "BOTH"},
            host : SUBSET Hosts, tenant : Tenants \cup {NoTenant}, saw : SUBSET Tenants]

NoOne == [pc |-> "IDLE", host |-> {}, tenant |-> NoTenant, saw |-> {}]

\* Rows, connections and requests have their types.
TypeOK ==
    /\ tenant \in [Tenants -> Tenant]
    /\ domain \in [Hosts -> Domain]
    /\ canonical \in [Tenants -> SUBSET Hosts]
    /\ adding \in [Tenants -> SUBSET [host : Hosts, seen : SUBSET Hosts, holds : BOOLEAN]]
    /\ conn \in [Conns -> Connection]
    /\ req \in [Requests -> Request]

Init ==
    /\ tenant = [t \in Tenants |-> [status |-> "ABSENT", enabled |-> FALSE]]
    /\ domain = [h \in Hosts |-> NoDomain]
    /\ canonical = [t \in Tenants |-> {}]
    /\ adding = [t \in Tenants |-> {}]
    /\ conn = [c \in Conns |-> Unused]
    /\ req = [q \in Requests |-> NoOne]

Known(t) == tenant[t].status # "ABSENT"

DomainsOf(t) == {h \in Hosts : domain[h].tenant = t}

Primary(t) == {h \in DomainsOf(t) : domain[h].primary}

\* A host name that no committed and no open transaction has taken.
Free(h) == domain[h] = NoDomain /\ \A t \in Tenants : \A a \in adding[t] : a.host # h

Held(q) == {c \in Conns : conn[c].user = q}

Waiting(q) == req[q].pc \in {"ARRIVED", "ADMITTED", "WANTS"}

\* The tenants whose rows the policy tenant_isolation shows on a connection.
Visible(c) == IF conn[c].role = "LOGIN" THEN Tenants ELSE {conn[c].setting} \cap Tenants

\* Commit or rollback, and back to the pool.
Released(c) == IF conn[c].local THEN Unused ELSE [conn[c] EXCEPT !.user = NoRequest]

\* global_session: the application role, and no tenant.
GlobalSession(q, c) == [conn[c] EXCEPT !.user = q, !.role = "APP"]

\* Mutation: set_config without is_local.
TenantSession_NotLocal(q, c) ==
    [user |-> q, role |-> "APP", setting |-> req[q].tenant, local |-> FALSE]

\* tenant_session: the tenant is set for this transaction only.
TenantSession(q, c) == [conn[c] EXCEPT !.user = q, !.role = "APP", !.setting = req[q].tenant]

-----------------------------------------------------------------------------
(* Mutations: slips in the code that the properties must notice.  They are *)
(* no part of Next.                                                        *)

\* A suspended tenant becomes unknown.
SetStatus_Deletes(t, status) ==
    /\ Known(t)
    /\ tenant' = [tenant EXCEPT ![t].status = IF status = "CLOSED" THEN "DELETED" ELSE status]
    /\ UNCHANGED <<domain, canonical, adding, conn, req>>

\* The middleware calls the handler inside its session.
ResolveEnd_Inside(q) ==
    /\ req[q].pc = "RESOLVING"
    /\ \E h \in req[q].host :
          /\ domain[h].tenant # NoTenant /\ tenant[domain[h].tenant].status = "ACTIVE"
          /\ req' = [req EXCEPT ![q].pc = "ADMITTED", ![q].tenant = domain[h].tenant]
    /\ UNCHANGED <<tenant, domain, canonical, adding, conn>>

\* The UPDATE is committed before the new domain is inserted.
AddPrimaryBegin_Commits(t, h) ==
    /\ Known(t) /\ Free(h)
    /\ adding' = [adding EXCEPT ![t] = @ \cup {[host |-> h, seen |-> DomainsOf(t), holds |-> TRUE]}]
    /\ domain' = [g \in Hosts |-> IF g \in DomainsOf(t)
                                  THEN [domain[g] EXCEPT !.primary = FALSE] ELSE domain[g]]
    /\ UNCHANGED <<tenant, canonical, conn, req>>

-----------------------------------------------------------------------------
(* The platform.                                                           *)

\* create_tenant, and bootstrap on the command line.
CreateTenant(t, h) ==
    /\ ~Known(t) /\ Free(h)
    /\ tenant' = [tenant EXCEPT ![t] = [status |-> "ACTIVE", enabled |-> TRUE]]
    /\ domain' = [domain EXCEPT ![h] = [tenant |-> t, primary |-> TRUE]]
    /\ UNCHANGED <<canonical, adding, conn, req>>

SetStatus(t, status) ==
    /\ Known(t)
    /\ tenant' = [tenant EXCEPT ![t].status = status]
    /\ UNCHANGED <<domain, canonical, adding, conn, req>>

SetFeature(t, enabled) ==
    /\ Known(t)
    /\ tenant' = [tenant EXCEPT ![t].enabled = enabled]
    /\ UNCHANGED <<domain, canonical, adding, conn, req>>

AddDomain(t, h) ==
    /\ Known(t) /\ Free(h)
    /\ domain' = [domain EXCEPT ![h] = [tenant |-> t, primary |-> FALSE]]
    /\ UNCHANGED <<tenant, canonical, adding, conn, req>>

(* add_domain with is_primary: the UPDATE picks the rows committed now and *)
(* locks them, or waits for the transaction that has.                      *)
AddPrimaryBegin(t, h) ==
    /\ Known(t) /\ Free(h)
    /\ adding' = [adding EXCEPT ![t] =
                     @ \cup {[host |-> h, seen |-> DomainsOf(t),
                              holds |-> \A a \in adding[t] : ~a.holds]}]
    /\ UNCHANGED <<tenant, domain, canonical, conn, req>>

\* Those who wait for a's locks, one of whom gets them.
AfterAdding(t, a) ==
    LET waiting == adding[t] \ {a}
    IN  IF waiting = {} THEN {{}}
        ELSE {(waiting \ {w}) \cup {[w EXCEPT !.holds = TRUE]} : w \in waiting}

AddPrimaryCommit(t) ==
    \E a \in {x \in adding[t] : x.holds} :
        /\ domain' = [h \in Hosts |->
                         IF h = a.host THEN [tenant |-> t, primary |-> TRUE]
                         ELSE IF h \in a.seen THEN [domain[h] EXCEPT !.primary = FALSE]
                         ELSE domain[h]]
        /\ \E rest \in AfterAdding(t, a) : adding' = [adding EXCEPT ![t] = rest]
        /\ UNCHANGED <<tenant, canonical, conn, req>>

AddPrimaryDies(t) ==
    \E a \in {x \in adding[t] : x.holds} :
        /\ \E rest \in AfterAdding(t, a) : adding' = [adding EXCEPT ![t] = rest]
        /\ UNCHANGED <<tenant, domain, canonical, conn, req>>

\* The canonical domain of the static site must be one of the tenant's.
SetBuildConfig(t, h) ==
    /\ Known(t) /\ h \in DomainsOf(t)
    /\ canonical' = [canonical EXCEPT ![t] = {h}]
    /\ UNCHANGED <<tenant, domain, adding, conn, req>>

-----------------------------------------------------------------------------
(* Requests.                                                               *)

Arrive(q, h) ==
    /\ req[q].pc = "IDLE" /\ q \notin Callbacks
    /\ req' = [req EXCEPT ![q] = [pc |-> "ARRIVED", host |-> {h},
                                  tenant |-> NoTenant, saw |-> {}]]
    /\ UNCHANGED <<tenant, domain, canonical, adding, conn>>

\* The tenant of a callback is the one its signed state names, suspended or not.
CallbackArrives(q, t) ==
    /\ req[q].pc = "IDLE" /\ q \in Callbacks /\ Known(t)
    /\ req' = [req EXCEPT ![q] = [pc |-> "ADMITTED", host |-> {}, tenant |-> t, saw |-> {}]]
    /\ UNCHANGED <<tenant, domain, canonical, adding, conn>>

\* A free connection, for what the request waits for.
Connect(q, c) ==
    /\ conn[c].user = NoRequest
    /\ \/ /\ req[q].pc = "ARRIVED"
          /\ conn' = [conn EXCEPT ![c] = GlobalSession(q, c)]
          /\ req' = [req EXCEPT ![q].pc = "RESOLVING"]
       \/ /\ req[q].pc = "ADMITTED"
          /\ conn' = [conn EXCEPT ![c] = TenantSession(q, c)]
          /\ req' = [req EXCEPT ![q].pc = "INSIDE"]
       \/ /\ req[q].pc = "WANTS"
          /\ conn' = [conn EXCEPT ![c] = TenantSession(q, c)]
          /\ req' = [req EXCEPT ![q].pc = "BOTH"]
    /\ UNCHANGED <<tenant, domain, canonical, adding>>

\* The host is that of an active tenant.
ResolveEnd(q) ==
    /\ req[q].pc = "RESOLVING"
    /\ \E h \in req[q].host :
          /\ domain[h].tenant # NoTenant /\ tenant[domain[h].tenant].status = "ACTIVE"
          /\ req' = [req EXCEPT ![q].pc = "ADMITTED", ![q].tenant = domain[h].tenant]
    /\ conn' = [c \in Conns |-> IF c \in Held(q) THEN Released(c) ELSE conn[c]]
    /\ UNCHANGED <<tenant, domain, canonical, adding>>

\* The dependencies and the handler read what the policy shows them.
Read(q) ==
    /\ \/ req[q].pc = "INSIDE" /\ q \notin Doubles
       \/ req[q].pc = "BOTH"
    /\ q \in Callbacks \/ tenant[req[q].tenant].enabled
    /\ req' = [req EXCEPT ![q].saw = req[q].saw \cup UNION {Visible(c) : c \in Held(q)}]
    /\ UNCHANGED <<tenant, domain, canonical, adding, conn>>

\* The feature is enabled, and the handler opens a session of its own.
WantSecond(q) ==
    /\ req[q].pc = "INSIDE" /\ q \in Doubles
    /\ tenant[req[q].tenant].enabled
    /\ req' = [req EXCEPT ![q].pc = "WANTS"]
    /\ UNCHANGED <<tenant, domain, canonical, adding, conn>>

(* The response, an error (an unknown host, a closed tenant, a feature     *)
(* that is not enabled), the death of the process, or, while it waits, the *)
(* pool's timeout.                                                         *)
Leave(q) ==
    /\ req[q].pc # "IDLE"
    /\ req' = [req EXCEPT ![q] = NoOne]
    /\ conn' = [c \in Conns |-> IF c \in Held(q) THEN Released(c) ELSE conn[c]]
    /\ UNCHANGED <<tenant, domain, canonical, adding>>

-----------------------------------------------------------------------------

Platform(t) ==
    \/ \E h \in Hosts : \/ CreateTenant(t, h)
                        \/ AddDomain(t, h)
                        \/ AddPrimaryBegin(t, h)
                        \/ SetBuildConfig(t, h)
    \/ \E status \in {"ACTIVE", "CLOSED"} : SetStatus(t, status)
    \/ \E enabled \in BOOLEAN : SetFeature(t, enabled)
    \/ AddPrimaryCommit(t)
    \/ AddPrimaryDies(t)

RequestStep(q) ==
    \/ \E h \in Hosts : Arrive(q, h)
    \/ \E t \in Tenants : CallbackArrives(q, t)
    \/ \E c \in Conns : Connect(q, c)
    \/ ResolveEnd(q)
    \/ Read(q)
    \/ WantSecond(q)
    \/ Leave(q)

Next ==
    \/ \E t \in Tenants : Platform(t)
    \/ \E q \in Requests : RequestStep(q)

Spec == Init /\ [][Next]_vars

-----------------------------------------------------------------------------
(* Properties.                                                             *)

(* Whatever connections requests share one after the other, a request      *)
(* reads only rows of the tenant whose host it was sent to, and an idle    *)
(* connection carries neither a role nor a tenant to its next user:        *)
(* "neither setting can leak through the pool" (app/core/database.py:25).  *)
Isolated ==
    /\ \A q \in Requests :
          /\ req[q].saw \subseteq {req[q].tenant}
          /\ req[q].tenant \in Tenants =>
                \A h \in req[q].host : domain[h].tenant = req[q].tenant
    /\ \A c \in Conns : conn[c].user = NoRequest => conn[c] = Unused

\* Every connection is held by a request that waits for another one.
Exhausted ==
    Conns # {} /\ \A c \in Conns : conn[c].user # NoRequest /\ Waiting(conn[c].user)

(* The pool comes to a standstill, every connection held by a request that *)
(* waits for another, in one way only: as many routes with two sessions as *)
(* it has connections are at work at once, each holding its first one.     *)
(* The resolution of hosts, which also takes a connection before the       *)
(* session of the handler, gives it back first and has no part in it.      *)
OnlyDoublesExhaust ==
    Exhausted =>
        /\ \A c \in Conns : conn[c].user \in Doubles /\ req[conn[c].user].pc = "WANTS"
        /\ \A c, d \in Conns : conn[c].user = conn[d].user => c = d

(* However the additions of primary domains overlap and die, a tenant has  *)
(* a primary domain, and its static site the address of one of its own.    *)
Routed ==
    \A t \in Tenants : Known(t) =>
        Primary(t) # {} /\ canonical[t] \subseteq DomainsOf(t)
=============================================================================
