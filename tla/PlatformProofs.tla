---------------------------- MODULE PlatformProofs ----------------------------
(***************************************************************************)
(* Proofs about what the platform's operators run, and about the modules   *)
(* of MCPlatform together.  Tenancy, for any tenants, hosts, requests and  *)
(* connections: a request reads rows of its own tenant only, every tenant  *)
(* keeps a primary domain, and only routes with two sessions can hold the  *)
(* whole pool while they wait.                                             *)
(* Releases, for any releases, migrations and scripts, whatever dies when: *)
(* the lock makes each script judge its own release, the links move to     *)
(* proven releases only, and no release runs on a schema that lacks its    *)
(* migrations.                                                             *)
(***************************************************************************)
EXTENDS MCPlatform, SchemaProofs

-----------------------------------------------------------------------------
(* Tenancy.                                                                *)

(* A connection in use is bound, until its transaction ends, to what its   *)
(* request knows of its tenant; an idle one is as the driver made it.      *)
BoundToUser ==
    \A c \in Conns :
        /\ conn[c].local = TRUE
        /\ conn[c].user = NoRequest => conn[c] = Unused
        /\ conn[c].user # NoRequest =>
              /\ conn[c].role = "APP"
              /\ req[conn[c].user].pc \in {"RESOLVING", "INSIDE", "WANTS", "BOTH"}
              /\ conn[c].setting = req[conn[c].user].tenant

\* A request knows its tenant only once it is admitted.
KnowsTenant ==
    \A q \in Requests :
        /\ \A g, h \in req[q].host : g = h
        /\ req[q].pc \in {"IDLE", "ARRIVED", "RESOLVING"} => req[q].tenant = NoTenant
        /\ req[q].pc \in {"ADMITTED", "INSIDE", "WANTS", "BOTH"} => req[q].tenant \in Tenants
        /\ req[q].tenant \in Tenants =>
              \A h \in req[q].host : domain[h].tenant = req[q].tenant
        /\ req[q].saw \subseteq {req[q].tenant} \cap Tenants

\* A request that is inside, or waits for more, has one connection.
HoldsOne ==
    \A q \in Requests :
        /\ req[q].pc = "WANTS" => q \in Doubles
        /\ req[q].pc \in {"INSIDE", "WANTS"} => \A c, d \in Held(q) : c = d

\* What add_domain is about to insert is nobody's, and reserved by one.
Reserved ==
    \A t \in Tenants :
        /\ canonical[t] \subseteq DomainsOf(t)
        /\ \A a \in adding[t] :
              /\ domain[a.host] = NoDomain
              /\ a.seen \subseteq DomainsOf(t)
              /\ \A u \in Tenants : \A b \in adding[u] : a.host = b.host => t = u /\ a = b

TenancyInv == TypeOK /\ BoundToUser /\ KnowsTenant /\ HoldsOne /\ Reserved /\ Routed

LEMMA TenancyBegins == Init => TenancyInv
<1> SUFFICES ASSUME Init PROVE TenancyInv
  OBVIOUS
<1> USE NamesAssumption DEF Init, NoOne, NoDomain, Unused
<1>1. TypeOK
  BY DEF TypeOK, Tenant, Domain, Connection, Request
<1>2. BoundToUser /\ KnowsTenant /\ HoldsOne
  BY DEF BoundToUser, KnowsTenant, HoldsOne
<1>3. Reserved /\ Routed
  BY DEF Reserved, Routed, Known
<1>. QED BY <1>1, <1>2, <1>3 DEF TenancyInv

-----------------------------------------------------------------------------
(* The platform.  A domain that a tenant has stays that tenant's.          *)

DomainsStay == \A h \in Hosts : domain[h].tenant \in Tenants => domain'[h].tenant = domain[h].tenant

PlatformGoal == TypeOK' /\ Reserved' /\ Routed' /\ DomainsStay

LEMMA DomainTypes == /\ NoDomain \in Domain
                     /\ \A t \in Tenants, p \in BOOLEAN : [tenant |-> t, primary |-> p] \in Domain
BY NamesAssumption DEF NoDomain, Domain

\* A host that is taken and inserted at once, primary or not.
LEMMA InsertKeeps ==
    ASSUME TypeOK, Reserved, Routed, NEW t \in Tenants, NEW h \in Hosts, NEW p \in BOOLEAN, Free(h),
           domain' = [domain EXCEPT ![h] = [tenant |-> t, primary |-> p]],
           \/ tenant' = tenant
           \/ p = TRUE /\ tenant' = [tenant EXCEPT ![t] = [status |-> "ACTIVE", enabled |-> TRUE]],
           UNCHANGED <<canonical, adding, conn, req>>
    PROVE  PlatformGoal
<1>0. /\ tenant' \in [Tenants -> Tenant]
      /\ \A u \in Tenants : Known(u)' => Known(u) \/ (u = t /\ p = TRUE)
  <2>1. CASE tenant' = tenant
    BY <2>1 DEF TypeOK, Known
  <2>2. CASE p = TRUE /\ tenant' = [tenant EXCEPT ![t] = [status |-> "ACTIVE", enabled |-> TRUE]]
    <3>1. [status |-> "ACTIVE", enabled |-> TRUE] \in Tenant
      BY DEF Tenant
    <3>2. tenant' \in [Tenants -> Tenant] /\ \A u \in Tenants \ {t} : tenant'[u] = tenant[u]
      BY <2>2, <3>1 DEF TypeOK
    <3>3. p = TRUE
      BY <2>2
    <3>. QED BY <3>2, <3>3 DEF Known
  <2>. QED BY <2>1, <2>2
<1>1. TypeOK'
  BY <1>0, DomainTypes DEF TypeOK
<1>2. DomainsStay
  BY NamesAssumption DEF DomainsStay, Free, NoDomain, TypeOK
<1>3. \A u \in Tenants : DomainsOf(u) \subseteq DomainsOf(u)'
  BY <1>2 DEF DomainsOf, DomainsStay
<1>4. \A u \in Tenants : \A a \in adding[u] : domain'[a.host] = NoDomain
  BY DEF Free, Reserved, TypeOK
<1>5. Reserved'
  BY <1>3, <1>4 DEF Reserved
<1>6. \A u \in Tenants : Primary(u) \subseteq Primary(u)'
  BY NamesAssumption DEF Primary, DomainsOf, Free, NoDomain, TypeOK
<1>7. p = TRUE => h \in Primary(t)'
  BY DEF Primary, DomainsOf, TypeOK
<1>9. Routed'
  BY <1>0, <1>5, <1>6, <1>7 DEF Routed, Reserved
<1>. QED BY <1>1, <1>2, <1>5, <1>9 DEF PlatformGoal

\* Those that wait for the locks of a stay as they are, save who holds them.
LEMMA AfterAddingIsRest ==
    ASSUME TypeOK, Reserved, NEW t \in Tenants, NEW a \in adding[t], NEW rest \in AfterAdding(t, a)
    PROVE  /\ rest \subseteq [host : Hosts, seen : SUBSET Hosts, holds : BOOLEAN]
           /\ \A b \in rest : \E w \in adding[t] : /\ w # a /\ b.host = w.host /\ b.seen = w.seen
           /\ \A b, d \in rest : b.host = d.host => b = d
<1> DEFINE waiting == adding[t] \ {a}
           R == [host : Hosts, seen : SUBSET Hosts, holds : BOOLEAN]
<1>1. waiting \subseteq R
  BY DEF TypeOK
<1>2. CASE rest = {}
  BY <1>2
<1>3. ASSUME rest # {} PROVE \E w \in waiting : rest = (waiting \ {w}) \cup {[w EXCEPT !.holds = TRUE]}
  BY <1>3 DEF AfterAdding
<1>4. CASE rest # {}
  <2>1. PICK w \in waiting : rest = (waiting \ {w}) \cup {[w EXCEPT !.holds = TRUE]}
    BY <1>3, <1>4
  <2> DEFINE w2 == [w EXCEPT !.holds = TRUE]
  <2>2. w \in R /\ w2 \in R /\ w2.host = w.host /\ w2.seen = w.seen
    BY <1>1
  <2>3. \A b, d \in waiting : b.host = d.host => b = d
    BY DEF Reserved
  <2>. QED BY <1>1, <2>1, <2>2, <2>3
<1>. QED BY <1>2, <1>4

LEMMA CommitKeeps ==
    ASSUME TypeOK, Reserved, Routed, NEW t \in Tenants, AddPrimaryCommit(t)
    PROVE  PlatformGoal
<1>1. PICK a \in adding[t] :
        /\ domain' = [h \in Hosts |->
                         IF h = a.host THEN [tenant |-> t, primary |-> TRUE]
                         ELSE IF h \in a.seen THEN [domain[h] EXCEPT !.primary = FALSE]
                         ELSE domain[h]]
        /\ \E rest \in AfterAdding(t, a) : adding' = [adding EXCEPT ![t] = rest]
        /\ UNCHANGED <<tenant, canonical, conn, req>>
  BY DEF AddPrimaryCommit
<1>2. PICK rest \in AfterAdding(t, a) : adding' = [adding EXCEPT ![t] = rest]
  BY <1>1
<1>3. a.host \in Hosts /\ domain[a.host] = NoDomain /\ a.seen \subseteq DomainsOf(t)
  BY DEF TypeOK, Reserved
<1>4. /\ rest \subseteq [host : Hosts, seen : SUBSET Hosts, holds : BOOLEAN]
      /\ \A b \in rest : \E w \in adding[t] : /\ w # a /\ b.host = w.host /\ b.seen = w.seen
      /\ \A b, d \in rest : b.host = d.host => b = d
  BY AfterAddingIsRest
<1>5. domain' \in [Hosts -> Domain]
  <2>1. \A h \in Hosts : [domain[h] EXCEPT !.primary = FALSE] \in Domain
    BY DEF TypeOK, Domain
  <2>2. domain \in [Hosts -> Domain] /\ [tenant |-> t, primary |-> TRUE] \in Domain
    BY DomainTypes DEF TypeOK
  <2>. QED BY <1>1, <2>1, <2>2
<1>6. TypeOK'
  BY <1>1, <1>2, <1>4, <1>5 DEF TypeOK
<1>7. DomainsStay
  BY <1>1, <1>3, NamesAssumption DEF DomainsStay, NoDomain, TypeOK, Domain
<1>8. \A u \in Tenants : DomainsOf(u) \subseteq DomainsOf(u)'
  BY <1>7 DEF DomainsOf, DomainsStay
<1>9. \A u \in Tenants : \A b \in adding'[u] : \E w \in adding[u] :
         w # a /\ b.host = w.host /\ b.seen = w.seen
  <2>1. \A u \in Tenants \ {t} : \A w \in adding[u] : w # a
    BY DEF Reserved
  <2>. QED BY <1>2, <1>4, <2>1 DEF TypeOK
<1>10. \A u \in Tenants : \A b \in adding'[u] : domain'[b.host] = NoDomain /\ b.seen \subseteq DomainsOf(u)
  <2>1. \A u \in Tenants : \A w \in adding[u] : w # a => w.host # a.host /\ w.host \notin a.seen
    BY <1>3, NamesAssumption DEF Reserved, DomainsOf, NoDomain
  <2>2. \A u \in Tenants : \A w \in adding[u] : w # a =>
           w.host \in Hosts /\ domain'[w.host] = NoDomain /\ w.seen \subseteq DomainsOf(u)
    BY <1>1, <2>1 DEF Reserved, TypeOK
  <2>. QED BY <1>9, <2>2
<1>11. \A u, v \in Tenants : \A b \in adding'[u], d \in adding'[v] : b.host = d.host => u = v /\ b = d
  <2>1. \A u, v \in Tenants : \A b \in adding'[u], d \in adding'[v] : b.host = d.host => u = v
    BY <1>9 DEF Reserved
  <2>2. \A u \in Tenants : \A b, d \in adding'[u] : b.host = d.host => b = d
    BY <1>2, <1>4 DEF Reserved, TypeOK
  <2>. QED BY <2>1, <2>2
<1>12. Reserved'
  BY <1>1, <1>8, <1>10, <1>11 DEF Reserved
<1>13. a.host \in Primary(t)'
  BY <1>1, <1>3 DEF Primary, DomainsOf
<1>14. \A u \in Tenants \ {t} : Primary(u) \subseteq Primary(u)'
  BY <1>1, <1>3, NamesAssumption DEF Primary, DomainsOf, NoDomain
<1>15. Routed'
  BY <1>1, <1>12, <1>13, <1>14 DEF Routed, Reserved, Known
<1>. QED BY <1>6, <1>7, <1>12, <1>15 DEF PlatformGoal

\* Additions that begin, or die, move no row.
LEMMA AddingKeeps ==
    ASSUME TypeOK, Reserved, Routed, NEW t \in Tenants,
           \/ \E h \in Hosts : AddPrimaryBegin(t, h)
           \/ AddPrimaryDies(t)
    PROVE  PlatformGoal
<1> DEFINE R == [host : Hosts, seen : SUBSET Hosts, holds : BOOLEAN]
<1>1. UNCHANGED <<tenant, domain, canonical, conn, req>>
  BY DEF AddPrimaryBegin, AddPrimaryDies
<1> DEFINE Kept ==
      /\ adding' \in [Tenants -> SUBSET R]
      /\ \A u \in Tenants : \A b \in adding'[u] :
            /\ domain[b.host] = NoDomain
            /\ b.seen \subseteq DomainsOf(u)
            /\ \A v \in Tenants : \A d \in adding'[v] : b.host = d.host => u = v /\ b = d
<1>2. Kept
  <2>1. ASSUME NEW h \in Hosts, AddPrimaryBegin(t, h)
        PROVE  Kept
    <3> DEFINE new == [host |-> h, seen |-> DomainsOf(t), holds |-> \A a \in adding[t] : ~a.holds]
    <3>1. new \in R /\ new.host = h /\ new.seen = DomainsOf(t)
      BY DEF DomainsOf
    <3>2. adding' = [adding EXCEPT ![t] = @ \cup {new}]
      BY <2>1 DEF AddPrimaryBegin
    <3>3. domain[h] = NoDomain /\ \A u \in Tenants : \A b \in adding[u] : b.host # h
      BY <2>1 DEF AddPrimaryBegin, Free
    <3> HIDE DEF new
    <3>4. \A u \in Tenants : \A b \in adding'[u] : b \in adding[u] \/ (u = t /\ b = new)
      BY <3>2 DEF TypeOK
    <3>5. adding' \in [Tenants -> SUBSET R]
      BY <3>1, <3>2 DEF TypeOK
    <3>6. \A u \in Tenants : \A b \in adding'[u] :
             domain[b.host] = NoDomain /\ b.seen \subseteq DomainsOf(u)
      BY <3>1, <3>3, <3>4 DEF Reserved
    <3>7. \A u, v \in Tenants : \A b \in adding'[u], d \in adding'[v] :
             b.host = d.host => u = v /\ b = d
      BY <3>1, <3>3, <3>4 DEF Reserved
    <3>. QED BY <3>5, <3>6, <3>7
  <2>2. ASSUME AddPrimaryDies(t)
        PROVE  Kept
    <3>1. PICK a \in adding[t] : \E rest \in AfterAdding(t, a) : adding' = [adding EXCEPT ![t] = rest]
      BY <2>2 DEF AddPrimaryDies
    <3>2. PICK rest \in AfterAdding(t, a) : adding' = [adding EXCEPT ![t] = rest]
      BY <3>1
    <3>3. /\ rest \subseteq R
          /\ \A b \in rest : \E w \in adding[t] : /\ w # a /\ b.host = w.host /\ b.seen = w.seen
          /\ \A b, d \in rest : b.host = d.host => b = d
      BY AfterAddingIsRest
    <3>4. \A u \in Tenants : \A b \in adding'[u] : \E w \in adding[u] :
             b.host = w.host /\ b.seen = w.seen
      BY <3>2, <3>3 DEF TypeOK
    <3>5. \A u \in Tenants : \A b, d \in adding'[u] : b.host = d.host => b = d
      BY <3>2, <3>3 DEF Reserved, TypeOK
    <3>6. adding' \in [Tenants -> SUBSET R]
      BY <3>2, <3>3 DEF TypeOK
    <3>7. \A u, v \in Tenants : \A b \in adding'[u], d \in adding'[v] : b.host = d.host => u = v
      BY <3>4 DEF Reserved
    <3>. QED BY <3>4, <3>5, <3>6, <3>7 DEF Reserved
  <2>. QED BY <2>1, <2>2
<1>3. TypeOK' /\ DomainsStay
  BY <1>1, <1>2 DEF TypeOK, DomainsStay
<1>4. Reserved'
  BY <1>1, <1>2 DEF Reserved, DomainsOf
<1>5. Routed'
  BY <1>1 DEF Routed, Known, Primary, DomainsOf
<1>. QED BY <1>3, <1>4, <1>5 DEF PlatformGoal

LEMMA SettingsKeep ==
    ASSUME TypeOK, Reserved, Routed, NEW t \in Tenants,
           \/ \E h \in Hosts : SetBuildConfig(t, h)
           \/ \E status \in {"ACTIVE", "CLOSED"} : SetStatus(t, status)
           \/ \E enabled \in BOOLEAN : SetFeature(t, enabled)
    PROVE  PlatformGoal
<1>1. CASE \E h \in Hosts : SetBuildConfig(t, h)
  <2>1. PICK h \in Hosts : SetBuildConfig(t, h)
    BY <1>1
  <2>2. TypeOK' /\ DomainsStay
    BY <2>1 DEF SetBuildConfig, TypeOK, DomainsStay
  <2>3. Reserved'
    BY <2>1 DEF SetBuildConfig, Reserved, DomainsOf, TypeOK
  <2>4. Routed'
    BY <2>1, <2>3 DEF SetBuildConfig, Routed, Reserved, Known, Primary, DomainsOf
  <2>. QED BY <2>2, <2>3, <2>4 DEF PlatformGoal
<1>2. CASE \/ \E status \in {"ACTIVE", "CLOSED"} : SetStatus(t, status)
           \/ \E enabled \in BOOLEAN : SetFeature(t, enabled)
  <2>1. Known(t) /\ UNCHANGED <<domain, canonical, adding, conn, req>>
    BY <1>2 DEF SetStatus, SetFeature
  <2>2. tenant' \in [Tenants -> Tenant] /\ \A u \in Tenants : Known(u)' => Known(u)
    <3>1. CASE \E status \in {"ACTIVE", "CLOSED"} : SetStatus(t, status)
      BY <2>1, <3>1 DEF SetStatus, TypeOK, Tenant, Known
    <3>2. CASE \E enabled \in BOOLEAN : SetFeature(t, enabled)
      BY <2>1, <3>2 DEF SetFeature, TypeOK, Tenant, Known
    <3>. QED BY <1>2, <3>1, <3>2
  <2>3. TypeOK' /\ DomainsStay
    BY <2>1, <2>2 DEF TypeOK, DomainsStay
  <2>4. Reserved' /\ Routed'
    BY <2>1, <2>2 DEF Reserved, Routed, Primary, DomainsOf
  <2>. QED BY <2>3, <2>4 DEF PlatformGoal
<1>. QED BY <1>1, <1>2

\* No step of the platform takes a request's tenant, or its host, from it.
LEMMA PlatformKeeps ==
    ASSUME TenancyInv, NEW t \in Tenants, Platform(t)
    PROVE  TenancyInv'
<1>1. PlatformGoal
  <2>1. ASSUME NEW h \in Hosts, CreateTenant(t, h) \/ AddDomain(t, h)
        PROVE  PlatformGoal
    BY <2>1, InsertKeeps DEF TenancyInv, CreateTenant, AddDomain
  <2>2. CASE AddPrimaryDies(t) \/ \E h \in Hosts : AddPrimaryBegin(t, h)
    BY <2>2, AddingKeeps DEF TenancyInv
  <2>3. CASE AddPrimaryCommit(t)
    BY <2>3, CommitKeeps DEF TenancyInv
  <2>4. CASE \/ \E h \in Hosts : SetBuildConfig(t, h)
             \/ \E status \in {"ACTIVE", "CLOSED"} : SetStatus(t, status)
             \/ \E enabled \in BOOLEAN : SetFeature(t, enabled)
    BY <2>4, SettingsKeep DEF TenancyInv
  <2>. QED BY <2>1, <2>2, <2>3, <2>4 DEF Platform
<1>2. UNCHANGED <<conn, req>>
  BY DEF Platform, CreateTenant, SetStatus, SetFeature, AddDomain, AddPrimaryBegin,
         AddPrimaryCommit, AddPrimaryDies, SetBuildConfig
<1>3. BoundToUser' /\ HoldsOne'
  BY <1>2 DEF TenancyInv, BoundToUser, HoldsOne, Held
<1>4. KnowsTenant'
  <2>1. \A q \in Requests : req[q].host \subseteq Hosts
    BY DEF TenancyInv, TypeOK, Request
  <2>2. \A q \in Requests : req[q].tenant \in Tenants =>
           \A h \in req[q].host : domain'[h].tenant = req[q].tenant
    BY <1>1, <2>1 DEF TenancyInv, KnowsTenant, PlatformGoal, DomainsStay
  <2>. QED BY <1>2, <2>2 DEF TenancyInv, KnowsTenant
<1>. QED BY <1>1, <1>3, <1>4 DEF TenancyInv, PlatformGoal

-----------------------------------------------------------------------------
(* Requests.                                                               *)

RequestGoal == conn' \in [Conns -> Connection] /\ req' \in [Requests -> Request]
               /\ BoundToUser' /\ KnowsTenant' /\ HoldsOne'

\* A request that arrives has no connection.
LEMMA ArriveKeeps ==
    ASSUME TenancyInv, NEW q \in Requests,
           \/ \E h \in Hosts : Arrive(q, h)
           \/ \E t \in Tenants : CallbackArrives(q, t)
    PROVE  RequestGoal
<1> USE NamesAssumption DEF TenancyInv
<1>1. /\ UNCHANGED <<tenant, domain, canonical, adding, conn>>
      /\ req[q].pc = "IDLE"
  BY DEF Arrive, CallbackArrives
<1> DEFINE Begun(hs, t, pc) ==
        /\ req' = [req EXCEPT ![q] = [pc |-> pc, host |-> hs, tenant |-> t, saw |-> {}]]
        /\ \A g, h \in hs : g = h
        /\ pc = "ARRIVED" => t = NoTenant
        /\ pc = "ADMITTED" => hs = {} /\ t \in Tenants
<1>2. PICK hs \in SUBSET Hosts, t \in Tenants \cup {NoTenant}, pc \in {"ARRIVED", "ADMITTED"} :
        Begun(hs, t, pc)
  <2>1. ASSUME NEW h \in Hosts, Arrive(q, h) PROVE Begun({h}, NoTenant, "ARRIVED")
    BY <2>1 DEF Arrive
  <2>2. ASSUME NEW t \in Tenants, CallbackArrives(q, t) PROVE Begun({}, t, "ADMITTED")
    BY <2>2 DEF CallbackArrives
  <2>3. \A h \in Hosts : {h} \in SUBSET Hosts
    OBVIOUS
  <2> HIDE DEF Begun
  <2>. QED BY <2>1, <2>2, <2>3
<1> DEFINE new == [pc |-> pc, host |-> hs, tenant |-> t, saw |-> {}]
<1>3. /\ new \in Request /\ new.pc = pc /\ new.host = hs /\ new.tenant = t /\ new.saw = {}
  BY DEF Request
<1>4. req' = [req EXCEPT ![q] = new]
  BY <1>2
<1> HIDE DEF new
<1>5. req' \in [Requests -> Request] /\ req'[q] = new /\ \A r \in Requests \ {q} : req'[r] = req[r]
  BY <1>3, <1>4 DEF TypeOK
<1>6. \A c \in Conns : conn[c].user # q
  BY <1>1 DEF BoundToUser
<1>7. BoundToUser'
  <2>1. \A c \in Conns : conn[c].user # NoRequest => conn[c].user \in Requests \ {q}
    BY <1>6 DEF TypeOK, Connection
  <2>. QED BY <1>1, <1>5, <2>1 DEF BoundToUser
<1>8. KnowsTenant'
  <2>1. \A r \in Requests \ {q} : req'[r] = req[r]
    BY <1>5
  <2>2. pc = "ADMITTED" => hs = {} /\ t \in Tenants
    BY <1>2
  <2>3. pc = "ARRIVED" => t = NoTenant
    BY <1>2
  <2>. QED BY <1>1, <1>2, <1>3, <1>5, <2>1, <2>2, <2>3 DEF KnowsTenant
<1>9. HoldsOne'
  BY <1>1, <1>2, <1>3, <1>5 DEF HoldsOne, Held
<1>. QED BY <1>1, <1>5, <1>7, <1>8, <1>9 DEF RequestGoal, TypeOK

\* An idle connection gets the role, and the tenant the request knows.
LEMMA ConnectKeeps ==
    ASSUME TenancyInv, NEW q \in Requests, NEW c \in Conns, Connect(q, c)
    PROVE  RequestGoal
<1> USE NamesAssumption DEF TenancyInv
<1>1. UNCHANGED <<tenant, domain, canonical, adding>> /\ conn[c] = Unused
  BY DEF Connect, BoundToUser
<1>2. PICK pc \in {"RESOLVING", "INSIDE", "BOTH"} :
        /\ req' = [req EXCEPT ![q].pc = pc]
        /\ pc = "RESOLVING" => req[q].pc = "ARRIVED"
        /\ pc = "INSIDE" => req[q].pc = "ADMITTED"
        /\ pc = "BOTH" => req[q].pc = "WANTS"
  BY DEF Connect
<1> DEFINE row == [req[q] EXCEPT !.pc = pc]
           bound == IF req[q].pc = "ARRIVED" THEN GlobalSession(q, c) ELSE TenantSession(q, c)
<1>3. row \in Request /\ row.pc = pc /\ row.host = req[q].host /\ row.tenant = req[q].tenant
         /\ row.saw = req[q].saw
  BY DEF TypeOK, Request
<1>4. req' = [req EXCEPT ![q] = row]
  BY <1>2
<1>5. bound \in Connection /\ bound.user = q /\ bound.role = "APP" /\ bound.setting = row.tenant
         /\ bound.local = conn[c].local
  <2>1. conn[c].setting = NoTenant /\ (req[q].pc = "ARRIVED" => req[q].tenant = NoTenant)
    BY <1>1 DEF Unused, KnowsTenant
  <2>2. conn[c] \in Connection /\ req[q].tenant \in Tenants \cup {NoTenant}
    BY DEF TypeOK, Request
  <2>3. CASE req[q].pc = "ARRIVED"
    BY <1>3, <2>1, <2>2, <2>3 DEF GlobalSession, Connection
  <2>4. CASE req[q].pc # "ARRIVED"
    BY <1>3, <2>1, <2>2, <2>4 DEF TenantSession, Connection
  <2>. QED BY <2>3, <2>4
<1>6. conn' = [conn EXCEPT ![c] = bound]
  BY DEF Connect
<1> HIDE DEF row, bound
<1>7. req' \in [Requests -> Request] /\ req'[q] = row /\ \A r \in Requests \ {q} : req'[r] = req[r]
  BY <1>3, <1>4 DEF TypeOK
<1>8. conn' \in [Conns -> Connection] /\ conn'[c] = bound /\ \A d \in Conns \ {c} : conn'[d] = conn[d]
  BY <1>5, <1>6 DEF TypeOK
<1>9. BoundToUser'
  <2>1. \A d \in Conns : conn[d].user # NoRequest => conn[d].user \in Requests
    BY DEF TypeOK, Connection
  <2>2. ASSUME NEW d \in Conns \ {c}, conn[d].user # NoRequest
        PROVE  /\ req'[conn[d].user].tenant = req[conn[d].user].tenant
               /\ req'[conn[d].user].pc \in {"RESOLVING", "INSIDE", "WANTS", "BOTH"}
    <3>1. CASE conn[d].user = q
      BY <1>2, <1>3, <1>7, <3>1
    <3>2. CASE conn[d].user # q
      BY <1>7, <2>1, <2>2, <3>2 DEF BoundToUser
    <3>. QED BY <3>1, <3>2
  <2>3. q # NoRequest
    OBVIOUS
  <2>. QED BY <1>2, <1>3, <1>5, <1>7, <1>8, <2>2, <2>3 DEF BoundToUser
<1>10. KnowsTenant'
  BY <1>1, <1>2, <1>3, <1>7 DEF KnowsTenant
<1>11. HoldsOne'
  <2>1. pc = "INSIDE" => \A d \in Conns : conn[d].user # q
    BY <1>2 DEF BoundToUser
  <2>2. pc = "INSIDE" => \A d, e \in Held(q)' : d = e
    BY <1>8, <2>1 DEF Held
  <2>3. \A r \in Requests \ {q} : Held(r)' \subseteq Held(r)
    BY <1>5, <1>8 DEF Held
  <2>. QED BY <1>2, <1>3, <1>7, <2>2, <2>3 DEF HoldsOne
<1>. QED BY <1>7, <1>8, <1>9, <1>10, <1>11 DEF RequestGoal

\* What q held goes back, as the driver made it.
LEMMA GivenBack ==
    ASSUME TenancyInv, NEW q \in Requests,
           conn' = [c \in Conns |-> IF c \in Held(q) THEN Released(c) ELSE conn[c]]
    PROVE  /\ conn' \in [Conns -> Connection]
           /\ \A c \in Conns : \/ conn[c].user = q /\ conn'[c] = Unused
                               \/ conn[c].user # q /\ conn'[c] = conn[c]
<1> USE NamesAssumption DEF TenancyInv
<1>1. Unused \in Connection
  BY DEF Unused, Connection
<1>2. \A c \in Conns : Released(c) = Unused
  BY DEF Released, BoundToUser
<1>. QED BY <1>1, <1>2 DEF Held, TypeOK

LEMMA EndKeeps ==
    ASSUME TenancyInv, NEW q \in Requests, ResolveEnd(q) \/ Leave(q)
    PROVE  RequestGoal
<1> USE NamesAssumption DEF TenancyInv
<1>1. /\ UNCHANGED <<tenant, domain, canonical, adding>>
      /\ conn' = [c \in Conns |-> IF c \in Held(q) THEN Released(c) ELSE conn[c]]
  BY DEF ResolveEnd, Leave
<1>2. /\ conn' \in [Conns -> Connection]
      /\ \A c \in Conns : \/ conn[c].user = q /\ conn'[c] = Unused
                          \/ conn[c].user # q /\ conn'[c] = conn[c]
  BY <1>1, GivenBack
<1>3. PICK row \in Request :
        /\ req' = [req EXCEPT ![q] = row]
        /\ row.pc \in {"IDLE", "ADMITTED"}
        /\ \A g, h \in row.host : g = h
        /\ row.pc = "IDLE" => row.tenant = NoTenant
        /\ row.pc = "ADMITTED" => row.tenant \in Tenants
        /\ \A h \in row.host : domain[h].tenant = row.tenant
        /\ row.saw \subseteq {row.tenant} \cap Tenants
  <2>1. CASE ResolveEnd(q)
    <3>1. PICK h \in req[q].host :
            /\ domain[h].tenant # NoTenant
            /\ req' = [req EXCEPT ![q].pc = "ADMITTED", ![q].tenant = domain[h].tenant]
      BY <2>1 DEF ResolveEnd
    <3> DEFINE row == [req[q] EXCEPT !.pc = "ADMITTED", !.tenant = domain[h].tenant]
    <3>2. h \in Hosts /\ domain[h].tenant \in Tenants
      BY <3>1 DEF TypeOK, Request, Domain
    <3>3. row \in Request /\ row.pc = "ADMITTED" /\ row.tenant = domain[h].tenant
             /\ row.host = req[q].host /\ row.saw = req[q].saw
      BY <3>2 DEF TypeOK, Request
    <3>4. req' = [req EXCEPT ![q] = row]
      BY <3>1
    <3> HIDE DEF row
    <3>5. req[q].tenant = NoTenant /\ \A g \in req[q].host : g = h
      BY <2>1 DEF ResolveEnd, KnowsTenant
    <3>6. req[q].saw = {}
      BY <3>5 DEF KnowsTenant
    <3>. QED BY <3>2, <3>3, <3>4, <3>5, <3>6
  <2>2. CASE Leave(q)
    <3>1. NoOne \in Request
      BY DEF NoOne, Request
    <3>. QED BY <2>2, <3>1 DEF Leave, NoOne
  <2>. QED BY <2>1, <2>2
<1>4. req' \in [Requests -> Request] /\ req'[q] = row /\ \A r \in Requests \ {q} : req'[r] = req[r]
  BY <1>3 DEF TypeOK
<1>5. BoundToUser'
  <2>1. \A c \in Conns : conn'[c].user # NoRequest =>
           conn'[c] = conn[c] /\ conn[c].user \in Requests \ {q}
    <3>1. \A c \in Conns : conn[c].user \in Requests \cup {NoRequest}
      BY DEF TypeOK, Connection
    <3>. QED BY <1>2, <3>1 DEF Unused
  <2>2. \A c \in Conns : conn'[c] = Unused \/ conn'[c] = conn[c]
    BY <1>2
  <2>3. \A c \in Conns : conn'[c].local = TRUE /\ (conn'[c].user = NoRequest => conn'[c] = Unused)
    <3>1. Unused.local = TRUE
      BY DEF Unused
    <3>2. \A c \in Conns : conn[c].local = TRUE /\ (conn[c].user = NoRequest => conn[c] = Unused)
      BY DEF BoundToUser
    <3> HIDE DEF TenancyInv
    <3>3. ASSUME NEW c \in Conns
          PROVE  conn'[c].local = TRUE /\ (conn'[c].user = NoRequest => conn'[c] = Unused)
      <4>1. CASE conn'[c] = Unused
        BY <3>1, <4>1
      <4>2. CASE conn'[c] = conn[c]
        BY <3>2, <4>2
      <4>. QED BY <2>2, <4>1, <4>2
    <3>. QED BY <3>3
  <2>4. \A c \in Conns : conn'[c].user # NoRequest =>
           /\ conn'[c].role = "APP"
           /\ req'[conn'[c].user].pc \in {"RESOLVING", "INSIDE", "WANTS", "BOTH"}
           /\ conn'[c].setting = req'[conn'[c].user].tenant
    <3> TAKE c \in Conns
    <3> HAVE conn'[c].user # NoRequest
    <3>1. conn'[c] = conn[c] /\ conn[c].user \in Requests \ {q}
      BY <2>1
    <3>2. req'[conn[c].user] = req[conn[c].user]
      BY <1>4, <3>1
    <3>. QED BY <3>1, <3>2 DEF BoundToUser
  <2>. QED BY <2>3, <2>4 DEF BoundToUser
<1>6. KnowsTenant'
  BY <1>1, <1>3, <1>4 DEF KnowsTenant
<1>7. HoldsOne'
  <2>1. \A r \in Requests \ {q} : Held(r)' \subseteq Held(r)
    BY <1>2 DEF Held, Unused
  <2>. QED BY <1>3, <1>4, <2>1 DEF HoldsOne
<1>. QED BY <1>2, <1>4, <1>5, <1>6, <1>7 DEF RequestGoal

\* Inside, a request sees the rows of its tenant.
LEMMA InsideKeeps ==
    ASSUME TenancyInv, NEW q \in Requests, Read(q) \/ WantSecond(q)
    PROVE  RequestGoal
<1> USE NamesAssumption DEF TenancyInv
<1>1. UNCHANGED <<tenant, domain, canonical, adding, conn>>
  BY DEF Read, WantSecond
<1>2. \A c \in Held(q) : Visible(c) \subseteq {req[q].tenant} \cap Tenants
  <2>1. \A c \in Held(q) : conn[c].role = "APP" /\ conn[c].setting = req[q].tenant
    BY DEF Held, BoundToUser
  <2>. QED BY <2>1 DEF Visible
<1>3. PICK row \in Request :
        /\ req' = [req EXCEPT ![q] = row]
        /\ row.host = req[q].host /\ row.tenant = req[q].tenant
        /\ row.saw \subseteq {row.tenant} \cap Tenants
        /\ row.pc = req[q].pc \/ (row.pc = "WANTS" /\ req[q].pc = "INSIDE" /\ q \in Doubles)
        /\ req[q].pc \in {"INSIDE", "BOTH"}
  <2>1. CASE Read(q)
    <3> DEFINE shown == req[q].saw \cup UNION {Visible(c) : c \in Held(q)}
               row == [req[q] EXCEPT !.saw = shown]
    <3>1. shown \subseteq {req[q].tenant} \cap Tenants
      BY <1>2 DEF KnowsTenant
    <3> HIDE DEF shown
    <3>2. row \in Request /\ row.host = req[q].host /\ row.tenant = req[q].tenant
             /\ row.saw = shown /\ row.pc = req[q].pc
      BY <3>1 DEF TypeOK, Request
    <3>3. req' = [req EXCEPT ![q] = row] /\ req[q].pc \in {"INSIDE", "BOTH"}
      BY <2>1 DEF Read, shown
    <3> HIDE DEF row
    <3>. QED BY <3>1, <3>2, <3>3
  <2>2. CASE WantSecond(q)
    <3> DEFINE row == [req[q] EXCEPT !.pc = "WANTS"]
    <3>1. row \in Request /\ row.host = req[q].host /\ row.tenant = req[q].tenant
             /\ row.saw = req[q].saw /\ row.pc = "WANTS"
      BY DEF TypeOK, Request
    <3>2. req' = [req EXCEPT ![q] = row] /\ req[q].pc = "INSIDE" /\ q \in Doubles
      BY <2>2 DEF WantSecond
    <3> HIDE DEF row
    <3>. QED BY <3>1, <3>2 DEF KnowsTenant
  <2>. QED BY <2>1, <2>2
<1>4. req' \in [Requests -> Request] /\ req'[q] = row /\ \A r \in Requests \ {q} : req'[r] = req[r]
  BY <1>3 DEF TypeOK
<1>5. \A r \in Requests : /\ req'[r].tenant = req[r].tenant
                          /\ req'[r].pc = req[r].pc \/ (req'[r].pc = "WANTS" /\ req[r].pc = "INSIDE")
  BY <1>3, <1>4
<1>6. BoundToUser'
  <2>1. \A c \in Conns : conn[c].user # NoRequest => conn[c].user \in Requests
    BY DEF TypeOK, Connection
  <2>. QED BY <1>1, <1>5, <2>1 DEF BoundToUser
<1>7. KnowsTenant'
  BY <1>1, <1>3, <1>4 DEF KnowsTenant
<1>8. HoldsOne'
  BY <1>1, <1>3, <1>4 DEF HoldsOne, Held
<1>. QED BY <1>1, <1>4, <1>6, <1>7, <1>8 DEF RequestGoal, TypeOK

LEMMA RequestKeeps ==
    ASSUME TenancyInv, NEW q \in Requests, RequestStep(q)
    PROVE  TenancyInv'
<1>1. RequestGoal
  BY ArriveKeeps, ConnectKeeps, EndKeeps, InsideKeeps DEF RequestStep
<1>2. UNCHANGED <<tenant, domain, canonical, adding>>
  BY DEF RequestStep, Arrive, CallbackArrives, Connect, ResolveEnd, Read, WantSecond, Leave
<1>3. TypeOK'
  BY <1>1, <1>2 DEF RequestGoal, TenancyInv, TypeOK
<1>4. Reserved' /\ Routed'
  BY <1>2 DEF TenancyInv, Reserved, Routed, Known, Primary, DomainsOf
<1>. QED BY <1>1, <1>3, <1>4 DEF RequestGoal, TenancyInv

-----------------------------------------------------------------------------
(* Theorems.                                                               *)

(* Connections, requests, domains and the additions of domains keep to the *)
(* invariant, whatever the platform changes while requests are at work.    *)
THEOREM TenancyInvariance == Spec => []TenancyInv
<1>1. TenancyInv /\ [Next]_vars => TenancyInv'
  <2> SUFFICES ASSUME TenancyInv, [Next]_vars PROVE TenancyInv'
    OBVIOUS
  <2>1. CASE Next
    BY <2>1, PlatformKeeps, RequestKeeps DEF Next
  <2>2. CASE UNCHANGED vars
    BY <2>2 DEF vars, TenancyInv, TypeOK, BoundToUser, KnowsTenant, HoldsOne, Held, Reserved,
                Routed, Known, Primary, DomainsOf
  <2>. QED BY <2>1, <2>2
<1>. QED BY TenancyBegins, <1>1, PTL DEF Spec

(* A request reads only rows of the tenant whose host it was sent to, and  *)
(* an idle connection carries neither a role nor a tenant to its next user *)
(* (tenant_session and global_session, app/core/database.py).              *)
THEOREM IsolatedCorrect == Spec => []Isolated
<1>1. TenancyInv => Isolated
  BY DEF TenancyInv, Isolated, KnowsTenant, BoundToUser
<1>. QED BY <1>1, TenancyInvariance, PTL

(* A tenant that exists has a primary domain, and its static site the      *)
(* address of one of its domains, however additions of domains overlap     *)
(* (add_domain, app/tenancy/platform_router.py).                           *)
THEOREM RoutedCorrect == Spec => []Routed
<1>1. TenancyInv => Routed
  BY DEF TenancyInv
<1>. QED BY <1>1, TenancyInvariance, PTL

(* Requests that wait for a second connection hold the whole pool only     *)
(* when each of its connections is the first session of a different        *)
(* request whose route opens two (get_request_tenant_id and the routes of  *)
(* app/registrations/router.py that open a session of their own).          *)
THEOREM OnlyDoublesExhaustCorrect == Spec => []OnlyDoublesExhaust
<1>1. ASSUME TenancyInv, Exhausted PROVE \A c \in Conns : req[conn[c].user].pc = "WANTS"
  <2>1. \A c \in Conns : req[conn[c].user].pc \in {"RESOLVING", "INSIDE", "WANTS", "BOTH"}
    BY <1>1 DEF TenancyInv, BoundToUser, Exhausted
  <2>. QED BY <1>1, <2>1 DEF Exhausted, Waiting
<1>2. ASSUME TenancyInv, Exhausted PROVE \A c \in Conns : conn[c].user \in Requests
  BY <1>2 DEF TenancyInv, TypeOK, Connection, Exhausted
<1>3. ASSUME TenancyInv, Exhausted PROVE \A c \in Conns : conn[c].user \in Doubles
  BY <1>3, <1>1, <1>2 DEF TenancyInv, HoldsOne
<1>4. ASSUME TenancyInv, Exhausted, NEW c \in Conns, NEW d \in Conns, conn[c].user = conn[d].user
      PROVE  c = d
  BY <1>4, <1>1, <1>2 DEF TenancyInv, HoldsOne, Held
<1>5. TenancyInv => OnlyDoublesExhaust
  BY <1>1, <1>3, <1>4 DEF OnlyDoublesExhaust
<1>. QED BY <1>5, TenancyInvariance, PTL

-----------------------------------------------------------------------------
(* Releases.                                                               *)

Works(p) == script[p].pc \notin {"IDLE", "WAITING"}

\* flock: one script works at a time.
OneWorks == \A p, q \in Scripts : Works(p) /\ Works(q) => p = q

\* The schema has the migrations of a release.
Applied(b) == b # NoBundle => Level(b) <= schema

(* Whatever a script may start without migrating has its migrations: the   *)
(* releases of the links, and those a script has read from the links.      *)
LinksApplied ==
    /\ Applied(current) /\ Applied(previous)
    /\ \A p \in Scripts :
          /\ Applied(script[p].from)
          /\ script[p].op = "ROLLBACK" \/ script[p].pc \in {"MIGRATED", "CHECKING"}
                => Applied(script[p].to)

\* What a rollback has read from the links was described, and stays so.
FromLinks == \A p \in Scripts :
    /\ script[p].op = "ROLLBACK" => script[p].from \in described /\ script[p].to \in described
    /\ script[p].pc \in {"PROVEN", "SWAPPED"} => script[p].op = "ROLLBACK" /\ proven = "MATCHED"

ReleasesInv == ReleasesTypeOK /\ OneWorks /\ LinksApplied /\ FromLinks /\ ReleasesMatch

LEMMA ReleasesBegin == ReleasesInit => ReleasesInv
<1> SUFFICES ASSUME ReleasesInit PROVE ReleasesInv
  OBVIOUS
<1> USE BundlesAssumption DEF ReleasesInit, Idle
<1>1. ReleasesTypeOK
  BY DEF ReleasesTypeOK, Linked, Script
<1>2. OneWorks /\ FromLinks /\ ReleasesMatch
  BY DEF OneWorks, Works, FromLinks, ReleasesMatch, JudgesItsOwn, SchemaNotBehind
<1>3. LinksApplied
  BY DEF LinksApplied, Applied
<1>. QED BY <1>1, <1>2, <1>3 DEF ReleasesInv

-----------------------------------------------------------------------------
(* Types.                                                                  *)

LEMMA ReleasesTypes ==
    ReleasesTypeOK /\ FromLinks /\ [ReleasesNext]_releaseVars => ReleasesTypeOK'
<1> SUFFICES ASSUME ReleasesTypeOK, FromLinks, [ReleasesNext]_releaseVars PROVE ReleasesTypeOK'
  OBVIOUS
<1> USE BundlesAssumption DEF ReleasesTypeOK
<1>a. Idle \in Script
  BY DEF Script
<1>b. ASSUME NEW p \in Scripts, NEW pc \in {"WAITING", "LOCKED", "MIGRATED", "CHECKING", "PROVEN", "SWAPPED"},
             script[p] # Idle
      PROVE  [script[p] EXCEPT !.pc = pc] \in Script
  BY <1>b DEF Script
<1>1. ASSUME NEW b \in Bundles, Upload(b) PROVE ReleasesTypeOK'
  BY <1>1 DEF Upload
<1>2. ASSUME NEW p \in Scripts, NEW b \in Bundles, DeployBegin(p, b) PROVE ReleasesTypeOK'
  BY <1>2 DEF DeployBegin, Script, Linked
<1>3. ASSUME NEW p \in Scripts, DeployLock(p) PROVE ReleasesTypeOK'
  <2> DEFINE locked == [script[p] EXCEPT !.pc = "LOCKED", !.from = current]
  <2>1. script' = [script EXCEPT ![p] = locked]
    BY <1>3 DEF DeployLock
  <2>2. locked \in Script
    <3>1. script[p] # Idle /\ current \in Linked
      BY <1>3 DEF DeployLock, At, Idle, Linked
    <3>. QED BY <3>1 DEF Script
  <2>. QED BY <1>3, <2>1, <2>2 DEF DeployLock
<1>4. ASSUME NEW p \in Scripts,
             DeployMigrate(p) \/ DeployUp(p) \/ RollbackLock(p) \/ RollbackUp(p) \/ RollbackProven(p)
                \/ SwapPrevious(p)
      PROVE  ReleasesTypeOK'
  <2>1. script[p] # Idle
    BY <1>4 DEF DeployMigrate, DeployUp, RollbackLock, RollbackUp, RollbackProven, SwapPrevious, At, Idle
  <2>2. script[p].to \in Bundles
    BY <2>1 DEF Script
  <2>3. script' \in [Scripts -> Script]
    BY <1>4, <1>b, <2>1
       DEF DeployMigrate, DeployUp, RollbackLock, RollbackUp, RollbackProven, SwapPrevious, Goes
  <2>. QED BY <1>4, <2>2, <2>3
           DEF DeployMigrate, DeployUp, RollbackLock, RollbackUp, RollbackProven, SwapPrevious,
               Linked, FromLinks, At
<1>5. ASSUME NEW p \in Scripts, DeployReady(p) \/ DeployFails(p) \/ ScriptDies(p) PROVE ReleasesTypeOK'
  BY <1>5, <1>a DEF DeployReady, DeployFails, ScriptDies, Managed, Linked
<1>6. ASSUME NEW p \in Scripts, RollbackBegin(p) PROVE ReleasesTypeOK'
  BY <1>6 DEF RollbackBegin, Script, Linked
<1>7. ASSUME NEW p \in Scripts, SwapCurrent(p) PROVE ReleasesTypeOK'
  BY <1>7, <1>a DEF SwapCurrent, FromLinks, At
<1>8. CASE UNCHANGED releaseVars
  BY <1>8 DEF releaseVars
<1>. QED BY <1>1, <1>2, <1>3, <1>4, <1>5, <1>6, <1>7, <1>8 DEF ReleasesNext

-----------------------------------------------------------------------------
(* The lock, the schema and the links.                                     *)

\* Only the script that takes the lock begins to work, and then none does.
LEMMA LockStep == ReleasesTypeOK /\ OneWorks /\ [ReleasesNext]_releaseVars => OneWorks'
<1> SUFFICES ASSUME ReleasesTypeOK, OneWorks, [ReleasesNext]_releaseVars PROVE OneWorks'
  OBVIOUS
<1> USE DEF ReleasesTypeOK, OneWorks, Works
<1>1. ASSUME NEW p \in Scripts, DeployLock(p) \/ RollbackLock(p) PROVE OneWorks'
  <2>1. \A q \in Scripts : ~Works(q)
    BY <1>1 DEF DeployLock, RollbackLock, LockHeld
  <2>2. \A q \in Scripts \ {p} : script'[q] = script[q]
    BY <1>1 DEF DeployLock, RollbackLock, Goes
  <2>. QED BY <2>1, <2>2
<1>2. ASSUME NEW p \in Scripts,
             \/ DeployMigrate(p) \/ DeployUp(p) \/ RollbackUp(p) \/ RollbackProven(p) \/ SwapPrevious(p)
             \/ DeployReady(p) \/ DeployFails(p) \/ ScriptDies(p) \/ SwapCurrent(p) \/ RollbackBegin(p)
             \/ \E b \in Bundles : DeployBegin(p, b)
      PROVE  OneWorks'
  <2>1. \A q \in Scripts \ {p} : script'[q] = script[q]
    BY <1>2 DEF DeployMigrate, DeployUp, RollbackUp, RollbackProven, SwapPrevious, DeployReady,
                DeployFails, ScriptDies, SwapCurrent, RollbackBegin, DeployBegin, Goes
  <2>2. Works(p)' => Works(p)
    BY <1>2 DEF DeployMigrate, DeployUp, RollbackUp, RollbackProven, SwapPrevious, DeployReady,
                DeployFails, ScriptDies, SwapCurrent, RollbackBegin, DeployBegin, Goes, At, Idle
  <2>. QED BY <2>1, <2>2
<1>3. CASE (\E b \in Bundles : Upload(b)) \/ UNCHANGED releaseVars
  BY <1>3 DEF Upload, releaseVars
<1>. QED BY <1>1, <1>2, <1>3 DEF ReleasesNext

(* A step that does not shrink the schema, and moves links and scripts to  *)
(* releases with their migrations only.                                    *)
LEMMA AppliedStays ==
    ASSUME ReleasesTypeOK, schema' \in Nat, schema <= schema', NEW b \in Linked, Applied(b)
    PROVE  Applied(b)'
BY BundlesAssumption DEF Applied, ReleasesTypeOK, Linked

LEMMA ReleasesStep == ReleasesInv /\ [ReleasesNext]_releaseVars => ReleasesInv'
<1> SUFFICES ASSUME ReleasesInv, [ReleasesNext]_releaseVars PROVE ReleasesInv'
  OBVIOUS
<1> DEFINE Kept == LinksApplied' /\ FromLinks' /\ ReleasesMatch'
<1>t. ReleasesTypeOK /\ ReleasesTypeOK' /\ OneWorks /\ OneWorks'
  BY ReleasesTypes, LockStep DEF ReleasesInv
<1>l. /\ \A p \in Scripts : script[p].from \in Linked /\ script[p].to \in Linked
      /\ current \in Linked /\ previous \in Linked /\ running \in Linked
  BY <1>t DEF ReleasesTypeOK, Script, Idle, Linked
<1>s. schema' \in Nat /\ schema <= schema'
  <2>1. schema \in Nat /\ schema' \in Nat
    BY <1>t, BundlesAssumption DEF ReleasesTypeOK
  <2>2. ASSUME NEW p \in Scripts, DeployMigrate(p) PROVE schema <= schema'
    BY <2>2 DEF DeployMigrate
  <2>3. (\A p \in Scripts : ~DeployMigrate(p)) => schema' = schema
    BY DEF ReleasesNext, Upload, DeployBegin, DeployLock, DeployUp, DeployReady, DeployFails,
           RollbackBegin, RollbackLock, RollbackUp, RollbackProven, SwapPrevious, SwapCurrent,
           ScriptDies, releaseVars
  <2>. QED BY <2>1, <2>2, <2>3
<1>a. \A b \in Linked : Applied(b) => Applied(b)'
  BY <1>t, <1>s, AppliedStays
<1>i. LinksApplied /\ FromLinks /\ JudgesItsOwn /\ SchemaNotBehind
  BY DEF ReleasesInv, ReleasesMatch
<1>r. Applied(running)
  BY <1>i DEF SchemaNotBehind, Applied
<1>d. described' = described
  BY DEF ReleasesNext, Upload, DeployBegin, DeployLock, DeployMigrate, DeployUp, DeployReady, DeployFails,
           RollbackBegin, RollbackLock, RollbackUp, RollbackProven, SwapPrevious, SwapCurrent,
           ScriptDies, releaseVars
<1>1. ASSUME NEW b \in Bundles, Upload(b) PROVE Kept
  <2>1. UNCHANGED <<described, current, previous, schema, running, proven, script>>
    BY <1>1 DEF Upload
  <2>. QED BY <2>1, <1>i DEF LinksApplied, Applied, FromLinks, ReleasesMatch, JudgesItsOwn, SchemaNotBehind
<1>2. CASE UNCHANGED releaseVars
  BY <1>2, <1>i DEF releaseVars, ReleasesInv, LinksApplied, Applied, FromLinks, ReleasesMatch, JudgesItsOwn,
                    SchemaNotBehind, ReleasesTypeOK, OneWorks, Works
(* A step of a script p: the others are left alone.                        *)
<1>3. ASSUME NEW p \in Scripts,
             \A q \in Scripts \ {p} : script'[q] = script[q],
             Applied(current)' /\ Applied(previous)' /\ Applied(running)',
             Applied(script[p].from)',
             script'[p].op = "ROLLBACK" \/ script'[p].pc \in {"MIGRATED", "CHECKING"}
                => Applied(script[p].to)'
      PROVE  LinksApplied' /\ SchemaNotBehind'
  <2>1. LinksApplied'
    BY <1>3, <1>i, <1>a, <1>l DEF LinksApplied
  <2>. QED BY <1>3, <2>1 DEF SchemaNotBehind, Applied
<1>4. ASSUME NEW p \in Scripts, Works(p),
             \A q \in Scripts \ {p} : script'[q] = script[q],
             script'[p].op = "ROLLBACK" => script'[p].from \in described /\ script'[p].to \in described,
             script'[p].pc \in {"PROVEN", "SWAPPED"} => script'[p].op = "ROLLBACK" /\ proven' = "MATCHED",
             script'[p].pc \in {"CHECKING", "PROVEN", "SWAPPED"} => running' = script'[p].to
      PROVE  FromLinks' /\ JudgesItsOwn'
  <2>1. \A q \in Scripts \ {p} : ~Works(q)
    BY <1>4, <1>t DEF OneWorks
  <2>. QED BY <1>4, <2>1, <1>i, <1>d DEF FromLinks, JudgesItsOwn, Works
<1>5. ASSUME NEW p \in Scripts, ~Works(p), UNCHANGED <<running, proven>>,
             \A q \in Scripts \ {p} : script'[q] = script[q],
             script'[p].op = "ROLLBACK" => script'[p].from \in described /\ script'[p].to \in described,
             script'[p].pc \in {"IDLE", "WAITING", "LOCKED"}
      PROVE  FromLinks' /\ JudgesItsOwn'
  BY <1>5, <1>i, <1>d DEF FromLinks, JudgesItsOwn
<1> USE DEF Works, At, Goes
<1>6. ASSUME NEW p \in Scripts, NEW b \in Bundles, DeployBegin(p, b) PROVE Kept
  <2>1. /\ script'[p] = [pc |-> "WAITING", op |-> "DEPLOY", to |-> b, from |-> NoBundle]
        /\ \A q \in Scripts \ {p} : script'[q] = script[q]
        /\ UNCHANGED <<described, current, previous, schema, running, proven>>
        /\ ~Works(p)
    BY <1>6, <1>t DEF DeployBegin, ReleasesTypeOK, Idle
  <2>2. LinksApplied' /\ SchemaNotBehind'
    BY <2>1, <1>3, <1>i, <1>r DEF LinksApplied, Applied
  <2>3. FromLinks' /\ JudgesItsOwn'
    BY <2>1, <1>5
  <2>. QED BY <2>2, <2>3 DEF ReleasesMatch
<1>7. ASSUME NEW p \in Scripts, DeployLock(p) PROVE Kept
  <2>1. /\ script'[p].pc = "LOCKED" /\ script'[p].op = "DEPLOY" /\ script'[p].from = current
        /\ \A q \in Scripts \ {p} : script'[q] = script[q]
        /\ UNCHANGED <<described, current, previous, schema, running, proven>>
        /\ ~Works(p)
    BY <1>7, <1>t DEF DeployLock, ReleasesTypeOK
  <2>2. LinksApplied' /\ SchemaNotBehind'
    BY <2>1, <1>3, <1>i, <1>r DEF LinksApplied, Applied
  <2>3. FromLinks' /\ JudgesItsOwn'
    BY <2>1, <1>5
  <2>. QED BY <2>2, <2>3 DEF ReleasesMatch
<1>8. ASSUME NEW p \in Scripts, DeployMigrate(p) PROVE Kept
  <2>1. /\ script[p].pc = "LOCKED" /\ script[p].op = "DEPLOY"
        /\ script'[p].pc = "MIGRATED" /\ script'[p].op = "DEPLOY"
        /\ script'[p].from = script[p].from /\ script'[p].to = script[p].to
        /\ \A q \in Scripts \ {p} : script'[q] = script[q]
        /\ UNCHANGED <<described, current, previous, running, proven>>
        /\ schema' = Level(script[p].to)
    BY <1>8, <1>t DEF DeployMigrate, ReleasesTypeOK
  <2>2. Applied(script[p].to)'
    BY <2>1, <1>s DEF Applied
  <2>3. Applied(current)' /\ Applied(previous)' /\ Applied(running)' /\ Applied(script[p].from)'
    BY <2>1, <1>a, <1>l, <1>i, <1>r DEF LinksApplied, Applied
  <2>4. LinksApplied' /\ SchemaNotBehind'
    BY <2>1, <2>2, <2>3, <1>3
  <2>5. FromLinks' /\ JudgesItsOwn'
    BY <2>1, <1>4
  <2>. QED BY <2>4, <2>5 DEF ReleasesMatch
<1>9. ASSUME NEW p \in Scripts, DeployUp(p) \/ RollbackUp(p) PROVE Kept
  <2>1. /\ script[p].pc \in {"MIGRATED", "LOCKED"}
        /\ script[p].pc = "MIGRATED" \/ script[p].op = "ROLLBACK"
        /\ script'[p].pc = "CHECKING" /\ script'[p].op = script[p].op
        /\ script'[p].from = script[p].from /\ script'[p].to = script[p].to
        /\ \A q \in Scripts \ {p} : script'[q] = script[q]
        /\ UNCHANGED <<described, current, previous, schema>>
        /\ running' = script[p].to
    <3>1. CASE DeployUp(p)
      BY <3>1, <1>t DEF DeployUp, ReleasesTypeOK
    <3>2. CASE RollbackUp(p)
      BY <3>2, <1>t DEF RollbackUp, ReleasesTypeOK
    <3>. QED BY <1>9, <3>1, <3>2
  <2>2. Applied(script[p].to) /\ Applied(script[p].from) /\ Applied(current) /\ Applied(previous)
    BY <2>1, <1>i DEF LinksApplied
  <2>3. LinksApplied' /\ SchemaNotBehind'
    BY <2>1, <2>2, <1>3 DEF Applied
  <2>4. FromLinks' /\ JudgesItsOwn'
    BY <2>1, <1>4, <1>i DEF FromLinks
  <2>. QED BY <2>3, <2>4 DEF ReleasesMatch
<1>10. ASSUME NEW p \in Scripts, DeployReady(p) \/ SwapCurrent(p) PROVE Kept
  <2>1. /\ Works(p) /\ script'[p] = Idle
        /\ \A q \in Scripts \ {p} : script'[q] = script[q]
        /\ UNCHANGED <<described, previous, schema, running>>
        /\ current' = current \/ (script[p].op = "ROLLBACK" /\ current' = script[p].to)
    <3>1. CASE DeployReady(p)
      BY <3>1, <1>t DEF DeployReady, ReleasesTypeOK
    <3>2. CASE SwapCurrent(p)
      BY <3>2, <1>t DEF SwapCurrent, ReleasesTypeOK
    <3>. QED BY <1>10, <3>1, <3>2
  <2>2. LinksApplied' /\ SchemaNotBehind'
    BY <2>1, <1>3, <1>i, <1>r DEF LinksApplied, Applied, Idle
  <2>3. FromLinks' /\ JudgesItsOwn'
    BY <2>1, <1>4 DEF Idle
  <2>. QED BY <2>2, <2>3 DEF ReleasesMatch
<1>11. ASSUME NEW p \in Scripts, DeployFails(p) PROVE Kept
  <2>1. /\ Works(p) /\ script'[p] = Idle
        /\ \A q \in Scripts \ {p} : script'[q] = script[q]
        /\ UNCHANGED <<described, current, previous, schema>>
        /\ running' \in {script[p].from, NoBundle}
    BY <1>11, <1>t DEF DeployFails, ReleasesTypeOK
  <2>2. LinksApplied' /\ SchemaNotBehind'
    BY <2>1, <1>3, <1>i DEF LinksApplied, Applied, Idle
  <2>3. FromLinks' /\ JudgesItsOwn'
    BY <2>1, <1>4 DEF Idle
  <2>. QED BY <2>2, <2>3 DEF ReleasesMatch
<1>12. ASSUME NEW p \in Scripts, RollbackBegin(p) PROVE Kept
  <2>1. /\ script'[p] = [pc |-> "WAITING", op |-> "ROLLBACK", to |-> previous, from |-> current]
        /\ \A q \in Scripts \ {p} : script'[q] = script[q]
        /\ UNCHANGED <<described, current, previous, schema, running, proven>>
        /\ current \in described /\ previous \in described /\ ~Works(p)
    BY <1>12, <1>t DEF RollbackBegin, ReleasesTypeOK, Idle
  <2>2. LinksApplied' /\ SchemaNotBehind'
    BY <2>1, <1>3, <1>i, <1>r DEF LinksApplied, Applied
  <2>3. FromLinks' /\ JudgesItsOwn'
    BY <2>1, <1>5
  <2>. QED BY <2>2, <2>3 DEF ReleasesMatch
<1>13. ASSUME NEW p \in Scripts, RollbackLock(p) PROVE Kept
  <2>1. /\ script[p].op = "ROLLBACK" /\ ~Works(p)
        /\ script'[p].pc = "LOCKED" /\ script'[p].op = "ROLLBACK"
        /\ script'[p].from = script[p].from /\ script'[p].to = script[p].to
        /\ \A q \in Scripts \ {p} : script'[q] = script[q]
        /\ UNCHANGED <<described, current, previous, schema, running, proven>>
    BY <1>13, <1>t DEF RollbackLock, ReleasesTypeOK
  <2>2. LinksApplied' /\ SchemaNotBehind'
    BY <2>1, <1>3, <1>i, <1>r DEF LinksApplied, Applied
  <2>3. FromLinks' /\ JudgesItsOwn'
    BY <2>1, <1>5, <1>i DEF FromLinks
  <2>. QED BY <2>2, <2>3 DEF ReleasesMatch
<1>14. ASSUME NEW p \in Scripts, RollbackProven(p) \/ SwapPrevious(p) PROVE Kept
  <2>1. /\ script[p].op = "ROLLBACK" /\ script[p].pc \in {"CHECKING", "PROVEN"}
        /\ script'[p].pc \in {"PROVEN", "SWAPPED"} /\ script'[p].op = "ROLLBACK"
        /\ script'[p].from = script[p].from /\ script'[p].to = script[p].to
        /\ \A q \in Scripts \ {p} : script'[q] = script[q]
        /\ UNCHANGED <<described, current, schema, running>>
        /\ previous' \in {previous, script[p].from}
        /\ proven' = "MATCHED" \/ (proven' = proven /\ script[p].pc = "PROVEN")
    <3>1. CASE RollbackProven(p)
      BY <3>1, <1>t DEF RollbackProven, ReleasesTypeOK
    <3>2. CASE SwapPrevious(p)
      BY <3>2, <1>t DEF SwapPrevious, ReleasesTypeOK
    <3>. QED BY <1>14, <3>1, <3>2
  <2>2. LinksApplied' /\ SchemaNotBehind'
    BY <2>1, <1>3, <1>i, <1>r DEF LinksApplied, Applied
  <2>3. FromLinks' /\ JudgesItsOwn'
    BY <2>1, <1>4, <1>i DEF FromLinks, JudgesItsOwn
  <2>. QED BY <2>2, <2>3 DEF ReleasesMatch
<1>15. ASSUME NEW p \in Scripts, ScriptDies(p) PROVE Kept
  <2>1. /\ script'[p] = Idle
        /\ \A q \in Scripts \ {p} : script'[q] = script[q]
        /\ UNCHANGED <<described, current, previous, schema>>
        /\ \/ UNCHANGED <<running, proven>>
           \/ Works(p) /\ running' = NoBundle
    BY <1>15, <1>t DEF ScriptDies, ReleasesTypeOK
  <2>2. LinksApplied' /\ SchemaNotBehind'
    BY <2>1, <1>3, <1>i, <1>r DEF LinksApplied, Applied, Idle
  <2>3. FromLinks' /\ JudgesItsOwn'
    <3>1. CASE Works(p)
      BY <2>1, <3>1, <1>4 DEF Idle
    <3>2. CASE ~Works(p)
      BY <2>1, <3>2, <1>5 DEF Idle
    <3>. QED BY <3>1, <3>2
  <2>. QED BY <2>2, <2>3 DEF ReleasesMatch
<1>16. Kept \/ UNCHANGED releaseVars
  BY <1>1, <1>6, <1>7, <1>8, <1>9, <1>10, <1>11, <1>12, <1>13, <1>14, <1>15 DEF ReleasesNext
<1>. QED BY <1>2, <1>16, <1>t DEF ReleasesInv

(* What links, schema and scripts satisfy between any two steps.           *)
THEOREM ReleasesInvariance == ReleasesSpec => []ReleasesInv
BY ReleasesBegin, ReleasesStep, PTL DEF ReleasesSpec

(* For any number of scripts and releases, the application runs on a       *)
(* schema that has its migrations, and each script judges its own release. *)
THEOREM ReleasesMatchCorrect == ReleasesSpec => []ReleasesMatch
<1>1. ReleasesInv => ReleasesMatch
  BY DEF ReleasesInv
<1>. QED BY <1>1, ReleasesInvariance, PTL

(* Only a release that runs and has been verified becomes the current one. *)
THEOREM MovesCorrect == ReleasesSpec => MovesToProven
<1>1. ASSUME ReleasesInv, [ReleasesNext]_releaseVars
      PROVE  [current' # current => current' = running /\ proven = "MATCHED"]_releaseVars
  <2>1. ASSUME NEW p \in Scripts, SwapCurrent(p) PROVE current' = running /\ proven = "MATCHED"
    BY <1>1, <2>1 DEF SwapCurrent, At, ReleasesInv, ReleasesMatch, JudgesItsOwn, FromLinks
  <2>2. (\A p \in Scripts : ~SwapCurrent(p)) => current' = current
    BY <1>1 DEF ReleasesNext, Upload, DeployBegin, DeployLock, DeployMigrate, DeployUp, DeployReady,
                DeployFails, RollbackBegin, RollbackLock, RollbackUp, RollbackProven, SwapPrevious,
                ScriptDies, releaseVars
  <2>. QED BY <2>1, <2>2
<1>. QED BY <1>1, ReleasesInvariance, PTL DEF ReleasesSpec, MovesToProven

-----------------------------------------------------------------------------
(* The modules together.                                                   *)

(* What the operators run: whichever module a behaviour is about, the      *)
(* tables and the requests of all have their types.                        *)
THEOREM PlatformTypesCorrect == AllSpec => []PlatformTypeOK
<1>1. /\ AllInit => Init /\ ReleasesInit /\ SchemaInit
      /\ [AllNext]_<<vars, releaseVars, schemaVars, turn>> =>
            [Next]_vars /\ [ReleasesNext]_releaseVars /\ [SchemaNext]_schemaVars
  BY DEF AllInit, AllNext
<1>2. TenancyInv /\ ReleasesInv /\ SchemaTypeOK => PlatformTypeOK
  BY DEF PlatformTypeOK, TenancyInv, ReleasesInv
<1>. QED BY <1>1, <1>2, TenancyInvariance, ReleasesInvariance, SchemaTypeCorrect, PTL
         DEF AllSpec, Spec, ReleasesSpec, SchemaSpec
=============================================================================
