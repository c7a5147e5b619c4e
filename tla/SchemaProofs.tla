----------------------------- MODULE SchemaProofs -----------------------------
(***************************************************************************)
(* Proofs about Schema, for any tenants and any rows: migrations never     *)
(* meet a statement they cannot execute, and the database keeps tenants    *)
(* apart after any sequence of them.                                       *)
(***************************************************************************)
EXTENDS Schema, Integers, SequenceTheorems, TLAPS

-----------------------------------------------------------------------------
(* The tables in the order of their creation.  Every migration creates and *)
(* drops them as a stack: a table refers to earlier ones, or to itself.    *)

Name(i) ==
    CASE i = 1 -> "authentication_attempts"
      [] i = 2 -> "school_directory_entries"
      [] i = 3 -> "tenants"
      [] i = 4 -> "users"
      [] i = 5 -> "audit_events"
      [] i = 6 -> "contact_requests"
      [] i = 7 -> "exam_offerings"
      [] i = 8 -> "honor_categories"
      [] i = 9 -> "media_assets"
      [] i = 10 -> "pricing_plans"
      [] i = 11 -> "refresh_tokens"
      [] i = 12 -> "registration_form_definitions"
      [] i = 13 -> "tenant_addresses"
      [] i = 14 -> "tenant_domains"
      [] i = 15 -> "tenant_features"
      [] i = 16 -> "tenant_memberships"
      [] i = 17 -> "tenant_phones"
      [] i = 18 -> "tenant_profiles"
      [] i = 19 -> "tenant_social_links"
      [] i = 20 -> "banners"
      [] i = 21 -> "exam_pricing_plans"
      [] i = 22 -> "gallery_albums"
      [] i = 23 -> "honors"
      [] i = 24 -> "posts"
      [] i = 25 -> "registrations"
      [] i = 26 -> "sample_exams"
      [] i = 27 -> "staff_members"
      [] i = 28 -> "gallery_items"
      [] i = 29 -> "otp_challenges"
      [] i = 30 -> "payment_transactions"
      [] i = 31 -> "registration_contacts"
      [] i = 32 -> "tenant_site_build_configs"
      [] i = 33 -> "tenant_site_states"
      [] i = 34 -> "post_media_references"
      [] i = 35 -> "site_build_requests"

Place(t) ==
    CASE t = "authentication_attempts" -> 1
      [] t = "school_directory_entries" -> 2
      [] t = "tenants" -> 3
      [] t = "users" -> 4
      [] t = "audit_events" -> 5
      [] t = "contact_requests" -> 6
      [] t = "exam_offerings" -> 7
      [] t = "honor_categories" -> 8
      [] t = "media_assets" -> 9
      [] t = "pricing_plans" -> 10
      [] t = "refresh_tokens" -> 11
      [] t = "registration_form_definitions" -> 12
      [] t = "tenant_addresses" -> 13
      [] t = "tenant_domains" -> 14
      [] t = "tenant_features" -> 15
      [] t = "tenant_memberships" -> 16
      [] t = "tenant_phones" -> 17
      [] t = "tenant_profiles" -> 18
      [] t = "tenant_social_links" -> 19
      [] t = "banners" -> 20
      [] t = "exam_pricing_plans" -> 21
      [] t = "gallery_albums" -> 22
      [] t = "honors" -> 23
      [] t = "posts" -> 24
      [] t = "registrations" -> 25
      [] t = "sample_exams" -> 26
      [] t = "staff_members" -> 27
      [] t = "gallery_items" -> 28
      [] t = "otp_challenges" -> 29
      [] t = "payment_transactions" -> 30
      [] t = "registration_contacts" -> 31
      [] t = "tenant_site_build_configs" -> 32
      [] t = "tenant_site_states" -> 33
      [] t = "post_media_references" -> 34
      [] t = "site_build_requests" -> 35
      [] OTHER -> 0

LEMMA Named ==
    /\ Name(1) = "authentication_attempts" /\ Place("authentication_attempts") = 1
    /\ Name(2) = "school_directory_entries" /\ Place("school_directory_entries") = 2
    /\ Name(3) = "tenants" /\ Place("tenants") = 3
    /\ Name(4) = "users" /\ Place("users") = 4
    /\ Name(5) = "audit_events" /\ Place("audit_events") = 5
    /\ Name(6) = "contact_requests" /\ Place("contact_requests") = 6
    /\ Name(7) = "exam_offerings" /\ Place("exam_offerings") = 7
    /\ Name(8) = "honor_categories" /\ Place("honor_categories") = 8
    /\ Name(9) = "media_assets" /\ Place("media_assets") = 9
    /\ Name(10) = "pricing_plans" /\ Place("pricing_plans") = 10
    /\ Name(11) = "refresh_tokens" /\ Place("refresh_tokens") = 11
    /\ Name(12) = "registration_form_definitions" /\ Place("registration_form_definitions") = 12
    /\ Name(13) = "tenant_addresses" /\ Place("tenant_addresses") = 13
    /\ Name(14) = "tenant_domains" /\ Place("tenant_domains") = 14
    /\ Name(15) = "tenant_features" /\ Place("tenant_features") = 15
    /\ Name(16) = "tenant_memberships" /\ Place("tenant_memberships") = 16
    /\ Name(17) = "tenant_phones" /\ Place("tenant_phones") = 17
    /\ Name(18) = "tenant_profiles" /\ Place("tenant_profiles") = 18
    /\ Name(19) = "tenant_social_links" /\ Place("tenant_social_links") = 19
    /\ Name(20) = "banners" /\ Place("banners") = 20
    /\ Name(21) = "exam_pricing_plans" /\ Place("exam_pricing_plans") = 21
    /\ Name(22) = "gallery_albums" /\ Place("gallery_albums") = 22
    /\ Name(23) = "honors" /\ Place("honors") = 23
    /\ Name(24) = "posts" /\ Place("posts") = 24
    /\ Name(25) = "registrations" /\ Place("registrations") = 25
    /\ Name(26) = "sample_exams" /\ Place("sample_exams") = 26
    /\ Name(27) = "staff_members" /\ Place("staff_members") = 27
    /\ Name(28) = "gallery_items" /\ Place("gallery_items") = 28
    /\ Name(29) = "otp_challenges" /\ Place("otp_challenges") = 29
    /\ Name(30) = "payment_transactions" /\ Place("payment_transactions") = 30
    /\ Name(31) = "registration_contacts" /\ Place("registration_contacts") = 31
    /\ Name(32) = "tenant_site_build_configs" /\ Place("tenant_site_build_configs") = 32
    /\ Name(33) = "tenant_site_states" /\ Place("tenant_site_states") = 33
    /\ Name(34) = "post_media_references" /\ Place("post_media_references") = 34
    /\ Name(35) = "site_build_requests" /\ Place("site_build_requests") = 35
  BY DEF Name, Place

LEMMA NamesDiffer ==
    /\ \A i \in 1..35 : Place(Name(i)) = i
    /\ \A i, j \in 1..35 : Name(i) = Name(j) => i = j
<1>1. \A i \in 1..35 : Place(Name(i)) = i
  <2>1. ASSUME NEW i \in 1..35
        PROVE  Place(Name(i)) = i
    <3>1. CASE i \in 1..9
      BY <3>1, Named
    <3>2. CASE i \in 10..18
      BY <3>2, Named
    <3>3. CASE i \in 19..27
      BY <3>3, Named
    <3>4. CASE i \in 28..35
      BY <3>4, Named
    <3>. QED BY <3>1, <3>2, <3>3, <3>4
  <2>. QED BY <2>1
<1>. QED BY <1>1

\* The columns of the 24th table, posts, that refer to others from the start.
Plainly(col, i) == i = 24 => col \in {"tenant", "image"}

\* A reference that the i-th table may have: to itself or to an earlier one,
\* and to a table of tenants only together with the tenant.
May(r, i) ==
    /\ Place(r.to) \in 1..i /\ Name(Place(r.to)) = r.to
    /\ r.to \in Unscoped \/ r.own
    /\ Plainly(r.col, i)

\* The statement creates the i-th table, with references it may have.
Stacks(s, i) ==
    /\ s.op = "CREATE" /\ s.tables = {Name(i)}
    /\ \A k \in s.keys :
          /\ k.from = Name(i) /\ Place(k.to) \in 1..i /\ Name(Place(k.to)) = k.to
          /\ k.to \in Unscoped \/ k.own
          /\ Plainly(k.col, i)

LEMMA TableStacks ==
    ASSUME NEW i \in 1..35, NEW refs, \A r \in refs : May(r, i)
    PROVE  Stacks(Table(Name(i), refs), i)
BY NamesDiffer DEF May, Stacks, Table, Keys

LEMMA Plain ==
    ASSUME NEW n \in 1..35, NEW i \in n..35, NEW col, Name(n) \in Unscoped, Plainly(col, i)
    PROVE  May(To(col, Name(n)), i)
BY NamesDiffer DEF May, To

LEMMA WithTenant ==
    ASSUME NEW n \in 1..35, NEW i \in n..35, NEW col, Plainly(col, i)
    PROVE  May(Own(col, Name(n)), i)
BY NamesDiffer DEF May, Own

LEMMA OwnedStacks ==
    ASSUME NEW i \in 3..35, NEW refs, \A r \in refs : May(r, i)
    PROVE  Stacks(Owned(Name(i), refs), i)
<1>1. May(To("tenant", "tenants"), i)
  BY Plain, Named DEF Unscoped, Plainly
<1>. QED BY <1>1, TableStacks DEF Owned

LEMMA References ==
    \A c :
        /\ \A i \in 2..35 : Plainly(c, i) => May(To(c, "school_directory_entries"), i)
        /\ \A i \in 4..35 : Plainly(c, i) => May(To(c, "users"), i)
        /\ \A i \in 7..35 : Plainly(c, i) => May(Own(c, "exam_offerings"), i)
        /\ \A i \in 8..35 : Plainly(c, i) => May(Own(c, "honor_categories"), i)
        /\ \A i \in 9..35 : Plainly(c, i) => May(Own(c, "media_assets"), i)
        /\ \A i \in 10..35 : Plainly(c, i) => May(Own(c, "pricing_plans"), i)
        /\ \A i \in 11..35 : Plainly(c, i) => May(To(c, "refresh_tokens"), i)
        /\ \A i \in 12..35 : Plainly(c, i) => May(Own(c, "registration_form_definitions"), i)
        /\ \A i \in 22..35 : Plainly(c, i) => May(Own(c, "gallery_albums"), i)
        /\ \A i \in 24..35 : Plainly(c, i) => May(Own(c, "posts"), i)
        /\ \A i \in 25..35 : Plainly(c, i) => May(Own(c, "registrations"), i)
<1>1. \A c : \A i \in 2..35 : Plainly(c, i) => May(To(c, "school_directory_entries"), i)
  <2>1. 2 \in 1..35 /\ Name(2) = "school_directory_entries" /\ Name(2) \in Unscoped
    BY Named DEF Unscoped
  <2>. QED BY <2>1, Plain
<1>2. \A c : \A i \in 4..35 : Plainly(c, i) => May(To(c, "users"), i)
  <2>1. 4 \in 1..35 /\ Name(4) = "users" /\ Name(4) \in Unscoped
    BY Named DEF Unscoped
  <2>. QED BY <2>1, Plain
<1>3. \A c : \A i \in 7..35 : Plainly(c, i) => May(Own(c, "exam_offerings"), i)
  <2>1. 7 \in 1..35 /\ Name(7) = "exam_offerings"
    BY Named
  <2>. QED BY <2>1, WithTenant
<1>4. \A c : \A i \in 8..35 : Plainly(c, i) => May(Own(c, "honor_categories"), i)
  <2>1. 8 \in 1..35 /\ Name(8) = "honor_categories"
    BY Named
  <2>. QED BY <2>1, WithTenant
<1>5. \A c : \A i \in 9..35 : Plainly(c, i) => May(Own(c, "media_assets"), i)
  <2>1. 9 \in 1..35 /\ Name(9) = "media_assets"
    BY Named
  <2>. QED BY <2>1, WithTenant
<1>6. \A c : \A i \in 10..35 : Plainly(c, i) => May(Own(c, "pricing_plans"), i)
  <2>1. 10 \in 1..35 /\ Name(10) = "pricing_plans"
    BY Named
  <2>. QED BY <2>1, WithTenant
<1>7. \A c : \A i \in 11..35 : Plainly(c, i) => May(To(c, "refresh_tokens"), i)
  <2>1. 11 \in 1..35 /\ Name(11) = "refresh_tokens" /\ Name(11) \in Unscoped
    BY Named DEF Unscoped
  <2>. QED BY <2>1, Plain
<1>8. \A c : \A i \in 12..35 : Plainly(c, i) => May(Own(c, "registration_form_definitions"), i)
  <2>1. 12 \in 1..35 /\ Name(12) = "registration_form_definitions"
    BY Named
  <2>. QED BY <2>1, WithTenant
<1>9. \A c : \A i \in 22..35 : Plainly(c, i) => May(Own(c, "gallery_albums"), i)
  <2>1. 22 \in 1..35 /\ Name(22) = "gallery_albums"
    BY Named
  <2>. QED BY <2>1, WithTenant
<1>10. \A c : \A i \in 24..35 : Plainly(c, i) => May(Own(c, "posts"), i)
  <2>1. 24 \in 1..35 /\ Name(24) = "posts"
    BY Named
  <2>. QED BY <2>1, WithTenant
<1>11. \A c : \A i \in 25..35 : Plainly(c, i) => May(Own(c, "registrations"), i)
  <2>1. 25 \in 1..35 /\ Name(25) = "registrations"
    BY Named
  <2>. QED BY <2>1, WithTenant
<1>. QED BY <1>1, <1>2, <1>3, <1>4, <1>5, <1>6, <1>7, <1>8, <1>9, <1>10, <1>11

LEMMA AccountsStack ==
    \A i \in 1..5 : Stacks(Accounts[i], i)
<1>1. Stacks(Accounts[1], 1)
  <2>1. Accounts[1] = Table(Name(1), {})
    BY Named DEF Accounts
  <2>2. \A r \in {} : May(r, 1)
    BY References DEF Plainly
  <2>. QED BY <2>1, <2>2, TableStacks
<1>2. Stacks(Accounts[2], 2)
  <2>1. Accounts[2] = Table(Name(2), {})
    BY Named DEF Accounts
  <2>2. \A r \in {} : May(r, 2)
    BY References DEF Plainly
  <2>. QED BY <2>1, <2>2, TableStacks
<1>3. Stacks(Accounts[3], 3)
  <2>1. Accounts[3] = Table(Name(3), {})
    BY Named DEF Accounts
  <2>2. \A r \in {} : May(r, 3)
    BY References DEF Plainly
  <2>. QED BY <2>1, <2>2, TableStacks
<1>4. Stacks(Accounts[4], 4)
  <2>1. Accounts[4] = Table(Name(4), {})
    BY Named DEF Accounts
  <2>2. \A r \in {} : May(r, 4)
    BY References DEF Plainly
  <2>. QED BY <2>1, <2>2, TableStacks
<1>5. Stacks(Accounts[5], 5)
  <2>1. Accounts[5] = Owned(Name(5), {To("actor", "users")})
    BY Named DEF Accounts
  <2>2. \A r \in {To("actor", "users")} : May(r, 5)
    BY References DEF Plainly
  <2>. QED BY <2>1, <2>2, OwnedStacks
<1>. QED BY <1>1, <1>2, <1>3, <1>4, <1>5

LEMMA OffersStack ==
    \A i \in 1..3 : Stacks(Offers[i], 5 + i)
<1>1. Stacks(Offers[1], 6)
  <2>1. Offers[1] = Owned(Name(6), {To("handler", "users")})
    BY Named DEF Offers
  <2>2. \A r \in {To("handler", "users")} : May(r, 6)
    BY References DEF Plainly
  <2>. QED BY <2>1, <2>2, OwnedStacks
<1>2. Stacks(Offers[2], 7)
  <2>1. Offers[2] = Owned(Name(7), {})
    BY Named DEF Offers
  <2>2. \A r \in {} : May(r, 7)
    BY References DEF Plainly
  <2>. QED BY <2>1, <2>2, OwnedStacks
<1>3. Stacks(Offers[3], 8)
  <2>1. Offers[3] = Owned(Name(8), {})
    BY Named DEF Offers
  <2>2. \A r \in {} : May(r, 8)
    BY References DEF Plainly
  <2>. QED BY <2>1, <2>2, OwnedStacks
<1>. QED BY <1>1, <1>2, <1>3

LEMMA AssetsStack ==
    \A i \in 1..3 : Stacks(Assets[i], 8 + i)
<1>1. Stacks(Assets[1], 9)
  <2>1. Assets[1] = Owned(Name(9), {})
    BY Named DEF Assets
  <2>2. \A r \in {} : May(r, 9)
    BY References DEF Plainly
  <2>. QED BY <2>1, <2>2, OwnedStacks
<1>2. Stacks(Assets[2], 10)
  <2>1. Assets[2] = Owned(Name(10), {})
    BY Named DEF Assets
  <2>2. \A r \in {} : May(r, 10)
    BY References DEF Plainly
  <2>. QED BY <2>1, <2>2, OwnedStacks
<1>3. Stacks(Assets[3], 11)
  <2>1. Assets[3] = Owned(Name(11), {To("replacement", "refresh_tokens"), To("user", "users")})
    BY Named DEF Assets
  <2>2. \A r \in {To("replacement", "refresh_tokens"), To("user", "users")} : May(r, 11)
    BY References DEF Plainly
  <2>. QED BY <2>1, <2>2, OwnedStacks
<1>. QED BY <1>1, <1>2, <1>3

LEMMA IdentityStack ==
    \A i \in 1..5 : Stacks(Identity[i], 11 + i)
<1>1. Stacks(Identity[1], 12)
  <2>1. Identity[1] = Owned(Name(12), {})
    BY Named DEF Identity
  <2>2. \A r \in {} : May(r, 12)
    BY References DEF Plainly
  <2>. QED BY <2>1, <2>2, OwnedStacks
<1>2. Stacks(Identity[2], 13)
  <2>1. Identity[2] = Owned(Name(13), {})
    BY Named DEF Identity
  <2>2. \A r \in {} : May(r, 13)
    BY References DEF Plainly
  <2>. QED BY <2>1, <2>2, OwnedStacks
<1>3. Stacks(Identity[3], 14)
  <2>1. Identity[3] = Owned(Name(14), {})
    BY Named DEF Identity
  <2>2. \A r \in {} : May(r, 14)
    BY References DEF Plainly
  <2>. QED BY <2>1, <2>2, OwnedStacks
<1>4. Stacks(Identity[4], 15)
  <2>1. Identity[4] = Owned(Name(15), {})
    BY Named DEF Identity
  <2>2. \A r \in {} : May(r, 15)
    BY References DEF Plainly
  <2>. QED BY <2>1, <2>2, OwnedStacks
<1>5. Stacks(Identity[5], 16)
  <2>1. Identity[5] = Owned(Name(16), {To("user", "users")})
    BY Named DEF Identity
  <2>2. \A r \in {To("user", "users")} : May(r, 16)
    BY References DEF Plainly
  <2>. QED BY <2>1, <2>2, OwnedStacks
<1>. QED BY <1>1, <1>2, <1>3, <1>4, <1>5

LEMMA ProfilesStack ==
    \A i \in 1..5 : Stacks(Profiles[i], 16 + i)
<1>1. Stacks(Profiles[1], 17)
  <2>1. Profiles[1] = Owned(Name(17), {})
    BY Named DEF Profiles
  <2>2. \A r \in {} : May(r, 17)
    BY References DEF Plainly
  <2>. QED BY <2>1, <2>2, OwnedStacks
<1>2. Stacks(Profiles[2], 18)
  <2>1. Profiles[2] = Owned(Name(18), {})
    BY Named DEF Profiles
  <2>2. \A r \in {} : May(r, 18)
    BY References DEF Plainly
  <2>. QED BY <2>1, <2>2, OwnedStacks
<1>3. Stacks(Profiles[3], 19)
  <2>1. Profiles[3] = Owned(Name(19), {})
    BY Named DEF Profiles
  <2>2. \A r \in {} : May(r, 19)
    BY References DEF Plainly
  <2>. QED BY <2>1, <2>2, OwnedStacks
<1>4. Stacks(Profiles[4], 20)
  <2>1. Profiles[4] = Owned(Name(20), {Image})
    BY Named DEF Profiles
  <2>2. \A r \in {Image} : May(r, 20)
    BY References DEF Plainly, Image
  <2>. QED BY <2>1, <2>2, OwnedStacks
<1>5. Stacks(Profiles[5], 21)
  <2>1. Profiles[5] = Owned(Name(21), {Own("exam", "exam_offerings"), Own("plan", "pricing_plans")})
    BY Named DEF Profiles
  <2>2. \A r \in {Own("exam", "exam_offerings"), Own("plan", "pricing_plans")} : May(r, 21)
    BY References DEF Plainly
  <2>. QED BY <2>1, <2>2, OwnedStacks
<1>. QED BY <1>1, <1>2, <1>3, <1>4, <1>5

LEMMA PublicationsStack ==
    \A i \in 1..3 : Stacks(Publications[i], 21 + i)
<1>1. Stacks(Publications[1], 22)
  <2>1. Publications[1] = Owned(Name(22), {Image})
    BY Named DEF Publications
  <2>2. \A r \in {Image} : May(r, 22)
    BY References DEF Plainly, Image
  <2>. QED BY <2>1, <2>2, OwnedStacks
<1>2. Stacks(Publications[2], 23)
  <2>1. Publications[2] = Owned(Name(23), {Own("category", "honor_categories"), Image})
    BY Named DEF Publications
  <2>2. \A r \in {Own("category", "honor_categories"), Image} : May(r, 23)
    BY References DEF Plainly, Image
  <2>. QED BY <2>1, <2>2, OwnedStacks
<1>3. Stacks(Publications[3], 24)
  <2>1. Publications[3] = Owned(Name(24), {Image})
    BY Named DEF Publications
  <2>2. \A r \in {Image} : May(r, 24)
    BY References DEF Plainly, Image
  <2>. QED BY <2>1, <2>2, OwnedStacks
<1>. QED BY <1>1, <1>2, <1>3

LEMMA ApplicationsStack ==
    \A i \in 1..1 : Stacks(Applications[i], 24 + i)
<1>1. Stacks(Applications[1], 25)
  <2>1. Applications[1] = Owned(Name(25), {
            To("current_school", "school_directory_entries"),
            To("previous_school", "school_directory_entries"),
            Own("exam", "exam_offerings"), Own("form", "registration_form_definitions"),
            Own("plan", "pricing_plans"), Image})
    BY Named DEF Applications
  <2>2. \A r \in {
            To("current_school", "school_directory_entries"),
            To("previous_school", "school_directory_entries"),
            Own("exam", "exam_offerings"), Own("form", "registration_form_definitions"),
            Own("plan", "pricing_plans"), Image} : May(r, 25)
    BY References DEF Plainly, Image
  <2>. QED BY <2>1, <2>2, OwnedStacks
<1>. QED BY <1>1

LEMMA ShowcaseStack ==
    \A i \in 1..3 : Stacks(Showcase[i], 25 + i)
<1>1. Stacks(Showcase[1], 26)
  <2>1. Showcase[1] = Owned(Name(26), {Image, Own("file", "media_assets")})
    BY Named DEF Showcase
  <2>2. \A r \in {Image, Own("file", "media_assets")} : May(r, 26)
    BY References DEF Plainly, Image
  <2>. QED BY <2>1, <2>2, OwnedStacks
<1>2. Stacks(Showcase[2], 27)
  <2>1. Showcase[2] = Owned(Name(27), {Image})
    BY Named DEF Showcase
  <2>2. \A r \in {Image} : May(r, 27)
    BY References DEF Plainly, Image
  <2>. QED BY <2>1, <2>2, OwnedStacks
<1>3. Stacks(Showcase[3], 28)
  <2>1. Showcase[3] = Owned(Name(28), {Own("album", "gallery_albums"), Image})
    BY Named DEF Showcase
  <2>2. \A r \in {Own("album", "gallery_albums"), Image} : May(r, 28)
    BY References DEF Plainly, Image
  <2>. QED BY <2>1, <2>2, OwnedStacks
<1>. QED BY <1>1, <1>2, <1>3

LEMMA ReceiptsStack ==
    \A i \in 1..2 : Stacks(Receipts[i], 28 + i)
<1>1. Stacks(Receipts[1], 29)
  <2>1. Receipts[1] = Owned(Name(29), {Own("registration", "registrations")})
    BY Named DEF Receipts
  <2>2. \A r \in {Own("registration", "registrations")} : May(r, 29)
    BY References DEF Plainly
  <2>. QED BY <2>1, <2>2, OwnedStacks
<1>2. Stacks(Receipts[2], 30)
  <2>1. Receipts[2] = Owned(Name(30), {Own("registration", "registrations")})
    BY Named DEF Receipts
  <2>2. \A r \in {Own("registration", "registrations")} : May(r, 30)
    BY References DEF Plainly
  <2>. QED BY <2>1, <2>2, OwnedStacks
<1>. QED BY <1>1, <1>2

LEMMA ContactsStack ==
    \A i \in 1..1 : Stacks(Contacts[i], 30 + i)
<1>1. Stacks(Contacts[1], 31)
  <2>1. Contacts[1] = Owned(Name(31), {Own("registration", "registrations")})
    BY Named DEF Contacts
  <2>2. \A r \in {Own("registration", "registrations")} : May(r, 31)
    BY References DEF Plainly
  <2>. QED BY <2>1, <2>2, OwnedStacks
<1>. QED BY <1>1

LEMMA BuildTablesStack ==
    \A i \in 1..4 : Stacks(BuildTables[i], 31 + i)
<1>1. Stacks(BuildTables[1], 32)
  <2>1. BuildTables[1] = Owned(Name(32), {})
    BY Named DEF BuildTables
  <2>2. \A r \in {} : May(r, 32)
    BY References DEF Plainly
  <2>. QED BY <2>1, <2>2, OwnedStacks
<1>2. Stacks(BuildTables[2], 33)
  <2>1. BuildTables[2] = Owned(Name(33), {})
    BY Named DEF BuildTables
  <2>2. \A r \in {} : May(r, 33)
    BY References DEF Plainly
  <2>. QED BY <2>1, <2>2, OwnedStacks
<1>3. Stacks(BuildTables[3], 34)
  <2>1. BuildTables[3] = Owned(Name(34), {Own("media", "media_assets"), Own("post", "posts")})
    BY Named DEF BuildTables
  <2>2. \A r \in {Own("media", "media_assets"), Own("post", "posts")} : May(r, 34)
    BY References DEF Plainly
  <2>. QED BY <2>1, <2>2, OwnedStacks
<1>4. Stacks(BuildTables[4], 35)
  <2>1. BuildTables[4] = Owned(Name(35), {To("creator", "users")})
    BY Named DEF BuildTables
  <2>2. \A r \in {To("creator", "users")} : May(r, 35)
    BY References DEF Plainly
  <2>. QED BY <2>1, <2>2, OwnedStacks
<1>. QED BY <1>1, <1>2, <1>3, <1>4

-----------------------------------------------------------------------------
(* The migrations, statement by statement.                                 *)

\* A sequence of n statements that create the tables after the k-th one.
Pile(s, k, n) ==
    /\ \E S : s \in Seq(S)
    /\ Len(s) = n /\ \A i \in 1..n : Stacks(s[i], k + i)

\* c is a followed by b, of lengths m and n.
Joint(c, a, b, m, n) ==
    /\ Len(c) = m + n
    /\ \A i \in 1..m + n : c[i] = IF i <= m THEN a[i] ELSE b[i - m]

LEMMA Joined ==
    ASSUME NEW S, NEW T, NEW a \in Seq(S), NEW b \in Seq(T)
    PROVE  /\ Joint(a \o b, a, b, Len(a), Len(b))
           /\ \E U : a \o b \in Seq(U)
<1>1. PICK U : a \in Seq(U) /\ b \in Seq(U)
  <2> DEFINE U == S \cup T
  <2>1. a \in [1..Len(a) -> U] /\ Len(a) \in Nat
    OBVIOUS
  <2>2. b \in [1..Len(b) -> U] /\ Len(b) \in Nat
    OBVIOUS
  <2>3. a \in Seq(U) /\ b \in Seq(U)
    BY <2>1, <2>2
  <2>. QED BY <2>3
<1>2. /\ a \o b \in Seq(U) /\ Len(a \o b) = Len(a) + Len(b)
      /\ \A i \in 1..Len(a) + Len(b) :
            (a \o b)[i] = IF i <= Len(a) THEN a[i] ELSE b[i - Len(a)]
  BY <1>1, ConcatProperties
<1>. QED BY <1>2, Zenon DEF Joint

LEMMA Higher ==
    ASSUME NEW a, NEW b, NEW m \in Nat, NEW n \in Nat, Pile(a, 0, m), Pile(b, m, n)
    PROVE  Pile(a \o b, 0, m + n)
<1> DEFINE c == a \o b
<1>1. Joint(c, a, b, Len(a), Len(b)) /\ \E U : c \in Seq(U)
  BY Joined, Zenon DEF Pile
<1>2. Len(a) = m /\ Len(b) = n
  BY DEF Pile
<1> HIDE DEF c
<1>3. Joint(c, a, b, m, n)
  BY <1>1, <1>2
<1>4. ASSUME NEW i \in 1..m + n
      PROVE  Stacks(c[i], 0 + i)
  <2>1. CASE i <= m
    <3>1. c[i] = a[i] /\ Stacks(a[i], 0 + i)
      BY <1>3, <2>1 DEF Joint, Pile
    <3>. QED BY <3>1
  <2>2. CASE i > m
    <3>1. i - m \in 1..n /\ m + (i - m) = i /\ 0 + i = i
      BY <2>2
    <3>2. c[i] = b[i - m] /\ Stacks(b[i - m], m + (i - m))
      BY <1>3, <2>2, <3>1 DEF Joint, Pile
    <3>. QED BY <3>1, <3>2
  <2>. QED BY <2>1, <2>2
<1>5. Pile(c, 0, m + n)
  BY <1>1, <1>3, <1>4 DEF Pile, Joint
<1>. QED BY <1>5 DEF c

LEMMA CreatedPile == Pile(Created, 0, 31)
<1>1. Pile(Accounts, 0, 5)
  <2>1. Accounts \in Seq({Accounts[i] : i \in 1..5}) /\ Len(Accounts) = 5
    BY DEF Accounts
  <2>. QED BY <2>1, AccountsStack DEF Pile
<1>2. Pile(Offers, 5, 3)
  <2>1. Offers \in Seq({Offers[i] : i \in 1..3}) /\ Len(Offers) = 3
    BY DEF Offers
  <2>. QED BY <2>1, OffersStack DEF Pile
<1>3. Pile(Assets, 8, 3)
  <2>1. Assets \in Seq({Assets[i] : i \in 1..3}) /\ Len(Assets) = 3
    BY DEF Assets
  <2>. QED BY <2>1, AssetsStack DEF Pile
<1>4. Pile(Identity, 11, 5)
  <2>1. Identity \in Seq({Identity[i] : i \in 1..5}) /\ Len(Identity) = 5
    BY DEF Identity
  <2>. QED BY <2>1, IdentityStack DEF Pile
<1>5. Pile(Profiles, 16, 5)
  <2>1. Profiles \in Seq({Profiles[i] : i \in 1..5}) /\ Len(Profiles) = 5
    BY DEF Profiles
  <2>. QED BY <2>1, ProfilesStack DEF Pile
<1>6. Pile(Publications, 21, 3)
  <2>1. Publications \in Seq({Publications[i] : i \in 1..3}) /\ Len(Publications) = 3
    BY DEF Publications
  <2>. QED BY <2>1, PublicationsStack DEF Pile
<1>7. Pile(Applications, 24, 1)
  <2>1. Applications \in Seq({Applications[i] : i \in 1..1}) /\ Len(Applications) = 1
    BY DEF Applications
  <2>. QED BY <2>1, ApplicationsStack DEF Pile
<1>8. Pile(Showcase, 25, 3)
  <2>1. Showcase \in Seq({Showcase[i] : i \in 1..3}) /\ Len(Showcase) = 3
    BY DEF Showcase
  <2>. QED BY <2>1, ShowcaseStack DEF Pile
<1>9. Pile(Receipts, 28, 2)
  <2>1. Receipts \in Seq({Receipts[i] : i \in 1..2}) /\ Len(Receipts) = 2
    BY DEF Receipts
  <2>. QED BY <2>1, ReceiptsStack DEF Pile
<1>10. Pile(Contacts, 30, 1)
  <2>1. Contacts \in Seq({Contacts[i] : i \in 1..1}) /\ Len(Contacts) = 1
    BY DEF Contacts
  <2>. QED BY <2>1, ContactsStack DEF Pile
<1>11. Pile(Accounts \o Offers, 0, 8)
  BY <1>1, <1>2, Higher
<1>12. Pile(Accounts \o Offers \o Assets, 0, 11)
  BY <1>11, <1>3, Higher
<1>13. Pile(Accounts \o Offers \o Assets \o Identity, 0, 16)
  BY <1>12, <1>4, Higher
<1>14. Pile(Accounts \o Offers \o Assets \o Identity \o Profiles, 0, 21)
  BY <1>13, <1>5, Higher
<1>15. Pile(Accounts \o Offers \o Assets \o Identity \o Profiles \o Publications, 0, 24)
  BY <1>14, <1>6, Higher
<1>16. Pile(Accounts \o Offers \o Assets \o Identity \o Profiles \o Publications \o
            Applications, 0, 25)
  BY <1>15, <1>7, Higher
<1>17. Pile(Accounts \o Offers \o Assets \o Identity \o Profiles \o Publications \o
            Applications \o Showcase, 0, 28)
  BY <1>16, <1>8, Higher
<1>18. Pile(Accounts \o Offers \o Assets \o Identity \o Profiles \o Publications \o
            Applications \o Showcase \o Receipts, 0, 30)
  BY <1>17, <1>9, Higher
<1>. QED BY <1>18, <1>10, Higher DEF Created

LEMMA BuildPile == Pile(BuildTables, 31, 4)
<1>1. BuildTables \in Seq({BuildTables[i] : i \in 1..4}) /\ Len(BuildTables) = 4
  BY DEF BuildTables
<1>. QED BY <1>1, BuildTablesStack DEF Pile

Stack(n) == {Name(i) : i \in 1..n}

TableStatement(i) == IF i <= 31 THEN Created[i] ELSE BuildTables[i - 31]

KeysUpTo(n) == UNION {TableStatement(i).keys : i \in 1..n}

AllKeys == KeysUpTo(35) \cup PostKeys.keys

LEMMA Stacked == \A i \in 1..35 : Stacks(TableStatement(i), i)
<1>1. ASSUME NEW i \in 1..35
      PROVE  Stacks(TableStatement(i), i)
  <2>1. CASE i <= 31
    <3>1. i \in 1..31 /\ 0 + i = i
      BY <2>1
    <3>2. Stacks(Created[i], 0 + i)
      BY <3>1, CreatedPile DEF Pile
    <3>. QED BY <2>1, <3>1, <3>2 DEF TableStatement
  <2>2. CASE i > 31
    <3>1. i - 31 \in 1..4 /\ 31 + (i - 31) = i
      BY <2>2
    <3>2. Stacks(BuildTables[i - 31], 31 + (i - 31))
      BY <3>1, BuildPile DEF Pile
    <3>. QED BY <2>2, <3>1, <3>2 DEF TableStatement
  <2>. QED BY <2>1, <2>2
<1>. QED BY <1>1

LEMMA OnStack ==
    ASSUME NEW n \in 0..35, NEW t
    PROVE  t \in Stack(n) <=> Place(t) \in 1..n /\ Name(Place(t)) = t
BY NamesDiffer DEF Stack

LEMMA StackGrows ==
    ASSUME NEW n \in 1..35
    PROVE  /\ Stack(n) = Stack(n - 1) \cup {Name(n)} /\ Name(n) \notin Stack(n - 1)
           /\ KeysUpTo(n) = KeysUpTo(n - 1) \cup TableStatement(n).keys
<1>1. 1..n = (1..(n - 1)) \cup {n}
  OBVIOUS
<1>2. Name(n) \notin Stack(n - 1)
  BY NamesDiffer DEF Stack
<1>3. Stack(n) = Stack(n - 1) \cup {Name(n)}
  BY <1>1 DEF Stack
<1>4. KeysUpTo(n) = KeysUpTo(n - 1) \cup TableStatement(n).keys
  BY <1>1 DEF KeysUpTo
<1>. QED BY <1>2, <1>3, <1>4

(* Keys lead down the stack, and to tenants' tables with the tenant only.  *)
LEMMA KeysLeadDown ==
    ASSUME NEW k \in AllKeys
    PROVE  /\ Place(k.from) \in 1..35 /\ Name(Place(k.from)) = k.from
           /\ Place(k.to) \in 1..Place(k.from) /\ Name(Place(k.to)) = k.to
           /\ k.to \in Unscoped \/ k.own
<1>1. CASE k \in PostKeys.keys
  <2>1. k.from = "posts" /\ k.to \in {"users", "media_assets"} /\ (k.to = "users" \/ k.own)
    BY <1>1 DEF PostKeys, Keys, To, Own
  <2>. QED BY <2>1, Named DEF Unscoped
<1>2. CASE k \in KeysUpTo(35)
  <2>1. PICK i \in 1..35 : k \in TableStatement(i).keys
    BY <1>2 DEF KeysUpTo
  <2>2. /\ k.from = Name(i) /\ Place(k.to) \in 1..i /\ Name(Place(k.to)) = k.to
        /\ k.to \in Unscoped \/ k.own
    BY <2>1, Stacked DEF Stacks
  <2>3. Place(k.from) = i
    BY <2>2, NamesDiffer
  <2>. QED BY <2>2, <2>3
<1>. QED BY <1>1, <1>2 DEF AllKeys

LEMMA KeysOfStack ==
    ASSUME NEW n \in 0..35, NEW k \in KeysUpTo(n)
    PROVE  k \in AllKeys /\ k.from \in Stack(n) /\ k.to \in Stack(n)
<1>1. PICK i \in 1..n : k \in TableStatement(i).keys
  BY DEF KeysUpTo
<1>2. k \in AllKeys /\ k.from = Name(i) /\ Place(k.to) \in 1..i /\ Name(Place(k.to)) = k.to
  <2>1. i \in 1..35 /\ Stacks(TableStatement(i), i)
    BY Stacked
  <2>2. k.from = Name(i) /\ Place(k.to) \in 1..i /\ Name(Place(k.to)) = k.to
    BY <1>1, <2>1 DEF Stacks
  <2>3. k \in AllKeys
    BY <1>1, <2>1 DEF AllKeys, KeysUpTo
  <2>. QED BY <2>2, <2>3
<1>. QED BY <1>2, NamesDiffer, OnStack

\* The later references of posts are new.
LEMMA KeysAreNew == PostKeys.keys \cap KeysUpTo(31) = {}
<1>1. \A k \in PostKeys.keys : k.from = "posts" /\ k.col \notin {"tenant", "image"}
  BY DEF PostKeys, Keys, To, Own
<1>2. ASSUME NEW k \in KeysUpTo(31), k.from = "posts"
      PROVE  k.col \in {"tenant", "image"}
  <2>1. PICK i \in 1..31 : k \in TableStatement(i).keys
    BY DEF KeysUpTo
  <2>2. k.from = Name(i) /\ Plainly(k.col, i)
    BY <2>1, Stacked DEF Stacks
  <2>3. i = 24
    BY <1>2, <2>2, NamesDiffer, Named
  <2>. QED BY <2>2, <2>3 DEF Plainly
<1>. QED BY <1>1, <1>2

LEMMA NamesOfCreated == Names(Created) = Stack(31)
<1>1. DOMAIN Created = 1..31
  BY CreatedPile DEF Pile
<1>2. \A i \in 1..31 : Created[i].tables = {Name(i)}
  BY Stacked DEF TableStatement, Stacks
<1>. QED BY <1>1, <1>2 DEF Names, Stack

LEMMA NamesOfBuilds == Names(BuildTables) = Stack(35) \ Stack(31)
<1>1. DOMAIN BuildTables = 1..4
  BY BuildPile DEF Pile
<1>2. \A i \in 1..4 : BuildTables[i].tables = {Name(31 + i)}
  BY BuildTablesStack DEF Stacks
<1>3. Names(BuildTables) = {Name(31 + i) : i \in 1..4}
  BY <1>1, <1>2 DEF Names
<1>4. \A i \in 1..4 : Name(31 + i) \in Stack(35) /\ Name(31 + i) \notin Stack(31)
  <2>1. \A i \in 1..4 : 31 + i \in 1..35 /\ 31 + i \notin 1..31
    OBVIOUS
  <2>. QED BY <2>1, NamesDiffer DEF Stack
<1>5. ASSUME NEW t \in Stack(35), t \notin Stack(31)
      PROVE  \E i \in 1..4 : t = Name(31 + i)
  <2>1. Place(t) \in 1..35 /\ Name(Place(t)) = t /\ Place(t) \notin 1..31
    BY <1>5, OnStack
  <2>2. Place(t) - 31 \in 1..4 /\ 31 + (Place(t) - 31) = Place(t)
    BY <2>1
  <2>. QED BY <2>1, <2>2
<1>. QED BY <1>3, <1>4, <1>5

\* The list of tenants' tables in the initial migration leaves none out.
LEMMA ScopedNames == TenantTables = Stack(31) \ Unscoped
<1>1. \A t \in TenantTables : Place(t) \in 1..31 /\ Name(Place(t)) = t
  BY Named DEF TenantTables
<1>2. TenantTables \cap Unscoped = {}
  BY DEF TenantTables, Unscoped
<1>3. ASSUME NEW i \in 1..31, Name(i) \notin Unscoped PROVE Name(i) \in TenantTables
  <2>1. CASE i \in 1..8
    BY <1>3, <2>1, Named DEF TenantTables, Unscoped
  <2>2. CASE i \in 9..16
    BY <1>3, <2>2, Named DEF TenantTables, Unscoped
  <2>3. CASE i \in 17..24
    BY <1>3, <2>3, Named DEF TenantTables, Unscoped
  <2>4. CASE i \in 25..31
    BY <1>3, <2>4, Named DEF TenantTables, Unscoped
  <2>. QED BY <2>1, <2>2, <2>3, <2>4
<1>4. \A t \in TenantTables : t \in Stack(31)
  BY <1>1, OnStack
<1>. QED BY <1>2, <1>3, <1>4 DEF Stack

LEMMA InitialIs ==
    /\ Len(Initial) = 33 /\ DOMAIN Initial = 1..33
    /\ \A i \in 1..31 : Initial[i] = TableStatement(i)
    /\ Initial[32] = On("PROTECT", Stack(31) \ Unscoped)
    /\ Initial[33] = On("GRANT", Stack(31))
<1>0. TenantTables = Stack(31) \ Unscoped
  BY ScopedNames
<1> DEFINE p == On("PROTECT", Stack(31) \ Unscoped)
           g == On("GRANT", Stack(31))
           q == <<p, g>>
<1>1. Initial = Created \o q
  BY <1>0, NamesOfCreated DEF Initial
<1> HIDE DEF p, g
<1>2. q \in Seq({p, g}) /\ Len(q) = 2 /\ q[1] = p /\ q[2] = g
  OBVIOUS
<1> HIDE DEF q
<1>3. Joint(Initial, Created, q, Len(Created), Len(q)) /\ \E U : Initial \in Seq(U)
  BY <1>1, <1>2, CreatedPile, Joined, Zenon DEF Pile
<1>4. Len(Created) = 31
  BY CreatedPile DEF Pile
<1>5. Joint(Initial, Created, q, 31, 2)
  BY <1>2, <1>3, <1>4
<1>6. Len(Initial) = 33 /\ \A i \in 1..31 : Initial[i] = TableStatement(i)
  BY <1>5 DEF Joint, TableStatement
<1>8. DOMAIN Initial = 1..33
  <2>1. PICK U : Initial \in Seq(U)
    BY <1>3
  <2>. QED BY <1>6, <2>1
<1>7. Initial[32] = p /\ Initial[33] = g
  BY <1>2, <1>5 DEF Joint
<1>. QED BY <1>6, <1>7, <1>8 DEF p, g

LEMMA BuildsIs ==
    /\ Len(Builds) = 10 /\ DOMAIN Builds = 1..10
    /\ Builds[1] = On("RELAX", {"posts"}) /\ Builds[2] = On("BACKFILL", {"posts"})
    /\ Builds[3] = On("FORCE", {"posts"}) /\ Builds[4] = PostKeys
    /\ \A i \in 5..8 : Builds[i] = TableStatement(27 + i)
    /\ Builds[9] = On("PROTECT", Stack(35) \ Stack(31))
    /\ Builds[10] = On("GRANT", Stack(35) \ Stack(31))
<1> DEFINE p == On("PROTECT", Stack(35) \ Stack(31))
           g == On("GRANT", Stack(35) \ Stack(31))
           q == <<p, g>>
           r == On("RELAX", {"posts"})
           b == On("BACKFILL", {"posts"})
           f == On("FORCE", {"posts"})
           o == <<r, b, f, PostKeys>>
           ob == o \o BuildTables
<1>1. Builds = ob \o q
  BY NamesOfBuilds DEF Builds
<1> HIDE DEF p, g, r, b, f
<1>2. q \in Seq({p, g}) /\ Len(q) = 2 /\ q[1] = p /\ q[2] = g
  OBVIOUS
<1>3. /\ o \in Seq({r, b, f, PostKeys}) /\ Len(o) = 4
      /\ o[1] = r /\ o[2] = b /\ o[3] = f /\ o[4] = PostKeys
  OBVIOUS
<1> HIDE DEF q, o
<1>4. Joint(ob, o, BuildTables, Len(o), Len(BuildTables)) /\ \E U : ob \in Seq(U)
  BY <1>3, BuildPile, Joined, Zenon DEF Pile
<1>5. Len(BuildTables) = 4
  BY BuildPile DEF Pile
<1> HIDE DEF ob
<1>6. Joint(ob, o, BuildTables, 4, 4) /\ \E U : ob \in Seq(U)
  BY <1>3, <1>4, <1>5
<1>7. Len(ob) = 8
  BY <1>6 DEF Joint
<1>8. Joint(Builds, ob, q, Len(ob), Len(q)) /\ \E U : Builds \in Seq(U)
  BY <1>1, <1>2, <1>6, Joined, Zenon
<1>9. Joint(Builds, ob, q, 8, 2)
  BY <1>2, <1>7, <1>8
<1>10. Len(Builds) = 10 /\ Builds[9] = p /\ Builds[10] = g /\ \A i \in 1..8 : Builds[i] = ob[i]
  BY <1>2, <1>9 DEF Joint
<1>14. DOMAIN Builds = 1..10
  <2>1. PICK U : Builds \in Seq(U)
    BY <1>8
  <2>. QED BY <1>10, <2>1
<1>11. ob[1] = r /\ ob[2] = b /\ ob[3] = f /\ ob[4] = PostKeys
  BY <1>3, <1>6 DEF Joint
<1>12. \A i \in 5..8 : ob[i] = BuildTables[i - 4]
  BY <1>6 DEF Joint
<1>13. \A i \in 5..8 : TableStatement(27 + i) = BuildTables[i - 4]
  <2>1. \A i \in 5..8 : ~(27 + i <= 31) /\ (27 + i) - 31 = i - 4
    OBVIOUS
  <2>. QED BY <2>1 DEF TableStatement
<1>. QED BY <1>10, <1>11, <1>12, <1>13, <1>14 DEF p, g, r, b, f

LEMMA UndoneIs ==
    /\ Len(InitialUndone) = 31
    /\ \A i \in 1..31 : InitialUndone[i] = On("DROP", {Name(32 - i)})
    /\ Len(BuildsUndone) = 5
    /\ \A i \in 1..4 : BuildsUndone[i] = On("DROP", {Name(36 - i)})
    /\ BuildsUndone[5] = [PostKeys EXCEPT !.op = "UNREFER"]
    /\ Len(Markers) = 1 /\ DOMAIN Markers = 1..1
    /\ Markers[1] = On("ALTER", {"honor_categories", "staff_members"})
<1>1. Len(Created) = 31
  BY CreatedPile DEF Pile
<1>2. \A i \in 1..31 : 32 - i \in 1..31 /\ 31 + 1 - i = 32 - i
  OBVIOUS
<1>3. \A i \in 1..31 : Created[i].tables = {Name(i)}
  BY Stacked DEF Stacks, TableStatement
<1>4. InitialUndone = [i \in 1..31 |-> On("DROP", Created[32 - i].tables)]
  BY <1>1, <1>2 DEF InitialUndone
<1>5. Len(InitialUndone) = 31 /\ \A i \in 1..31 : InitialUndone[i] = On("DROP", {Name(32 - i)})
  <2>1. \A i \in 1..31 : InitialUndone[i] = On("DROP", {Name(32 - i)})
    BY <1>2, <1>3, <1>4
  <2>2. PICK u : InitialUndone = u /\ u = [i \in 1..31 |-> On("DROP", Created[32 - i].tables)]
    BY <1>4, Zenon
  <2>3. Len(InitialUndone) = 31
    <3>1. Len(u) = 31
      BY <2>2
    <3>. QED BY <2>2, <3>1, Zenon
  <2>. QED BY <2>1, <2>3
<1>6. Len(BuildsUndone) = 5 /\ BuildsUndone[5] = [PostKeys EXCEPT !.op = "UNREFER"]
  BY DEF BuildsUndone
<1>7. \A i \in 1..4 : BuildsUndone[i] = On("DROP", {Name(36 - i)})
  <2>1. /\ BuildsUndone[1] = On("DROP", {Name(36 - 1)})
        /\ BuildsUndone[2] = On("DROP", {Name(36 - 2)})
        /\ BuildsUndone[3] = On("DROP", {Name(36 - 3)})
        /\ BuildsUndone[4] = On("DROP", {Name(36 - 4)})
    BY Named DEF BuildsUndone
  <2>. QED BY <2>1
<1>8. /\ Len(Markers) = 1 /\ DOMAIN Markers = 1..1
      /\ Markers[1] = On("ALTER", {"honor_categories", "staff_members"})
  BY DEF Markers
<1>. QED BY <1>5, <1>6, <1>7, <1>8

LEMMA Directions ==
    /\ Up[1] = Initial /\ Up[2] = Builds /\ Up[3] = Markers
    /\ Down[1] = InitialUndone /\ Down[2] = BuildsUndone /\ Down[3] = Markers
BY DEF Up, Down

-----------------------------------------------------------------------------
(* What each statement leads to.                                           *)

(* A schema with the first n tables and the references to posts' new keys  *)
(* (refs), the policies of the first p tables without force on some (bare) *)
(* and the grants of the first g.                                          *)
Formed(n, refs, p, bare, g, f) ==
    [tables |-> Stack(n), keys |-> KeysUpTo(n) \cup refs, policy |-> Stack(p) \ Unscoped,
     forced |-> (Stack(p) \ Unscoped) \ bare, granted |-> Stack(g), filled |-> f]

Settled(l, f) ==
    IF l = 0 THEN Formed(0, {}, 0, {}, 0, f)
    ELSE IF l = 1 THEN Formed(31, {}, 31, {}, 31, f)
    ELSE Formed(35, PostKeys.keys, 35, {}, 35, f)

(* The schema in the middle of a command: up or down, at level r, after d  *)
(* statements of the next migration.                                       *)
Shaped(way, r, d, w) ==
    \/ /\ way = "up" /\ r = 0
       /\ \/ d \in 0..31 /\ w = Formed(d, {}, 0, {}, 0, w.filled)
          \/ d = 32 /\ w = Formed(31, {}, 31, {}, 0, w.filled)
          \/ d = 33 /\ w = Settled(1, w.filled)
    \/ /\ way = "up" /\ r = 1
       /\ \/ d \in {0, 3} /\ w = Settled(1, w.filled)
          \/ d \in {1, 2} /\ w = Formed(31, {}, 31, {"posts"}, 31, w.filled)
          \/ d \in 4..8 /\ w = Formed(27 + d, PostKeys.keys, 31, {}, 31, w.filled)
          \/ d = 9 /\ w = Formed(35, PostKeys.keys, 35, {}, 31, w.filled)
          \/ d = 10 /\ w = Settled(2, w.filled)
    \/ way = "up" /\ r = 2 /\ d \in {0, 1} /\ w = Settled(2, w.filled)
    \/ way = "down" /\ r = 3 /\ d \in {0, 1} /\ w = Settled(3, w.filled)
    \/ /\ way = "down" /\ r = 2
       /\ \/ d \in 0..4 /\ w = Formed(35 - d, PostKeys.keys, 35 - d, {}, 35 - d, w.filled)
          \/ d = 5 /\ w = Settled(1, w.filled)
    \/ way = "down" /\ r = 1 /\ d \in 0..31 /\ w = Formed(31 - d, {}, 31 - d, {}, 31 - d, w.filled)

\* What a statement does to the filled posts.
Fills(way, r, d, w, v) ==
    v.filled = IF way = "up" /\ r = 1 /\ d = 1 THEN Posts
               ELSE IF way = "down" /\ r = 2 /\ d = 4 THEN {}
               ELSE w.filled

\* A statement can be executed, and leads to the next schema.
LeadsOn(way, r, d, w, s) ==
    Can(s, w) /\ Shaped(way, r, d + 1, Done(s, w)) /\ Fills(way, r, d, w, Done(s, w))

\* The next table comes on the stack.
LEMMA Push ==
    ASSUME NEW n \in 1..35, NEW refs, NEW p, NEW bare, NEW g, NEW f
    PROVE  LET w == Formed(n - 1, refs, p, bare, g, f)
               s == TableStatement(n)
           IN  Can(s, w) /\ Done(s, w) = Formed(n, refs, p, bare, g, f)
<1> DEFINE w == Formed(n - 1, refs, p, bare, g, f)
           s == TableStatement(n)
<1>1. /\ s.op = "CREATE" /\ s.tables = {Name(n)}
      /\ \A k \in s.keys : Place(k.to) \in 1..n /\ Name(Place(k.to)) = k.to
  BY Stacked DEF Stacks
<1>2. /\ Stack(n) = Stack(n - 1) \cup {Name(n)} /\ Name(n) \notin Stack(n - 1)
      /\ KeysUpTo(n) = KeysUpTo(n - 1) \cup s.keys
  BY StackGrows
<1>3. \A k \in s.keys : k.to \in Stack(n)
  BY <1>1, OnStack
<1>4. w.tables = Stack(n - 1) /\ w.keys = KeysUpTo(n - 1) \cup refs
  BY DEF Formed
<1> HIDE DEF s
<1>5. Can(s, w)
  BY <1>1, <1>2, <1>3, <1>4 DEF Can
<1>6. Done(s, w) = [w EXCEPT !.tables = Stack(n), !.keys = KeysUpTo(n) \cup refs]
  <2>1. Done(s, w) = [w EXCEPT !.tables = @ \cup s.tables, !.keys = @ \cup s.keys]
    BY <1>1 DEF Done
  <2>2. w.tables \cup s.tables = Stack(n) /\ w.keys \cup s.keys = KeysUpTo(n) \cup refs
    BY <1>1, <1>2, <1>4
  <2>. QED BY <2>1, <2>2, Zenon
<1>7. Done(s, w) = Formed(n, refs, p, bare, g, f)
  BY <1>6 DEF Formed
<1>. QED BY <1>5, <1>7 DEF s

\* The table on top of the stack goes.
LEMMA Pop ==
    ASSUME NEW n \in 1..35, NEW refs, NEW f,
           \A k \in refs : k.from # Name(n) /\ k.to # Name(n)
    PROVE  LET w == Formed(n, refs, n, {}, n, f)
               s == On("DROP", {Name(n)})
           IN  Can(s, w) /\ Done(s, w) = Formed(n - 1, refs, n - 1, {}, n - 1, f)
<1> DEFINE w == Formed(n, refs, n, {}, n, f)
           s == On("DROP", {Name(n)})
           below == KeysUpTo(n - 1)
           top   == TableStatement(n).keys
<1>1. /\ Stack(n) = Stack(n - 1) \cup {Name(n)} /\ Name(n) \notin Stack(n - 1)
      /\ KeysUpTo(n) = below \cup top
  BY StackGrows
<1>2. \A k \in top : k.from = Name(n)
  BY Stacked DEF Stacks
<1>3. \A k \in below : k.from # Name(n) /\ k.to # Name(n)
  <2>1. \A k \in below : k.from \in Stack(n - 1) /\ k.to \in Stack(n - 1)
    BY KeysOfStack
  <2>. QED BY <1>1, <2>1
<1>4. /\ w.tables = Stack(n) /\ w.keys = KeysUpTo(n) \cup refs /\ w.policy = Stack(n) \ Unscoped
      /\ w.forced = (Stack(n) \ Unscoped) \ {} /\ w.granted = Stack(n) /\ w.filled = f
  BY DEF Formed
<1>5. s.op = "DROP" /\ s.tables = {Name(n)}
  BY DEF On
<1> HIDE DEF s, below, top
<1>6. Can(s, w)
  BY <1>1, <1>2, <1>3, <1>4, <1>5 DEF Can
<1>7. Done(s, w) =
          [w EXCEPT !.tables = @ \ s.tables, !.policy = @ \ s.tables,
                    !.forced = @ \ s.tables, !.granted = @ \ s.tables,
                    !.keys = {k \in @ : k.from \notin s.tables}]
  BY <1>5 DEF Done
<1>8. /\ w.tables \ s.tables = Stack(n - 1) /\ w.granted \ s.tables = Stack(n - 1)
      /\ w.policy \ s.tables = Stack(n - 1) \ Unscoped
      /\ w.forced \ s.tables = (Stack(n - 1) \ Unscoped) \ {}
      /\ {k \in w.keys : k.from \notin s.tables} = below \cup refs
  BY <1>1, <1>2, <1>3, <1>4, <1>5
<1>9. Done(s, w) = Formed(n - 1, refs, n - 1, {}, n - 1, f)
  BY <1>7, <1>8 DEF Formed, below
<1>. QED BY <1>6, <1>9 DEF s

LEMMA StackFacts ==
    /\ Stack(0) = {} /\ KeysUpTo(0) = {} /\ Stack(31) \subseteq Stack(35)
    /\ {"posts", "honor_categories", "staff_members"} \subseteq Stack(31)
    /\ "posts" \notin Unscoped
    /\ Unscoped \cap Stack(35) \subseteq Stack(31)
<1>1. Stack(0) = {} /\ KeysUpTo(0) = {} /\ Stack(31) \subseteq Stack(35)
  BY DEF Stack, KeysUpTo
<1>2. {"posts", "honor_categories", "staff_members"} \subseteq Stack(31)
  BY Named, OnStack
<1>3. "posts" \notin Unscoped
  BY DEF Unscoped
<1>4. \A t \in Unscoped : Place(t) \in 1..31
  BY Named DEF Unscoped
<1>5. Unscoped \cap Stack(35) \subseteq Stack(31)
  BY <1>4, OnStack
<1>. QED BY <1>1, <1>2, <1>3, <1>5

LEMMA InitialGoes ==
    ASSUME NEW d \in 0..32, NEW w, Shaped("up", 0, d, w)
    PROVE  LeadsOn("up", 0, d, w, Initial[d + 1])
<1> DEFINE s == Initial[d + 1]
           f == w.filled
<1>1. CASE d \in 0..30
  <2>1. w = Formed((d + 1) - 1, {}, 0, {}, 0, f) /\ s = TableStatement(d + 1)
    BY <1>1, InitialIs DEF Shaped
  <2>2. Can(s, w) /\ Done(s, w) = Formed(d + 1, {}, 0, {}, 0, f)
    BY <1>1, <2>1, Push
  <2>3. Done(s, w).filled = f
    BY <2>2 DEF Formed
  <2>. QED BY <1>1, <2>2, <2>3 DEF LeadsOn, Shaped, Fills
<1>2. CASE d = 31
  <2>1. w = Formed(31, {}, 0, {}, 0, f) /\ s = On("PROTECT", Stack(31) \ Unscoped)
    BY <1>2, InitialIs DEF Shaped
  <2>2. Can(s, w)
    BY <2>1 DEF Can, On, Formed
  <2>a. Done(s, w) = [w EXCEPT !.policy = @ \cup s.tables, !.forced = @ \cup s.tables]
    BY <2>1 DEF Done, On
  <2>b. /\ w.policy \cup s.tables = Stack(31) \ Unscoped
        /\ w.forced \cup s.tables = (Stack(31) \ Unscoped) \ {}
    BY <2>1, StackFacts DEF On, Formed
  <2>3. Done(s, w) = Formed(31, {}, 31, {}, 0, f)
    <3>1. Done(s, w) = [w EXCEPT !.policy = Stack(31) \ Unscoped,
                                 !.forced = (Stack(31) \ Unscoped) \ {}]
      BY <2>a, <2>b, Zenon
    <3> DEFINE v == Done(s, w)
    <3>2. v = [w EXCEPT !.policy = Stack(31) \ Unscoped,
                     !.forced = (Stack(31) \ Unscoped) \ {}]
      BY <3>1
    <3> HIDE DEF s, f, v
    <3>3. v = Formed(31, {}, 31, {}, 0, f)
      BY <2>1, <3>2 DEF Formed
    <3>. QED BY <3>3 DEF v
  <2>4. Done(s, w).filled = f
    BY <2>3 DEF Formed
  <2>5. Shaped("up", 0, d + 1, Done(s, w))
    <3> DEFINE v == Done(s, w)
    <3>1. v = Formed(31, {}, 31, {}, 0, v.filled) /\ d + 1 = 32
      BY <1>2, <2>3, <2>4
    <3> HIDE DEF v
    <3>2. Shaped("up", 0, d + 1, v)
      BY <3>1 DEF Shaped
    <3>. QED BY <3>2 DEF v
  <2>6. Fills("up", 0, d, w, Done(s, w))
    BY <2>4 DEF Fills
  <2>. QED BY <2>2, <2>5, <2>6, Zenon DEF LeadsOn
<1>3. CASE d = 32
  <2>1. w = Formed(31, {}, 31, {}, 0, f) /\ s = On("GRANT", Stack(31))
    BY <1>3, InitialIs DEF Shaped
  <2>2. Can(s, w)
    BY <2>1 DEF Can, On, Formed
  <2>3. Done(s, w) = Formed(31, {}, 31, {}, 31, f)
    BY <2>1, StackFacts DEF Done, On, Formed
  <2>4. Done(s, w).filled = f
    BY <2>3 DEF Formed
  <2>. QED BY <1>3, <2>2, <2>3, <2>4 DEF LeadsOn, Shaped, Fills, Settled
<1>4. d \in 0..30 \/ d = 31 \/ d = 32
  OBVIOUS
<1>. QED BY <1>1, <1>2, <1>3, <1>4, Zenon

LEMMA BuildsGoes ==
    ASSUME NEW d \in 0..9, NEW w, Shaped("up", 1, d, w)
    PROVE  LeadsOn("up", 1, d, w, Builds[d + 1])
<1> DEFINE s == Builds[d + 1]
           f == w.filled
           K == PostKeys.keys
<1>1. CASE d = 0
  <2>1. w = Formed(31, {}, 31, {}, 31, f) /\ s = On("RELAX", {"posts"})
    BY <1>1, BuildsIs DEF Shaped, Settled
  <2>2. Can(s, w)
    BY <2>1, StackFacts DEF Can, On, Formed
  <2>3. Done(s, w) = Formed(31, {}, 31, {"posts"}, 31, f)
    BY <2>1, StackFacts DEF Done, On, Formed
  <2>4. Done(s, w).filled = f
    BY <2>3 DEF Formed
  <2>. QED BY <1>1, <2>2, <2>3, <2>4 DEF LeadsOn, Shaped, Fills
<1>2. CASE d = 1
  <2>1. w = Formed(31, {}, 31, {"posts"}, 31, f) /\ s = On("BACKFILL", {"posts"})
    BY <1>2, BuildsIs DEF Shaped
  <2>2. Can(s, w)
    BY <2>1, StackFacts DEF Can, On, Formed
  <2>3. Done(s, w) = Formed(31, {}, 31, {"posts"}, 31, Posts)
    BY <2>1, StackFacts DEF Done, On, Formed
  <2>4. Done(s, w).filled = Posts
    BY <2>3 DEF Formed
  <2>. QED BY <1>2, <2>2, <2>3, <2>4 DEF LeadsOn, Shaped, Fills
<1>3. CASE d = 2
  <2>1. w = Formed(31, {}, 31, {"posts"}, 31, f) /\ s = On("FORCE", {"posts"})
    BY <1>3, BuildsIs DEF Shaped
  <2>2. Can(s, w)
    BY <2>1, StackFacts DEF Can, On, Formed
  <2>3. Done(s, w) = Formed(31, {}, 31, {}, 31, f)
    BY <2>1, StackFacts DEF Done, On, Formed
  <2>4. Done(s, w).filled = f
    BY <2>3 DEF Formed
  <2>. QED BY <1>3, <2>2, <2>3, <2>4 DEF LeadsOn, Shaped, Fills, Settled
<1>4. CASE d = 3
  <2>1. w = Formed(31, {}, 31, {}, 31, f) /\ s = PostKeys
    BY <1>4, BuildsIs DEF Shaped, Settled
  <2>2. s.op = "REFER" /\ s.tables = {"posts"} /\ s.keys = K
    BY <2>1 DEF PostKeys
  <2>3. \A k \in K : k.to \in Stack(31)
    <3>1. \A k \in K : k.to \in {"users", "media_assets"}
      BY DEF PostKeys, Keys, To, Own
    <3>. QED BY <3>1, Named, OnStack
  <2>4. w.tables = Stack(31) /\ w.keys = KeysUpTo(31) \cup {}
    BY <2>1 DEF Formed
  <2>5. Can(s, w)
    BY <2>2, <2>3, <2>4, StackFacts, KeysAreNew DEF Can
  <2>6. Done(s, w) = [w EXCEPT !.keys = @ \cup K]
    BY <2>2 DEF Done
  <2>7. Done(s, w) = Formed(31, K, 31, {}, 31, f)
    BY <2>1, <2>6 DEF Formed
  <2>8. Done(s, w).filled = f
    BY <2>7 DEF Formed
  <2>. QED BY <1>4, <2>5, <2>7, <2>8 DEF LeadsOn, Shaped, Fills
<1>5. CASE d \in 4..7
  <2> DEFINE n == 28 + d
  <2>1. n \in 1..35 /\ n - 1 = 27 + d /\ 27 + (d + 1) = n /\ d + 1 \in 5..8
    BY <1>5
  <2>2. w = Formed(27 + d, K, 31, {}, 31, f)
    BY <1>5 DEF Shaped
  <2>3. s = TableStatement(27 + (d + 1))
    BY <2>1, BuildsIs
  <2> HIDE DEF n
  <2>4. w = Formed(n - 1, K, 31, {}, 31, f) /\ s = TableStatement(n)
    BY <2>1, <2>2, <2>3
  <2>5. Can(s, w) /\ Done(s, w) = Formed(n, K, 31, {}, 31, f)
    BY <2>1, <2>4, Push
  <2>6. Done(s, w).filled = f
    BY <2>5 DEF Formed
  <2>. QED BY <2>1, <2>5, <2>6 DEF LeadsOn, Shaped, Fills, n
<1>6. CASE d = 8
  <2>1. w = Formed(35, K, 31, {}, 31, f) /\ s = On("PROTECT", Stack(35) \ Stack(31))
    BY <1>6, BuildsIs DEF Shaped
  <2>2. Can(s, w)
    BY <2>1 DEF Can, On, Formed
  <2>3. (Stack(31) \ Unscoped) \cup (Stack(35) \ Stack(31)) = Stack(35) \ Unscoped
    BY StackFacts
  <2>a. Done(s, w) = [w EXCEPT !.policy = @ \cup s.tables, !.forced = @ \cup s.tables]
    BY <2>1 DEF Done, On
  <2>b. /\ w.policy \cup s.tables = Stack(35) \ Unscoped
        /\ w.forced \cup s.tables = (Stack(35) \ Unscoped) \ {}
    BY <2>1, <2>3 DEF On, Formed
  <2>4. Done(s, w) = Formed(35, K, 35, {}, 31, f)
    <3>1. Done(s, w) = [w EXCEPT !.policy = Stack(35) \ Unscoped,
                                 !.forced = (Stack(35) \ Unscoped) \ {}]
      BY <2>a, <2>b, Zenon
    <3> DEFINE v == Done(s, w)
    <3>2. v = [w EXCEPT !.policy = Stack(35) \ Unscoped,
                     !.forced = (Stack(35) \ Unscoped) \ {}]
      BY <3>1
    <3> HIDE DEF s, f, v
    <3>3. v = Formed(35, K, 35, {}, 31, f)
      BY <2>1, <3>2 DEF Formed
    <3>. QED BY <3>3 DEF v
  <2>5. Done(s, w).filled = f
    BY <2>4 DEF Formed
  <2>. QED BY <1>6, <2>2, <2>4, <2>5 DEF LeadsOn, Shaped, Fills
<1>7. CASE d = 9
  <2>1. w = Formed(35, K, 35, {}, 31, f) /\ s = On("GRANT", Stack(35) \ Stack(31))
    BY <1>7, BuildsIs DEF Shaped
  <2>2. Can(s, w)
    BY <2>1 DEF Can, On, Formed
  <2>a. Done(s, w) = [w EXCEPT !.granted = @ \cup s.tables]
    BY <2>1 DEF Done, On
  <2>b. w.granted \cup s.tables = Stack(35)
    BY <2>1, StackFacts DEF On, Formed
  <2>3. Done(s, w) = Formed(35, K, 35, {}, 35, f)
    <3>1. Done(s, w) = [w EXCEPT !.granted = Stack(35)]
      BY <2>a, <2>b, Zenon
    <3> DEFINE v == Done(s, w)
    <3>2. v = [w EXCEPT !.granted = Stack(35)]
      BY <3>1
    <3> HIDE DEF s, f, v
    <3>3. v = Formed(35, K, 35, {}, 35, f)
      BY <2>1, <3>2 DEF Formed
    <3>. QED BY <3>3 DEF v
  <2>4. Done(s, w).filled = f /\ Settled(2, f) = Formed(35, K, 35, {}, 35, f)
    BY <2>3 DEF Formed, Settled
  <2>5. Shaped("up", 1, d + 1, Done(s, w))
    <3> DEFINE v == Done(s, w)
    <3>1. v = Settled(2, v.filled) /\ d + 1 = 10
      BY <1>7, <2>3, <2>4
    <3> HIDE DEF v
    <3>2. Shaped("up", 1, d + 1, v)
      BY <3>1 DEF Shaped
    <3>. QED BY <3>2 DEF v
  <2>6. Fills("up", 1, d, w, Done(s, w))
    BY <1>7, <2>4 DEF Fills
  <2>. QED BY <2>2, <2>5, <2>6, Zenon DEF LeadsOn
<1>8. d \in 4..7 \/ d = 0 \/ d = 1 \/ d = 2 \/ d = 3 \/ d = 8 \/ d = 9
  OBVIOUS
<1>. QED BY <1>1, <1>2, <1>3, <1>4, <1>5, <1>6, <1>7, <1>8, Zenon

LEMMA MarkersGo ==
    ASSUME NEW way \in {"up", "down"}, NEW r, r = IF way = "up" THEN 2 ELSE 3,
           NEW w, Shaped(way, r, 0, w)
    PROVE  LeadsOn(way, r, 0, w, Markers[0 + 1])
<1> DEFINE s == On("ALTER", {"honor_categories", "staff_members"})
<1>1. Markers[0 + 1] = s
  BY UndoneIs
<1>2. w = Formed(35, PostKeys.keys, 35, {}, 35, w.filled) /\ w = Settled(r, w.filled)
  BY DEF Shaped, Settled
<1>3. Can(s, w)
  BY <1>2, StackFacts DEF Can, On, Formed
<1>4. Done(s, w) = w
  BY DEF Done, On
<1>. QED BY <1>1, <1>2, <1>3, <1>4 DEF LeadsOn, Shaped, Fills

LEMMA BuildsUndoneGoes ==
    ASSUME NEW d \in 0..4, NEW w, Shaped("down", 2, d, w)
    PROVE  LeadsOn("down", 2, d, w, BuildsUndone[d + 1])
<1> DEFINE s == BuildsUndone[d + 1]
           f == w.filled
           K == PostKeys.keys
<1>1. \A k \in K : k.from = "posts" /\ k.to \in {"users", "media_assets"}
  BY DEF PostKeys, Keys, To, Own
<1>2. CASE d \in 0..3
  <2> DEFINE n == 35 - d
  <2>1. n \in 32..35 /\ n - 1 = 35 - (d + 1) /\ d + 1 \in 1..4 /\ 36 - (d + 1) = n
    BY <1>2
  <2>2. w = Formed(n, K, n, {}, n, f)
    BY <1>2 DEF Shaped
  <2>3. s = On("DROP", {Name(n)})
    <3>1. s = On("DROP", {Name(36 - (d + 1))})
      BY <2>1, UndoneIs
    <3>. QED BY <2>1, <3>1
  <2> HIDE DEF n
  <2> HIDE DEF s, K
  <2>4. \A k \in K : k.from # Name(n) /\ k.to # Name(n)
    BY <1>1, <2>1, NamesDiffer, Named
  <2>5. Can(s, w) /\ Done(s, w) = Formed(n - 1, K, n - 1, {}, n - 1, f)
    <3>1. n \in 1..35
      BY <2>1
    <3>2. LET v == Formed(n, K, n, {}, n, f)
              t == On("DROP", {Name(n)})
          IN  Can(t, v) /\ Done(t, v) = Formed(n - 1, K, n - 1, {}, n - 1, f)
      BY <3>1, <2>4, Pop, Zenon
    <3>. QED BY <2>2, <2>3, <3>2
  <2>6. Done(s, w).filled = f
    BY <2>5 DEF Formed
  <2>. QED BY <2>1, <2>5, <2>6 DEF LeadsOn, Shaped, Fills, s, K
<1>3. CASE d = 4
  <2>1. w = Formed(31, K, 31, {}, 31, f) /\ s = [PostKeys EXCEPT !.op = "UNREFER"]
    BY <1>3, UndoneIs DEF Shaped
  <2>2. s.op = "UNREFER" /\ s.keys = K
    BY <2>1 DEF PostKeys
  <2>3. w.keys = KeysUpTo(31) \cup K
    BY <2>1 DEF Formed
  <2>4. Can(s, w)
    BY <2>2, <2>3 DEF Can
  <2>5. Done(s, w) = [w EXCEPT !.keys = @ \ K, !.filled = {}]
    BY <2>2 DEF Done
  <2>6. w.keys \ K = KeysUpTo(31) \cup {}
    BY <2>3, KeysAreNew
  <2> HIDE DEF s, K
  <2>7. Done(s, w) = Formed(31, {}, 31, {}, 31, {})
    <3>1. Done(s, w) = [w EXCEPT !.keys = KeysUpTo(31) \cup {}, !.filled = {}]
      BY <2>5, <2>6, Zenon
    <3> DEFINE v == Done(s, w)
    <3>2. v = [w EXCEPT !.keys = KeysUpTo(31) \cup {}, !.filled = {}]
      BY <3>1
    <3> HIDE DEF s, f, v
    <3>3. v = Formed(31, {}, 31, {}, 31, {})
      BY <2>1, <3>2 DEF Formed
    <3>. QED BY <3>3 DEF v
  <2>8. Done(s, w).filled = {} /\ Settled(1, {}) = Formed(31, {}, 31, {}, 31, {})
    BY <2>7 DEF Formed, Settled
  <2>9. Shaped("down", 2, d + 1, Done(s, w))
    <3> DEFINE v == Done(s, w)
    <3>1. v = Settled(1, v.filled) /\ d + 1 = 5
      BY <1>3, <2>7, <2>8
    <3> HIDE DEF v
    <3>2. Shaped("down", 2, d + 1, v)
      BY <3>1 DEF Shaped
    <3>. QED BY <3>2 DEF v
  <2>10. Fills("down", 2, d, w, Done(s, w))
    BY <1>3, <2>8 DEF Fills
  <2>. QED BY <2>4, <2>9, <2>10, Zenon DEF LeadsOn, s
<1>4. d \in 0..3 \/ d = 4
  OBVIOUS
<1>. QED BY <1>2, <1>3, <1>4, Zenon

LEMMA InitialUndoneGoes ==
    ASSUME NEW d \in 0..30, NEW w, Shaped("down", 1, d, w)
    PROVE  LeadsOn("down", 1, d, w, InitialUndone[d + 1])
<1> DEFINE s == InitialUndone[d + 1]
           f == w.filled
           n == 31 - d
<1>1. n \in 1..35 /\ n - 1 = 31 - (d + 1) /\ d + 1 \in 1..31 /\ 32 - (d + 1) = n
  OBVIOUS
<1>2. w = Formed(n, {}, n, {}, n, f)
  BY DEF Shaped
<1>3. s = On("DROP", {Name(n)})
  <2>1. s = On("DROP", {Name(32 - (d + 1))})
    BY <1>1, UndoneIs
  <2>. QED BY <1>1, <2>1
<1> HIDE DEF n, s
<1>4. Can(s, w) /\ Done(s, w) = Formed(n - 1, {}, n - 1, {}, n - 1, f)
  <2>1. LET v == Formed(n, {}, n, {}, n, f)
            t == On("DROP", {Name(n)})
        IN  Can(t, v) /\ Done(t, v) = Formed(n - 1, {}, n - 1, {}, n - 1, f)
    BY <1>1, Pop
  <2>. QED BY <1>2, <1>3, <2>1
<1>5. Done(s, w).filled = f
  BY <1>4 DEF Formed
<1>. QED BY <1>1, <1>4, <1>5 DEF LeadsOn, Shaped, Fills, s

-----------------------------------------------------------------------------
(* The inductive invariant.                                                *)

Way == IF target > level THEN "up" ELSE "down"

\* The number of statements of a migration.
Steps(way, r) ==
    IF way = "up" THEN IF r = 0 THEN 33 ELSE IF r = 1 THEN 10 ELSE 1
    ELSE IF r = 1 THEN 31 ELSE IF r = 2 THEN 5 ELSE 1

\* Where a command is, and what the schemas are there.
Course ==
    /\ level \in 0..3 /\ target \in 0..3 /\ reached \in 0..3 /\ done \in Nat
    /\ target > level => level <= reached /\ reached <= target
    /\ target < level => target = level - 1 /\ reached \in {level, target}
    /\ target = level => reached = level /\ work = db
    /\ db = Settled(level, db.filled)
    /\ reached = target => done = 0 /\ work = Settled(reached, work.filled)
    /\ reached # target => done < Steps(Way, reached) /\ Shaped(Way, reached, done, work)

\* Beyond the backfill all posts are filled.
Filled ==
    /\ db.filled \subseteq RowIds /\ work.filled \subseteq RowIds
    /\ level >= 2 => Posts \subseteq db.filled
    /\ reached >= 2 \/ (reached = 1 /\ target > level /\ done >= 2) => Posts \subseteq work.filled

(* A row refers along some key that the tables have at some level, and if  *)
(* that leads to a tenant's table, to a row of the same owner.             *)
Refers(i, j) ==
    /\ \E k \in AllKeys : k.from = stored[i].table /\ k.to = stored[j].table
    /\ stored[j].table \notin Unscoped => stored[j].owner = stored[i].owner

RowsSound ==
    /\ stored \in [RowIds -> Row]
    /\ \A i \in RowIds :
          /\ stored[i].table \in db.tables \cup {""}
          /\ stored[i].table = "" => stored[i] = NoRecord
          /\ stored[i].table \notin Unscoped \cup {""} => stored[i].owner = stored[i].by
          /\ stored[i].ref \in RowIds => Refers(i, stored[i].ref)

\* No schema without a role that the policies hold for.
RoleFits ==
    /\ role \in Roles
    /\ level > 0 \/ reached > 0 \/ done > 0 => role = "FIT"

SchemaInv == Course /\ Filled /\ RowsSound /\ RoleFits

\* The migration that is next, and its length.
Ahead(way, r, m, n) ==
    Way = way /\ reached = r /\ Migration = m /\ Len(Migration) = n /\ Steps(way, r) = n

LEMMA Lengths ==
    ASSUME level \in 0..3, target \in 0..3, reached \in 0..3,
           target > level => reached < target,
           target <= level => reached > target
    PROVE  \/ Ahead("up", 0, Initial, 33)
           \/ Ahead("up", 1, Builds, 10)
           \/ Ahead("up", 2, Markers, 1)
           \/ Ahead("down", 1, InitialUndone, 31)
           \/ Ahead("down", 2, BuildsUndone, 5)
           \/ Ahead("down", 3, Markers, 1)
<1>1. CASE target > level /\ reached = 0
  <2>1. Way = "up" /\ Migration = Up[1]
    BY <1>1 DEF Way, Migration
  <2>2. Migration = Initial
    BY <2>1, Directions, Zenon
  <2>3. Len(Migration) = 33
    BY <2>2, InitialIs, Zenon
  <2>. QED BY <1>1, <2>1, <2>2, <2>3 DEF Ahead, Steps
<1>2. CASE target > level /\ reached = 1
  <2>1. Way = "up" /\ Migration = Up[2]
    BY <1>2 DEF Way, Migration
  <2>2. Migration = Builds
    BY <2>1, Directions, Zenon
  <2>3. Len(Migration) = 10
    BY <2>2, BuildsIs, Zenon
  <2>. QED BY <1>2, <2>1, <2>2, <2>3 DEF Ahead, Steps
<1>3. CASE target > level /\ reached = 2
  <2>1. Way = "up" /\ Migration = Up[3]
    BY <1>3 DEF Way, Migration
  <2>2. Migration = Markers
    BY <2>1, Directions, Zenon
  <2>3. Len(Migration) = 1
    BY <2>2, UndoneIs, Zenon
  <2>. QED BY <1>3, <2>1, <2>2, <2>3 DEF Ahead, Steps
<1>4. CASE target <= level /\ reached = 1
  <2>1. Way = "down" /\ Migration = Down[1]
    BY <1>4 DEF Way, Migration
  <2>2. Migration = InitialUndone
    BY <2>1, Directions, Zenon
  <2>3. Len(Migration) = 31
    BY <2>2, UndoneIs, Zenon
  <2>. QED BY <1>4, <2>1, <2>2, <2>3 DEF Ahead, Steps
<1>5. CASE target <= level /\ reached = 2
  <2>1. Way = "down" /\ Migration = Down[2]
    BY <1>5 DEF Way, Migration
  <2>2. Migration = BuildsUndone
    BY <2>1, Directions, Zenon
  <2>3. Len(Migration) = 5
    BY <2>2, UndoneIs, Zenon
  <2>. QED BY <1>5, <2>1, <2>2, <2>3 DEF Ahead, Steps
<1>6. CASE target <= level /\ reached = 3
  <2>1. Way = "down" /\ Migration = Down[3]
    BY <1>6 DEF Way, Migration
  <2>2. Migration = Markers
    BY <2>1, Directions, Zenon
  <2>3. Len(Migration) = 1
    BY <2>2, UndoneIs, Zenon
  <2>. QED BY <1>6, <2>1, <2>2, <2>3 DEF Ahead, Steps
<1>7. \/ target > level /\ reached = 0
      \/ target > level /\ reached = 1
      \/ target > level /\ reached = 2
      \/ target <= level /\ reached = 1
      \/ target <= level /\ reached = 2
      \/ target <= level /\ reached = 3
  OBVIOUS
<1>. QED BY <1>1, <1>2, <1>3, <1>4, <1>5, <1>6, <1>7, Zenon

\* Every statement that is next can be executed, and leads on.
LEMMA StatementGoes ==
    ASSUME Course, reached # target
    PROVE  LeadsOn(Way, reached, done, work, Statement)
<1>1. /\ level \in 0..3 /\ target \in 0..3 /\ reached \in 0..3 /\ done \in Nat
      /\ done < Steps(Way, reached) /\ Shaped(Way, reached, done, work)
      /\ target > level => reached < target
      /\ target <= level => reached > target
  BY DEF Course
<1>2. Statement = Migration[done + 1]
  BY DEF Statement
<1>3. CASE Ahead("up", 0, Initial, 33)
  <2>1. Way = "up" /\ reached = 0 /\ Steps(Way, reached) = 33 /\ Migration = Initial
    BY <1>3 DEF Ahead, Steps
  <2>2. done \in 0..32
    BY <1>1, <2>1
  <2>3. Shaped("up", 0, done, work) /\ Statement = Initial[done + 1]
    BY <1>1, <1>2, <2>1, <2>2, Zenon
  <2>4. LeadsOn("up", 0, done, work, Statement)
    BY <2>2, <2>3, InitialGoes
  <2>. QED BY <2>1, <2>2, <2>4, Zenon
<1>4. CASE Ahead("up", 1, Builds, 10)
  <2>1. Way = "up" /\ reached = 1 /\ Steps(Way, reached) = 10 /\ Migration = Builds
    BY <1>4 DEF Ahead, Steps
  <2>2. done \in 0..9
    BY <1>1, <2>1
  <2>3. Shaped("up", 1, done, work) /\ Statement = Builds[done + 1]
    BY <1>1, <1>2, <2>1, <2>2, Zenon
  <2>4. LeadsOn("up", 1, done, work, Statement)
    BY <2>2, <2>3, BuildsGoes
  <2>. QED BY <2>1, <2>2, <2>4, Zenon
<1>5. CASE Ahead("up", 2, Markers, 1)
  <2>1. Way = "up" /\ reached = 2 /\ Steps(Way, reached) = 1 /\ Migration = Markers
    BY <1>5 DEF Ahead, Steps
  <2>2. done = 0
    BY <1>1, <2>1
  <2>3. Shaped("up", 2, 0, work) /\ Statement = Markers[0 + 1]
    BY <1>1, <1>2, <2>1, <2>2, Zenon
  <2>4. LeadsOn("up", 2, 0, work, Statement)
    BY <2>2, <2>3, MarkersGo
  <2>. QED BY <2>1, <2>2, <2>4, Zenon
<1>6. CASE Ahead("down", 1, InitialUndone, 31)
  <2>1. Way = "down" /\ reached = 1 /\ Steps(Way, reached) = 31 /\ Migration = InitialUndone
    BY <1>6 DEF Ahead, Steps
  <2>2. done \in 0..30
    BY <1>1, <2>1
  <2>3. Shaped("down", 1, done, work) /\ Statement = InitialUndone[done + 1]
    BY <1>1, <1>2, <2>1, <2>2, Zenon
  <2>4. LeadsOn("down", 1, done, work, Statement)
    BY <2>2, <2>3, InitialUndoneGoes
  <2>. QED BY <2>1, <2>2, <2>4, Zenon
<1>7. CASE Ahead("down", 2, BuildsUndone, 5)
  <2>1. Way = "down" /\ reached = 2 /\ Steps(Way, reached) = 5 /\ Migration = BuildsUndone
    BY <1>7 DEF Ahead, Steps
  <2>2. done \in 0..4
    BY <1>1, <2>1
  <2>3. Shaped("down", 2, done, work) /\ Statement = BuildsUndone[done + 1]
    BY <1>1, <1>2, <2>1, <2>2, Zenon
  <2>4. LeadsOn("down", 2, done, work, Statement)
    BY <2>2, <2>3, BuildsUndoneGoes
  <2>. QED BY <2>1, <2>2, <2>4, Zenon
<1>8. CASE Ahead("down", 3, Markers, 1)
  <2>1. Way = "down" /\ reached = 3 /\ Steps(Way, reached) = 1 /\ Migration = Markers
    BY <1>8 DEF Ahead, Steps
  <2>2. done = 0
    BY <1>1, <2>1
  <2>3. Shaped("down", 3, 0, work) /\ Statement = Markers[0 + 1]
    BY <1>1, <1>2, <2>1, <2>2, Zenon
  <2>4. LeadsOn("down", 3, 0, work, Statement)
    BY <2>2, <2>3, MarkersGo
  <2>. QED BY <2>1, <2>2, <2>4, Zenon
<1>. QED BY <1>1, <1>3, <1>4, <1>5, <1>6, <1>7, <1>8, Lengths, Zenon

LEMMA Starts ==
    ASSUME NEW r \in 0..3, NEW w, w = Settled(r, w.filled)
    PROVE  /\ r # 3 => Shaped("up", r, 0, w)
           /\ r # 0 => Shaped("down", r, 0, w)
<1>1. CASE r = 0
  BY <1>1 DEF Shaped, Settled
<1>2. CASE r = 1
  BY <1>2 DEF Shaped, Settled
<1>3. CASE r = 2
  <2>1. Settled(r, w.filled) = Formed(35, PostKeys.keys, 35, {}, 35, w.filled)
    BY <1>3 DEF Settled
  <2>2. Settled(2, w.filled) = Formed(35, PostKeys.keys, 35, {}, 35, w.filled) /\ 35 - 0 = 35
    BY DEF Settled
  <2>. QED BY <1>3, <2>1, <2>2 DEF Shaped
<1>4. CASE r = 3
  BY <1>4 DEF Shaped
<1>. QED BY <1>1, <1>2, <1>3, <1>4

LEMMA Arrives ==
    ASSUME NEW way \in {"up", "down"}, NEW r \in 0..3, NEW w,
           r # IF way = "up" THEN 3 ELSE 0,
           Shaped(way, r, Steps(way, r), w)
    PROVE  w = Settled(IF way = "up" THEN r + 1 ELSE r - 1, w.filled)
<1>1. CASE way = "up" /\ r = 0
  BY <1>1 DEF Shaped, Steps
<1>2. CASE way = "up" /\ r = 1
  BY <1>2 DEF Shaped, Steps
<1>3. CASE way = "up" /\ r = 2
  BY <1>3 DEF Shaped, Steps, Settled
<1>4. CASE way = "down" /\ r = 1
  BY <1>4 DEF Shaped, Steps, Settled
<1>5. CASE way = "down" /\ r = 2
  BY <1>5 DEF Shaped, Steps
<1>6. CASE way = "down" /\ r = 3
  BY <1>6 DEF Shaped, Steps, Settled
<1>. QED BY <1>1, <1>2, <1>3, <1>4, <1>5, <1>6

\* Policies, grants and keys are those of tables there are.
Sound(w) ==
    /\ w.policy \subseteq w.tables /\ w.forced \subseteq w.policy /\ w.granted \subseteq w.tables
    /\ \A k \in w.keys : {k.from, k.to} \subseteq w.tables
    /\ w.keys \subseteq AllKeys /\ \E n \in 0..35 : w.tables = Stack(n)

LEMMA AtSound ==
    ASSUME NEW n \in 0..35, NEW p \in 0..n, NEW g \in 0..n, NEW bare, NEW f, NEW refs,
           refs = {} \/ (refs = PostKeys.keys /\ n >= 31)
    PROVE  Sound(Formed(n, refs, p, bare, g, f))
<1> DEFINE w == Formed(n, refs, p, bare, g, f)
<1>1. w.tables = Stack(n) /\ w.keys = KeysUpTo(n) \cup refs
  BY DEF Formed
<1>2. w.policy \subseteq w.tables /\ w.forced \subseteq w.policy /\ w.granted \subseteq w.tables
  <2>1. Stack(p) \subseteq Stack(n) /\ Stack(g) \subseteq Stack(n)
    BY DEF Stack
  <2>. QED BY <2>1 DEF Formed
<1>3. ASSUME NEW k \in w.keys
      PROVE  {k.from, k.to} \subseteq w.tables /\ k \in AllKeys
  <2>1. CASE k \in KeysUpTo(n)
    BY <1>1, <2>1, KeysOfStack
  <2>2. CASE k \in refs
    <3>1. k \in PostKeys.keys /\ n >= 31
      BY <2>2
    <3>2. k.from = "posts" /\ k.to \in {"users", "media_assets"}
      BY <3>1 DEF PostKeys, Keys, To, Own
    <3>3. k.from \in Stack(n) /\ k.to \in Stack(n)
      BY <3>1, <3>2, Named, OnStack
    <3>. QED BY <1>1, <3>1, <3>3 DEF AllKeys
  <2>. QED BY <1>1, <1>3, <2>1, <2>2
<1>. QED BY <1>1, <1>2, <1>3 DEF Sound

LEMMA BareSound ==
    ASSUME NEW n \in 0..35, NEW p \in 0..n, NEW g \in 0..n, NEW bare, NEW f
    PROVE  Sound(Formed(n, {}, p, bare, g, f))
<1> DEFINE refs == {}
<1>1. refs = {}
  OBVIOUS
<1> HIDE DEF refs
<1>2. refs = {} \/ (refs = PostKeys.keys /\ n >= 31)
  BY <1>1
<1>3. Sound(Formed(n, refs, p, bare, g, f))
  BY <1>2, AtSound, Zenon
<1>. QED BY <1>1, <1>3, Zenon

LEMMA SettledSound ==
    ASSUME NEW l \in 0..3, NEW f
    PROVE  Sound(Settled(l, f))
<1>1. 0 \in 0..35 /\ 31 \in 0..35 /\ 35 \in 0..35 /\ 0 \in 0..0 /\ 31 \in 0..31 /\ 35 >= 31
  OBVIOUS
<1>2. /\ Sound(Formed(0, {}, 0, {}, 0, f)) /\ Sound(Formed(31, {}, 31, {}, 31, f))
      /\ Sound(Formed(35, PostKeys.keys, 35, {}, 35, f))
  BY <1>1, AtSound, BareSound, Zenon
<1>. QED BY <1>2 DEF Settled

LEMMA ShapedSound ==
    ASSUME NEW way, NEW r, NEW d \in Nat, NEW w, Shaped(way, r, d, w)
    PROVE  Sound(w)
<1> DEFINE f == w.filled
           K == PostKeys.keys
<1>1. CASE d \in 0..31 /\ w = Formed(d, {}, 0, {}, 0, f)
  <2>1. d \in 0..35 /\ 0 \in 0..d
    BY <1>1
  <2>2. Sound(Formed(d, {}, 0, {}, 0, f))
    BY <2>1, BareSound, Zenon
  <2>. QED BY <1>1, <2>2, Zenon
<1>2. CASE w = Formed(31, {}, 31, {}, 0, f)
  <2>1. 31 \in 0..35 /\ 31 \in 0..31 /\ 0 \in 0..31
    BY <1>2
  <2>2. Sound(Formed(31, {}, 31, {}, 0, f))
    BY <2>1, BareSound, Zenon
  <2>. QED BY <1>2, <2>2, Zenon
<1>3. CASE w = Formed(31, {}, 31, {"posts"}, 31, f)
  <2>1. 31 \in 0..35 /\ 31 \in 0..31
    BY <1>3
  <2>2. Sound(Formed(31, {}, 31, {"posts"}, 31, f))
    BY <2>1, BareSound, Zenon
  <2>. QED BY <1>3, <2>2, Zenon
<1>4. CASE d \in 4..8 /\ w = Formed(27 + d, K, 31, {}, 31, f)
  <2>1. 27 + d \in 0..35 /\ 31 \in 0..27 + d /\ 27 + d >= 31
    BY <1>4
  <2>2. Sound(Formed(27 + d, K, 31, {}, 31, f))
    BY <2>1, AtSound, Zenon
  <2>. QED BY <1>4, <2>2, Zenon
<1>5. CASE w = Formed(35, K, 35, {}, 31, f)
  <2>1. 35 \in 0..35 /\ 35 \in 0..35 /\ 31 \in 0..35 /\ 35 >= 31
    BY <1>5
  <2>2. Sound(Formed(35, K, 35, {}, 31, f))
    BY <2>1, AtSound, Zenon
  <2>. QED BY <1>5, <2>2, Zenon
<1>6. CASE d \in 0..4 /\ w = Formed(35 - d, K, 35 - d, {}, 35 - d, f)
  <2>1. 35 - d \in 0..35 /\ 35 - d \in 0..35 - d /\ 35 - d >= 31
    BY <1>6
  <2>2. Sound(Formed(35 - d, K, 35 - d, {}, 35 - d, f))
    BY <2>1, AtSound, Zenon
  <2>. QED BY <1>6, <2>2, Zenon
<1>7. CASE d \in 0..31 /\ w = Formed(31 - d, {}, 31 - d, {}, 31 - d, f)
  <2>1. 31 - d \in 0..35 /\ 31 - d \in 0..31 - d
    BY <1>7
  <2>2. Sound(Formed(31 - d, {}, 31 - d, {}, 31 - d, f))
    BY <2>1, BareSound, Zenon
  <2>. QED BY <1>7, <2>2, Zenon
<1>8. CASE \E l \in 0..3 : w = Settled(l, f)
  BY <1>8, SettledSound, Zenon
<1>9. \/ d \in 0..31 /\ w = Formed(d, {}, 0, {}, 0, f)
      \/ w = Formed(31, {}, 31, {}, 0, f)
      \/ w = Formed(31, {}, 31, {"posts"}, 31, f)
      \/ d \in 4..8 /\ w = Formed(27 + d, K, 31, {}, 31, f)
      \/ w = Formed(35, K, 35, {}, 31, f)
      \/ d \in 0..4 /\ w = Formed(35 - d, K, 35 - d, {}, 35 - d, f)
      \/ d \in 0..31 /\ w = Formed(31 - d, {}, 31 - d, {}, 31 - d, f)
      \/ w = Settled(1, f) \/ w = Settled(2, f) \/ w = Settled(3, f)
  BY Zenon DEF Shaped
<1>10. 1 \in 0..3 /\ 2 \in 0..3 /\ 3 \in 0..3
  OBVIOUS
<1>. QED BY <1>1, <1>2, <1>3, <1>4, <1>5, <1>6, <1>7, <1>8, <1>9, <1>10, Zenon

LEMMA NamesOfAll == Names(Created \o BuildTables) = Stack(35)
<1> DEFINE c == Created \o BuildTables
<1>1. Joint(c, Created, BuildTables, Len(Created), Len(BuildTables)) /\ \E U : c \in Seq(U)
  BY CreatedPile, BuildPile, Joined, Zenon DEF Pile
<1>2. Len(Created) = 31 /\ Len(BuildTables) = 4
  BY CreatedPile, BuildPile DEF Pile
<1> HIDE DEF c
<1>3. Joint(c, Created, BuildTables, 31, 4)
  BY <1>1, <1>2
<1>4. DOMAIN c = 1..35
  <2>1. PICK U : c \in Seq(U)
    BY <1>1
  <2>2. Len(c) = 35
    BY <1>3 DEF Joint
  <2>. QED BY <2>1, <2>2
<1>5. \A i \in 1..35 : c[i] = TableStatement(i)
  BY <1>3 DEF Joint, TableStatement
<1>6. \A i \in 1..35 : c[i].tables = {Name(i)}
  BY <1>5, Stacked DEF Stacks
<1>7. Names(c) = Stack(35)
  BY <1>4, <1>6 DEF Names, Stack
<1>. QED BY <1>7 DEF c

\* No key leads to or from the empty name.
LEMMA NamesAreNotEmpty == "" \notin Stack(35) /\ \A k \in AllKeys : k.to # "" /\ k.from # ""
<1>1. Place("") = 0
  BY DEF Place
<1>2. "" \notin Stack(35)
  <2>1. 35 \in 0..35
    OBVIOUS
  <2>2. "" \in Stack(35) => Place("") \in 1..35
    BY <2>1, OnStack, Zenon
  <2>3. 0 \notin 1..35
    OBVIOUS
  <2>. QED BY <1>1, <2>2, <2>3, Zenon
<1>3. ASSUME NEW k \in AllKeys
      PROVE  Place(k.to) # 0 /\ Place(k.from) # 0
  BY KeysLeadDown
<1>. QED BY <1>1, <1>2, <1>3

LEMMA InitialHolds == SchemaInit => SchemaInv
<1> SUFFICES ASSUME SchemaInit
             PROVE  SchemaInv
  OBVIOUS
<1>1. Empty = Settled(0, {}) /\ Empty.filled = {} /\ Empty.tables = {}
  <2>1. Empty = Formed(0, {}, 0, {}, 0, {})
    BY StackFacts DEF Empty, Formed
  <2>2. Empty.filled = {} /\ Empty.tables = {}
    BY DEF Empty
  <2>. QED BY <2>1, <2>2 DEF Settled
<1>2. Course
  BY <1>1 DEF SchemaInit, Course
<1>3. Filled
  BY <1>1 DEF SchemaInit, Filled
<1>4. RowsSound
  <2>1. \A i \in RowIds : stored[i] = NoRecord
    BY DEF SchemaInit
  <2>2. NoRecord \in Row
    BY DEF NoRecord, Row
  <2>3. stored \in [RowIds -> Row]
    BY <2>2 DEF SchemaInit
  <2>4. NoRecord.table = "" /\ NoRecord.ref \notin RowIds
    BY OwnersAssumption DEF NoRecord
  <2>. QED BY <2>1, <2>3, <2>4 DEF RowsSound
<1>5. RoleFits
  BY DEF SchemaInit, RoleFits
<1>. QED BY <1>2, <1>3, <1>4, <1>5 DEF SchemaInv

LEMMA ProvisionHolds ==
    ASSUME SchemaInv, Provision
    PROVE  SchemaInv'
<1>1. UNCHANGED <<level, db, work, target, reached, done, stored>> /\ role' = "FIT"
  BY DEF Provision
<1>2. Course' /\ Filled' /\ RowsSound'
  BY <1>1 DEF SchemaInv, Course, Filled, RowsSound, Refers, Posts, Way
<1>3. RoleFits'
  BY <1>1 DEF RoleFits, Roles
<1>. QED BY <1>2, <1>3 DEF SchemaInv

LEMMA CommandHolds ==
    ASSUME SchemaInv, (\E n \in 1..3 : Upgrade(n)) \/ Downgrade
    PROVE  SchemaInv'
<1>1. /\ Idling /\ target' \in 0..3 /\ target' # level /\ (target' < level => target' = level - 1)
      /\ UNCHANGED <<level, role, db, work, reached, done, stored>>
  BY DEF SchemaInv, Course, Upgrade, Downgrade
<1>2. /\ level \in 0..3 /\ reached = level /\ done = 0 /\ work = Settled(level, work.filled)
      /\ db = Settled(level, db.filled) /\ work = db
  BY <1>1 DEF SchemaInv, Course, Idling
<1>3. Steps(Way', reached) > 0
  BY DEF Steps
<1>4. Shaped(Way', reached, 0, work)
  <2>1. CASE target' > level
    <3>1. Way' = "up" /\ reached # 3
      BY <1>1, <1>2, <2>1 DEF Way
    <3>. QED BY <1>2, <3>1, Starts
  <2>2. CASE target' < level
    <3>1. Way' = "down" /\ reached # 0
      BY <1>1, <1>2, <2>2 DEF Way
    <3>. QED BY <1>2, <3>1, Starts
  <2>. QED BY <1>1, <1>2, <2>1, <2>2
<1>5. Course'
  BY <1>1, <1>2, <1>3, <1>4 DEF Course
<1>6. Filled'
  BY <1>1, <1>2 DEF SchemaInv, Filled, Posts
<1>7. RowsSound'
  BY <1>1 DEF SchemaInv, RowsSound, Refers
<1>8. RoleFits'
  BY <1>1 DEF SchemaInv, RoleFits
<1>. QED BY <1>5, <1>6, <1>7, <1>8 DEF SchemaInv

LEMMA ExecuteHolds ==
    ASSUME SchemaInv, Execute
    PROVE  SchemaInv'
<1>1. /\ Course /\ reached # target /\ work' = Done(Statement, work)
      /\ UNCHANGED <<level, role, db, target, stored>> /\ RoleAccepted
  BY DEF SchemaInv, Execute
<1>2. /\ level \in 0..3 /\ target \in 0..3 /\ reached \in 0..3 /\ done \in Nat
      /\ target > level => level <= reached /\ reached < target
      /\ target <= level => target = level - 1 /\ reached = level
      /\ done < Steps(Way, reached) /\ Shaped(Way, reached, done, work)
  BY <1>1 DEF Course
<1>3. Len(Migration) = Steps(Way, reached)
  <2>1. \E way, r, m, n : Ahead(way, r, m, n)
    BY <1>2, Lengths
  <2>. QED BY <2>1 DEF Ahead
<1>4. LeadsOn(Way, reached, done, work, Statement)
  BY <1>1, StatementGoes
<1>5. Shaped(Way, reached, done + 1, work') /\ Fills(Way, reached, done, work, work')
  BY <1>1, <1>4, Zenon DEF LeadsOn
<1>6. Way' = Way /\ Way \in {"up", "down"} /\ (Way = "up" <=> target > level)
  BY <1>1 DEF Way
<1>9. RoleFits'
  <2>1. role = "FIT"
    BY <1>1, <1>2 DEF SchemaInv, RoleFits, RoleAccepted
  <2>. QED BY <1>1, <2>1 DEF RoleFits, Roles
<1>7. CASE done + 1 < Steps(Way, reached)
  <2>1. done' = done + 1 /\ reached' = reached
    BY <1>3, <1>7 DEF Execute
  <2>2. Course'
    BY <1>1, <1>2, <1>5, <1>6, <1>7, <2>1 DEF Course
  <2>3. Filled'
    <3>1. Posts' = Posts /\ Posts \subseteq RowIds
      BY <1>1 DEF Posts
    <3>2. work'.filled \subseteq RowIds
      BY <1>5, <3>1 DEF Fills, SchemaInv, Filled
    <3>3. ASSUME reached >= 2 \/ (reached = 1 /\ target > level /\ done + 1 >= 2)
          PROVE  Posts \subseteq work'.filled
      <4>1. CASE done = 1 /\ reached = 1 /\ target > level
        BY <1>5, <1>6, <4>1 DEF Fills
      <4>2. CASE ~(done = 1 /\ reached = 1 /\ target > level)
        <5>1. Posts \subseteq work.filled
          BY <1>2, <3>3, <4>2 DEF SchemaInv, Filled
        <5>2. ~(Way = "down" /\ reached = 2 /\ done = 4)
          BY <1>7 DEF Steps
        <5>. QED BY <1>5, <1>6, <4>2, <5>1, <5>2 DEF Fills
      <4>. QED BY <4>1, <4>2
    <3>. QED BY <1>1, <2>1, <3>1, <3>2, <3>3 DEF SchemaInv, Filled
  <2>. QED BY <1>1, <1>9, <2>2, <2>3 DEF SchemaInv, RowsSound, Refers
<1>8. CASE ~(done + 1 < Steps(Way, reached))
  <2> DEFINE r == IF target > level THEN reached + 1 ELSE reached - 1
  <2>1. done' = 0 /\ reached' = r
    BY <1>3, <1>8 DEF Execute
  <2>2. done + 1 = Steps(Way, reached)
    BY <1>2, <1>8 DEF Steps
  <2>3. work' = Settled(r, work'.filled)
    <3>1. reached # IF Way = "up" THEN 3 ELSE 0
      BY <1>2, <1>6
    <3>2. Shaped(Way, reached, Steps(Way, reached), work')
      BY <1>5, <2>2
    <3>3. work' = Settled(IF Way = "up" THEN reached + 1 ELSE reached - 1, work'.filled)
      BY <1>2, <1>6, <3>1, <3>2, Arrives
    <3>. QED BY <1>6, <3>3
  <2>4. r \in 0..3
    BY <1>2
  <2>5. r # target => Shaped(Way, r, 0, work')
    <3>1. ASSUME r # target
          PROVE  Way = "up" /\ r # 3
      BY <1>2, <1>6, <3>1
    <3>. QED BY <2>3, <2>4, <3>1, Starts
  <2>6. Steps(Way, r) > 0
    BY DEF Steps
  <2>7. Course'
    BY <1>1, <1>2, <1>6, <2>1, <2>3, <2>4, <2>5, <2>6 DEF Course
  <2>8. Filled'
    <3>1. Posts' = Posts /\ Posts \subseteq RowIds
      BY <1>1 DEF Posts
    <3>2. work'.filled \subseteq RowIds
      BY <1>5, <3>1 DEF Fills, SchemaInv, Filled
    <3>3. ASSUME r >= 2
          PROVE  Posts \subseteq work'.filled
      <4>1. ~(Way = "down" /\ reached = 2)
        BY <1>2, <1>6, <3>3
      <4>2. Way = "up" /\ reached = 1 => done = 9
        BY <1>2, <2>2 DEF Steps
      <4>3. Posts \subseteq work.filled
        BY <1>2, <1>6, <3>3, <4>2 DEF SchemaInv, Filled
      <4>. QED BY <1>5, <4>1, <4>2, <4>3 DEF Fills
    <3>. QED BY <1>1, <2>1, <3>1, <3>2, <3>3 DEF SchemaInv, Filled
  <2>. QED BY <1>1, <1>9, <2>7, <2>8 DEF SchemaInv, RowsSound, Refers
<1>. QED BY <1>7, <1>8

\* A row that survives has the rows it refers to with it.
LEMMA CommitHolds ==
    ASSUME SchemaInv, CommitSchema
    PROVE  SchemaInv'
<1>1. /\ reached = target /\ level' = target /\ db' = work
      /\ UNCHANGED <<role, work, target, reached, done>>
      /\ stored' = [i \in RowIds |->
                       IF stored[i].table \in work.tables THEN stored[i] ELSE NoRecord]
  BY DEF CommitSchema
<1>2. work = Settled(reached, work.filled) /\ done = 0 /\ target \in 0..3
  BY <1>1 DEF SchemaInv, Course
<1>3. Course'
  BY <1>1, <1>2 DEF Course
<1>4. \A i \in RowIds :
         stored'[i] = IF stored[i].table \in work.tables THEN stored[i] ELSE NoRecord
  BY <1>1
<1>5. NoRecord.table = "" /\ NoRecord.ref \notin RowIds /\ NoRecord \in Row
  BY OwnersAssumption DEF NoRecord, Row
<1>6. Posts' \subseteq Posts
  BY <1>4, <1>5 DEF Posts
<1>7. Filled'
  BY <1>1, <1>2, <1>6 DEF SchemaInv, Filled
<1>8. PICK n \in 0..35 : work.tables = Stack(n)
  BY <1>1, <1>2, SettledSound DEF Sound
<1>9. RowsSound'
  <2>1. stored' \in [RowIds -> Row]
    BY <1>1, <1>5 DEF SchemaInv, RowsSound
  <2>2. ASSUME NEW i \in RowIds
        PROVE  /\ stored'[i].table \in db'.tables \cup {""}
               /\ stored'[i].table = "" => stored'[i] = NoRecord
               /\ stored'[i].table \notin Unscoped \cup {""} => stored'[i].owner = stored'[i].by
    BY <1>1, <1>4, <1>5, Zenon DEF SchemaInv, RowsSound
  <2>3. ASSUME NEW i \in RowIds, stored'[i].ref \in RowIds
        PROVE  Refers(i, stored[i].ref)' /\ stored'[i] = stored[i]
    <3> DEFINE j == stored[i].ref
    <3>1. stored[i].table \in work.tables /\ stored'[i] = stored[i]
      BY <1>4, <1>5, <2>3
    <3>2. j \in RowIds /\ Refers(i, j)
      BY <2>3, <3>1 DEF SchemaInv, RowsSound
    <3>3. PICK k \in AllKeys : k.from = stored[i].table /\ k.to = stored[j].table
      BY <3>2 DEF Refers
    <3>4. /\ Place(k.to) \in 1..Place(k.from) /\ Name(Place(k.to)) = k.to
      BY KeysLeadDown
    <3>5. Place(k.from) \in 1..n
      BY <1>8, <3>1, <3>3, OnStack
    <3>6. stored[j].table \in work.tables
      BY <1>8, <3>3, <3>4, <3>5, OnStack
    <3>7. stored'[j] = stored[j]
      BY <1>4, <3>2, <3>6
    <3>8. Refers(i, j)'
      BY <3>1, <3>2, <3>7 DEF Refers
    <3>. QED BY <3>1, <3>8
  <2>. QED BY <2>1, <2>2, <2>3 DEF RowsSound
<1>10. RoleFits'
  BY <1>1 DEF SchemaInv, RoleFits
<1>. QED BY <1>3, <1>7, <1>9, <1>10 DEF SchemaInv

LEMMA RollbackHolds ==
    ASSUME SchemaInv, RollbackSchema
    PROVE  SchemaInv'
<1>1. /\ target' = level /\ reached' = level /\ done' = 0 /\ work' = db
      /\ UNCHANGED <<level, role, db, stored>>
  BY DEF RollbackSchema
<1>2. level \in 0..3 /\ db = Settled(level, db.filled)
  BY DEF SchemaInv, Course
<1>3. Course'
  BY <1>1, <1>2 DEF Course
<1>4. Filled'
  BY <1>1, <1>2 DEF SchemaInv, Filled, Posts
<1>5. RoleFits'
  BY <1>1, <1>2 DEF SchemaInv, RoleFits
<1>. QED BY <1>1, <1>3, <1>4, <1>5 DEF SchemaInv, RowsSound, Refers

\* The policy vouches for a row's owner, the keys for what the row refers to.
LEMMA InsertHolds ==
    ASSUME SchemaInv, Idling, NEW i \in RowIds, NEW x \in db.granted, NEW by \in Owners,
           NEW owner \in Owners \cup {NoOwner}, NEW j \in RowIds \cup {NoRowId},
           Insert(i, x, owner, by, j)
    PROVE  SchemaInv'
<1> DEFINE row == [table |-> x, owner |-> owner, by |-> by, ref |-> j]
<1>1. /\ stored[i] = NoRecord /\ (x \in db.policy /\ role # "UNSAFE" => owner = by)
      /\ j # NoRowId =>
            \E k \in db.keys : /\ k.from = x /\ k.to = stored[j].table
                               /\ k.own => stored[j].owner = owner
      /\ stored' = [stored EXCEPT ![i] = row]
      /\ db' = (IF x = "posts" /\ level >= 2 THEN [db EXCEPT !.filled = @ \cup {i}] ELSE db)
      /\ work' = db'
      /\ UNCHANGED <<level, role, target, reached, done>>
  BY DEF Insert
<1>2. /\ level \in 0..3 /\ target = level /\ reached = level /\ done = 0
      /\ db = Settled(level, db.filled) /\ work = db
  BY DEF SchemaInv, Course, Idling
<1>3. Sound(db)
  BY <1>2, SettledSound
<1>4. db.policy = db.tables \ Unscoped /\ db.granted = db.tables
  BY <1>2 DEF Settled, Formed
<1>16. role = "FIT" /\ RoleFits'
  <2>1. level # 0
    <3>1. level = 0 => db.granted = {}
      BY <1>2, StackFacts DEF Settled, Formed
    <3>. QED BY <3>1
  <2>2. role = "FIT"
    BY <1>2, <2>1 DEF SchemaInv, RoleFits
  <2>. QED BY <1>1, <2>2 DEF RoleFits, Roles
<1>5. x \in Stack(35) /\ x # ""
  <2>1. PICK n \in 0..35 : db.tables = Stack(n)
    BY <1>3 DEF Sound
  <2>2. Stack(n) \subseteq Stack(35)
    BY DEF Stack
  <2>. QED BY <1>4, <2>1, <2>2, NamesAreNotEmpty
<1>6. row \in Row
  <2>1. x \in Names(Created \o BuildTables)
    BY <1>5, NamesOfAll
  <2>. QED BY <2>1 DEF Row
<1>7. stored \in [RowIds -> Row] /\ stored' \in [RowIds -> Row]
  BY <1>1, <1>6 DEF SchemaInv, RowsSound
<1>8. stored'[i] = row /\ \A m \in RowIds \ {i} : stored'[m] = stored[m]
  BY <1>1, <1>7
<1>9. /\ db' = Settled(level, db'.filled) /\ db'.tables = db.tables
      /\ db'.filled = IF x = "posts" /\ level >= 2 THEN db.filled \cup {i} ELSE db.filled
  <2>1. CASE x = "posts" /\ level >= 2
    <3> DEFINE f == db.filled \cup {i}
    <3>1. db' = [db EXCEPT !.filled = f]
      BY <1>1, <2>1, Zenon
    <3>2. db = Formed(35, PostKeys.keys, 35, {}, 35, db.filled)
      BY <1>2, <2>1 DEF Settled
    <3>3. db' = Formed(35, PostKeys.keys, 35, {}, 35, f)
      <4> DEFINE v == db'
      <4>1. v = [db EXCEPT !.filled = f]
        BY <3>1, Zenon
      <4> HIDE DEF v, f
      <4>2. v = Formed(35, PostKeys.keys, 35, {}, 35, f)
        BY <3>2, <4>1 DEF Formed
      <4>. QED BY <4>2, Zenon DEF v
    <3> HIDE DEF f
    <3>4. db'.filled = f /\ db'.tables = Stack(35) /\ db.tables = Stack(35)
      BY <3>2, <3>3 DEF Formed
    <3>5. Settled(level, f) = Formed(35, PostKeys.keys, 35, {}, 35, f)
      BY <1>2, <2>1 DEF Settled
    <3>. QED BY <2>1, <3>3, <3>4, <3>5, Zenon DEF f
  <2>2. CASE ~(x = "posts" /\ level >= 2)
    <3>1. db' = db
      BY <1>1, <2>2, Zenon
    <3>. QED BY <1>2, <2>2, <3>1
  <2>. QED BY <2>1, <2>2
<1>10. Course'
  BY <1>1, <1>2, <1>9 DEF Course
<1>11. Filled'
  <2>1. Posts' \subseteq Posts \cup {i} /\ (i \in Posts' => x = "posts")
    BY <1>8 DEF Posts
  <2>. QED BY <1>1, <1>2, <1>9, <2>1 DEF SchemaInv, Filled
<1>12. stored[i].table = "" /\ stored[i].ref \notin RowIds
  <2>1. NoRecord.table = "" /\ NoRecord.ref = NoRowId
    BY DEF NoRecord
  <2>. QED BY <1>1, <2>1, OwnersAssumption
<1>13. ASSUME NEW m \in RowIds \ {i}, stored[m].ref \in RowIds
       PROVE  Refers(m, stored[m].ref)'
  <2>1. Refers(m, stored[m].ref)
    BY <1>13 DEF SchemaInv, RowsSound
  <2>2. stored[m].ref # i
    BY <1>12, <2>1, NamesAreNotEmpty DEF Refers
  <2>. QED BY <1>8, <1>13, <2>1, <2>2 DEF Refers
<1>14. ASSUME j \in RowIds
       PROVE  Refers(i, j)'
  <2>1. j # NoRowId
    BY <1>14, OwnersAssumption
  <2>2. PICK k \in db.keys : /\ k.from = x /\ k.to = stored[j].table
                             /\ k.own => stored[j].owner = owner
    BY <1>1, <2>1
  <2>3. k \in AllKeys
    BY <1>3 DEF Sound
  <2>4. j # i
    BY <1>12, <2>2, <2>3, NamesAreNotEmpty
  <2>5. stored'[j] = stored[j] /\ stored'[i].table = x /\ stored'[i].owner = owner
    BY <1>8, <1>14, <2>4
  <2>6. stored[j].table \notin Unscoped => stored[j].owner = owner
    BY <2>2, <2>3, KeysLeadDown
  <2>. QED BY <2>2, <2>3, <2>5, <2>6 DEF Refers
<1>15. RowsSound'
  <2>1. ASSUME NEW m \in RowIds \ {i}
        PROVE  /\ stored'[m].table \in db'.tables \cup {""}
               /\ stored'[m].table = "" => stored'[m] = NoRecord
               /\ stored'[m].table \notin Unscoped \cup {""} => stored'[m].owner = stored'[m].by
               /\ stored'[m].ref \in RowIds => Refers(m, stored[m].ref)'
    <3>1. stored'[m] = stored[m]
      BY <1>8
    <3>2. stored[m].ref \in RowIds => Refers(m, stored[m].ref)'
      BY <1>13, <3>1, Zenon
    <3>. QED BY <1>9, <3>1, <3>2 DEF SchemaInv, RowsSound
  <2>2. /\ stored'[i].table \in db'.tables \cup {""}
        /\ stored'[i].table = "" => stored'[i] = NoRecord
        /\ stored'[i].table \notin Unscoped \cup {""} => stored'[i].owner = stored'[i].by
    <3>1. /\ stored'[i].table = x /\ stored'[i].owner = owner /\ stored'[i].by = by
          /\ x \in db'.tables
      BY <1>4, <1>8, <1>9
    <3>2. x \notin Unscoped => owner = by
      BY <1>1, <1>4, <1>16
    <3>. QED BY <1>5, <3>1, <3>2
  <2>3. stored'[i].ref \in RowIds => Refers(i, stored[i].ref)'
    <3>1. stored'[i].ref = j
      BY <1>8
    <3>. QED BY <1>14, <3>1
  <2>. QED BY <1>7, <2>1, <2>2, <2>3 DEF RowsSound
<1>. QED BY <1>10, <1>11, <1>15, <1>16 DEF SchemaInv

-----------------------------------------------------------------------------
(* A database that was created at a level.                                 *)

\* The statements of a migration forward, what they create and refer to.
Of(m) == {Up[m][i] : i \in DOMAIN Up[m]}

TablesOf(S) == UNION {s.tables : s \in {c \in S : c.op = "CREATE"}}

KeysOf(S) == UNION {s.keys : s \in S}

LEMMA OfInitial == TablesOf(Of(1)) = Stack(31) /\ KeysOf(Of(1)) = KeysUpTo(31)
<1> DEFINE p == Initial[32]
           g == Initial[33]
<1>1. Of(1) = {TableStatement(i) : i \in 1..31} \cup {p, g}
  <2>1. Of(1) = {Initial[i] : i \in 1..33}
    BY InitialIs, Directions DEF Of
  <2>2. 1..33 = 1..31 \cup {32, 33}
    OBVIOUS
  <2>. QED BY <2>1, <2>2, InitialIs
<1>2. p.op # "CREATE" /\ g.op # "CREATE" /\ p.keys = {} /\ g.keys = {}
  BY InitialIs DEF On
<1>3. \A i \in 1..31 : TableStatement(i).op = "CREATE" /\ TableStatement(i).tables = {Name(i)}
  BY Stacked DEF Stacks
<1> HIDE DEF p, g
<1>4. TablesOf(Of(1)) = Stack(31)
  BY <1>1, <1>2, <1>3 DEF Stack, TablesOf
<1>5. KeysOf(Of(1)) = KeysUpTo(31)
  BY <1>1, <1>2 DEF KeysUpTo, KeysOf
<1>. QED BY <1>4, <1>5

LEMMA OfBuilds ==
    /\ TablesOf(Of(2)) = {Name(i) : i \in 32..35}
    /\ KeysOf(Of(2)) = PostKeys.keys \cup UNION {TableStatement(i).keys : i \in 32..35}
<1> DEFINE Plains == {Builds[1], Builds[2], Builds[3], Builds[9], Builds[10]}
<1>1. Of(2) = {TableStatement(i) : i \in 32..35} \cup {PostKeys} \cup Plains
  <2>1. Of(2) = {Builds[i] : i \in 1..10}
    BY BuildsIs, Directions DEF Of
  <2>2. 1..10 = 5..8 \cup {1, 2, 3, 4, 9, 10}
    OBVIOUS
  <2>3. Of(2) = {Builds[i] : i \in 5..8} \cup {PostKeys} \cup Plains
    BY <2>1, <2>2, BuildsIs
  <2>4. {Builds[i] : i \in 5..8} = {TableStatement(i) : i \in 32..35}
    <3>1. \A i \in 5..8 : Builds[i] = TableStatement(27 + i) /\ 27 + i \in 32..35
      BY BuildsIs
    <3>2. \A i \in 32..35 : i - 27 \in 5..8 /\ 27 + (i - 27) = i
      OBVIOUS
    <3>3. \A i \in 32..35 : TableStatement(i) = Builds[i - 27]
      BY <3>1, <3>2
    <3>. QED BY <3>1, <3>2, <3>3
  <2>. QED BY <2>3, <2>4, Zenon
<1>2. \A s \in Plains : s.op # "CREATE" /\ s.keys = {}
  BY BuildsIs DEF On
<1>3. \A i \in 32..35 : TableStatement(i).op = "CREATE" /\ TableStatement(i).tables = {Name(i)}
  BY Stacked DEF Stacks
<1>4. PostKeys.op # "CREATE"
  BY DEF PostKeys
<1> HIDE DEF Plains
<1>5. TablesOf(Of(2)) = {Name(i) : i \in 32..35}
  BY <1>1, <1>2, <1>3, <1>4 DEF TablesOf
<1>6. KeysOf(Of(2)) = PostKeys.keys \cup UNION {TableStatement(i).keys : i \in 32..35}
  BY <1>1, <1>2 DEF KeysOf
<1>. QED BY <1>5, <1>6

LEMMA OfMarkers == TablesOf(Of(3)) = {} /\ KeysOf(Of(3)) = {}
<1>1. Of(3) = {Markers[1]} /\ Markers[1] = On("ALTER", {"honor_categories", "staff_members"})
  BY UndoneIs, Directions DEF Of
<1>2. Markers[1].op # "CREATE" /\ Markers[1].keys = {}
  BY <1>1 DEF On
<1>. QED BY <1>1, <1>2 DEF TablesOf, KeysOf

\* A level has the tables and keys it has on a new database.
LEMMA FreshIs ==
    \A n \in 0..3 : \A f :
        Fresh[n].tables = Settled(n, f).tables /\ Fresh[n].keys = Settled(n, f).keys
<1> DEFINE All(n) == UNION {Of(m) : m \in 1..n}
<1>1. \A n \in 0..3 : Fresh[n].tables = TablesOf(All(n)) /\ Fresh[n].keys = KeysOf(All(n))
  BY DEF Fresh, Of, TablesOf, KeysOf
<1>2. All(0) = {} /\ All(1) = Of(1) /\ All(2) = Of(1) \cup Of(2) /\ All(3) = All(2) \cup Of(3)
  <2>1. 1..0 = {} /\ 1..1 = {1} /\ 1..2 = {1, 2} /\ 1..3 = {1, 2, 3}
    OBVIOUS
  <2>. QED BY <2>1
<1>3. \A A, B : TablesOf(A \cup B) = TablesOf(A) \cup TablesOf(B)
  BY DEF TablesOf
<1>4. \A A, B : KeysOf(A \cup B) = KeysOf(A) \cup KeysOf(B)
  BY DEF KeysOf
<1>5. TablesOf({}) = {} /\ KeysOf({}) = {}
  BY DEF TablesOf, KeysOf
<1>6. 1..35 = 1..31 \cup 32..35
  OBVIOUS
<1>7. Stack(35) = Stack(31) \cup {Name(i) : i \in 32..35}
  BY <1>6 DEF Stack
<1>8. AllKeys = KeysUpTo(31) \cup PostKeys.keys \cup UNION {TableStatement(i).keys : i \in 32..35}
  BY <1>6 DEF AllKeys, KeysUpTo
<1> HIDE DEF All
<1>9. TablesOf(All(0)) = {} /\ KeysOf(All(0)) = {}
  BY <1>2, <1>5
<1>10. TablesOf(All(1)) = Stack(31) /\ KeysOf(All(1)) = KeysUpTo(31)
  BY <1>2, OfInitial
<1>11. TablesOf(All(2)) = Stack(35) /\ KeysOf(All(2)) = AllKeys
  <2>1. TablesOf(All(2)) = TablesOf(Of(1)) \cup TablesOf(Of(2))
    BY <1>2, <1>3
  <2>2. KeysOf(All(2)) = KeysOf(Of(1)) \cup KeysOf(Of(2))
    BY <1>2, <1>4
  <2>. QED BY <1>7, <1>8, <2>1, <2>2, OfInitial, OfBuilds
<1>12. TablesOf(All(3)) = Stack(35) /\ KeysOf(All(3)) = AllKeys
  <2>1. TablesOf(All(3)) = TablesOf(All(2)) \cup TablesOf(Of(3))
    BY <1>2, <1>3, Zenon
  <2>2. KeysOf(All(3)) = KeysOf(All(2)) \cup KeysOf(Of(3))
    BY <1>2, <1>4, Zenon
  <2>. QED BY <1>11, <2>1, <2>2, OfMarkers
<1>13. \A f : Settled(0, f).tables = {} /\ Settled(0, f).keys = {}
  BY StackFacts DEF Settled, Formed
<1>14. \A f : Settled(1, f).tables = Stack(31) /\ Settled(1, f).keys = KeysUpTo(31)
  BY DEF Settled, Formed
<1>15. \A n \in 2..3 : \A f : Settled(n, f).tables = Stack(35) /\ Settled(n, f).keys = AllKeys
  BY DEF Settled, Formed, AllKeys
<1>. QED BY <1>1, <1>9, <1>10, <1>11, <1>12, <1>13, <1>14, <1>15

-----------------------------------------------------------------------------

(* At all times the schemas are where the statements so far have led, the  *)
(* posts are filled beyond the backfill, and rows refer within a tenant.   *)
THEOREM SchemaInvariance == SchemaSpec => []SchemaInv
<1>1. ASSUME SchemaInv, [SchemaNext]_schemaVars
      PROVE  SchemaInv'
  <2>1. CASE \E n \in 1..3 : Upgrade(n)
    BY <1>1, <2>1, CommandHolds
  <2>2. CASE Downgrade
    BY <1>1, <2>2, CommandHolds
  <2>3. CASE Execute
    BY <1>1, <2>3, ExecuteHolds
  <2>4. CASE CommitSchema
    BY <1>1, <2>4, CommitHolds
  <2>5. CASE RollbackSchema
    BY <1>1, <2>5, RollbackHolds
  <2>6. CASE Idling /\ \E i \in RowIds, x \in db.granted, by \in Owners :
                \E owner \in Owners \cup {NoOwner}, j \in RowIds \cup {NoRowId} :
                    Insert(i, x, owner, by, j)
    BY <1>1, <2>6, InsertHolds
  <2>7. CASE Provision
    BY <1>1, <2>7, ProvisionHolds
  <2>8. CASE UNCHANGED schemaVars
    BY <1>1, <2>8 DEF SchemaInv, Course, Filled, RowsSound, Refers, Posts, Way, RoleFits, schemaVars
  <2>. QED BY <1>1, <2>1, <2>2, <2>3, <2>4, <2>5, <2>6, <2>7, <2>8 DEF SchemaNext
<1>. QED BY <1>1, InitialHolds, PTL DEF SchemaSpec

(* Levels, schemas and rows have their types: no policy, grant or foreign  *)
(* key outlives its table (migrations/versions).                           *)
THEOREM SchemaTypeCorrect == SchemaSpec => []SchemaTypeOK
<1>1. SchemaInv => SchemaTypeOK
  <2> SUFFICES ASSUME SchemaInv
               PROVE  SchemaTypeOK
    OBVIOUS
  <2>1. Course /\ Filled /\ RowsSound /\ role \in Roles
    BY DEF SchemaInv, RoleFits
  <2>2. Sound(db)
    BY <2>1, SettledSound DEF Course
  <2>3. Sound(work)
    <3>1. CASE reached = target
      BY <2>1, <3>1, SettledSound DEF Course
    <3>2. CASE reached # target
      BY <2>1, <3>2, ShapedSound DEF Course
    <3>. QED BY <3>1, <3>2
  <2>. QED BY <2>1, <2>2, <2>3 DEF SchemaTypeOK, Course, Filled, RowsSound, Sound
<1>. QED BY <1>1, SchemaInvariance, PTL

(* Whatever rows there are, from any level, a migration never meets a      *)
(* statement that it cannot execute, and leaves no post without a document *)
(* (migrations/versions, migrations/env.py).                               *)
THEOREM MigrationsSucceedCorrect == SchemaSpec => []MigrationsSucceed
<1>1. SchemaInv => MigrationsSucceed
  <2> SUFFICES ASSUME SchemaInv
               PROVE  MigrationsSucceed
    OBVIOUS
  <2>1. NeverFails
    BY StatementGoes DEF NeverFails, LeadsOn, SchemaInv
  <2>2. AllFilled
    BY DEF AllFilled, SchemaInv, Filled
  <2>. QED BY <2>1, <2>2 DEF MigrationsSucceed
<1>. QED BY <1>1, SchemaInvariance, PTL

(* After any sequence of migrations, rollbacks and downgrades every        *)
(* tenants' table is under the forced policy, a level has the tables and   *)
(* keys of a new database, and no row was written for another tenant or    *)
(* refers to a row of one (docs/multitenancy.md:42, 57).                   *)
THEOREM RowsAreGuardedCorrect == SchemaSpec => []RowsAreGuarded
<1>1. SchemaInv => RowsAreGuarded
  <2> SUFFICES ASSUME SchemaInv
               PROVE  RowsAreGuarded
    OBVIOUS
  <2>1. Guarded
    <3>1. level \in 0..3 /\ db = Settled(level, db.filled)
      BY DEF SchemaInv, Course
    <3>2. db.tables = Fresh[level].tables /\ db.keys = Fresh[level].keys
      BY <3>1, FreshIs
    <3>3. db.policy = db.tables \ Unscoped /\ db.forced = db.policy /\ db.granted = db.tables
      BY <3>1, StackFacts DEF Settled, Formed
    <3>. QED BY <3>2, <3>3 DEF Guarded
  <2>2. RowsStayInTenant
    BY DEF RowsStayInTenant, SchemaInv, RowsSound, Refers
  <2>. QED BY <2>1, <2>2 DEF RowsAreGuarded
<1>. QED BY <1>1, SchemaInvariance, PTL
=============================================================================
