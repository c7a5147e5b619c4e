SPECIFICATION AllSpec
CONSTANTS
    StatusRows = {e1, p1}
    FlagRows = {f1}
    Plans = {p1}
    Exams = {e1}
    Editors = {a1, a2}
    NoRow = NoRow
    MaxTrail = 3
    Writers = {w1, w2}
    Readers = {q1}
    Kinds = {k1, k2}
    MaxWrites = 2
    Forms = {f2, f3}
    Sources = {s1, s2}
    Callers = {n1, n2}
    NoSource = NoSource
    NoCaller = NoCaller
    HourlyLimit = 1
    Span = 1
    LastTime = 2
    Regs = {r1, r2}
    NoReg = NoReg
    Phones = {n3, n4}
    NoPhone = NoPhone
    Addresses = {s3, s4}
    NoAddress = NoAddress
    Codes = {c1, c2, c3}
    TTL = 2
    Cooldown = 1
    MaxTries = 2
    MaxActive = 2
    PhoneLimit = 2
    AddressLimit = 2
    TenantLimit = 1
    Hour = 2
    Minute = 0
    MaxTime = 2
    Assets = {n3, n4}
    NoAsset = NoAsset
    Owners = {o1}
    NoOwner = NoOwner
    Completions = {s3, s4}
    NoCompletion = NoCompletion
    Types = {r1, r2}
    MaxBytes = 2
    FormTTL = 1
    LastTick = 1
    Drafts = {d1}
    NoDraft = NoDraft
    Visits = {r1, r2}
    Returns = {n3, n4}
    TokenTTL = 2
    LinkTTL = 1
    MaxTokens = 2
    MaxPayments = 2
    LastMoment = 3
SYMMETRY Identities
INVARIANTS SiteTypeOK EditsAreAsTold ContactsMatch FormsThrottled Rationed CodeProvesPhone
    MediaTruthful OldTokensAreDead
PROPERTIES ExpiryIsFinal
CHECK_DEADLOCK FALSE
