SPECIFICATION AllSpec
CONSTANTS
    Tenants = {t1, t2}
    NoTenant = NoTenant
    Hosts = {h1, h2, h3}
    Requests = {q1, q2, q3}
    NoRequest = NoRequest
    Doubles = {q1, q2}
    Callbacks = {q3}
    Conns = {c1, c2}
    b1 = b1
    b2 = b2
    b3 = b3
    Bundles = {b1, b2, b3}
    NoBundle = NoBundle
    Level <- LevelOf
    MaxLevel = 2
    Scripts = {p1, p2}
    Owners = {t1, t2}
    NoOwner = NoOwner
    RowIds = {c1, c2}
    NoRowId = NoRowId
SYMMETRY Identities
INVARIANTS PlatformTypeOK Isolated OnlyDoublesExhaust Routed ReleasesMatch MigrationsSucceed RowsAreGuarded
PROPERTIES MovesToProven
CHECK_DEADLOCK FALSE
