SPECIFICATION Spec
CONSTANTS
    Logins = {l1}
    NoLogin = NoLogin
    Tokens = {t1, t2, t3, t4}
    NoToken = NoToken
    Refreshes = {q1, q2}
    NoScope = NoScope
    Scopes = {s1}
    MaxAttempts = 1
    Window = 1
    TokenTTL = 2
    MaxTime = 1
INVARIANT FamilyRevoked
CHECK_DEADLOCK FALSE
