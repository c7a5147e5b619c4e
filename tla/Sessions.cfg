SPECIFICATION Spec
CONSTANTS
    Logins = {l1, l2, l3}
    NoLogin = NoLogin
    Tokens = {t1, t2, t3, t4}
    NoToken = NoToken
    Refreshes = {q1, q2}
    NoScope = NoScope
    Scopes = {s1}
    MaxAttempts = 2
    Window = 1
    TokenTTL = 2
    MaxTime = 2
SYMMETRY Identities
INVARIANTS GuessesThrottled OneChain
PROPERTIES SessionKept
CHECK_DEADLOCK FALSE
