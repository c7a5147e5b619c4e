SPECIFICATION SpecApart
CONSTANTS
    Regs = {r1, r2, r3}
    NoReg = NoReg
    Capacity = 1
    LateVerifiers = {r3}
    Txns = {t1, t2, t3}
    Keys = {k1, k2}
    NoKey = NoKey
    Priced = {r1, r3}
SYMMETRY Identities
INVARIANTS OneActivePayment WaitsForAPayment CompletedIsPaid PaidOnce SubmittedStaysValid SeatsRespected
PROPERTIES DecidedOnce PromiseKept
