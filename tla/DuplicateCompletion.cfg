SPECIFICATION Spec
CONSTANTS
    Regs = {r1}
    NoReg = NoReg
    Capacity = 1
    LateVerifiers = {r1}
    Txns = {t1, t2}
    Keys = {k1, k2}
    NoKey = NoKey
    Priced = {r1}
SYMMETRY Identities
INVARIANTS NoDuplicateCompletion
