CONSTANTS
    None = none
    Tasks = {t1, t2, t3}
    Events = {e1, e2}
    Transfers = {e1}
    Legacy = {}
    LegacyBlock = 1
    Blocks = {0, 1, 2}
SPECIFICATION SafetySpec
SYMMETRY TaskSymmetry
INVARIANTS
    BalancesMatchEvents
    IInv
    InOrder
PROPERTIES
    OnlyRollbackForgets
    FulfilledMeansDone
    ImplementsLedger
