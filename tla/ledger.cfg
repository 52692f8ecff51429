SPECIFICATION Spec
CONSTANTS
    None = None
    EventId = {e1, e2, e3, e4, e5}
    t1 = t1  t2 = t2
    m1 = m1  m2 = m2
    n1 = n1
    TransactionId = {t1, t2}
    MerchantId = {m1, m2}
    MerchantName = {n1}
    Payload <- MCPayload
SYMMETRY EventIdSymmetry
INVARIANTS
    TypeOK
    StatusIsFirstOfHighestRank
    MirrorsStatus
    SettlementIsEarned
    SettlementFollowsStatus
    FlagMatchesLog
    CleanLifecycleNotListed
    ReportsAreComplete
PROPERTIES
    StatusForwardOnly
CHECK_DEADLOCK FALSE
