SPECIFICATION Spec
CONSTANTS
    None = None
    e1 = e1  e2 = e2  e3 = e3
    EventId = {e1, e2, e3}
    t1 = t1  t2 = t2  m1 = m1  m2 = m2  n1 = n1  n2 = n2
    TransactionId = {t1, t2}
    MerchantId = {m1, m2}
    MerchantName = {n1, n2}
    FileLength = 4
    MaxTime = 3
    Files <- FailedThenSettledFiles
    FlagsLateProcessed = TRUE
INVARIANTS
    FailedThenSettledIsFlagged
