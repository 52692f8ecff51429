SPECIFICATION EnginesSpec
CONSTANTS
    None = None
    s1 = s1  s2 = s2  s3 = s3
    e1 = e1  e2 = e2  e3 = e3
    t1 = t1  t2 = t2
    m1 = m1  m2 = m2
    n1 = n1  n2 = n2
    Session = {s1, s2}
    EventId = {e1, e2, e3}
    TransactionId = {t1, t2}
    MerchantId = {m1, m2}
    MerchantName = {n1, n2}
    Inbox <- ShardedInbox
    Database <- SharedPool
INVARIANTS
    EveryAnswerIsBacked
PROPERTIES
    ImplementsLedger
