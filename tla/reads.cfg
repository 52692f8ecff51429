SPECIFICATION ReadsSpec
CONSTANTS
    None = None
    e1 = e1  e2 = e2  e3 = e3  e4 = e4  e5 = e5
    t1 = t1  t2 = t2  t3 = t3  m1 = m1  n1 = n1
    EventId = {e1, e2, e3, e4, e5}
    TransactionId = {t1, t2, t3}
    MerchantId = {m1}
    MerchantName = {n1}
    Payload <- MCPayload
    Amount <- MCAmount
    Timestamp <- MCTimestamp
    Queries <- MCQueries
INVARIANTS
    ReadsTypeOK
    DetailIsBacked
    PageCoversTotal
    PagingMissesNothing
