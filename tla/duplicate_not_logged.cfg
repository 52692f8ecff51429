SPECIFICATION Spec
CONSTANTS
    None = None
    s1 = s1  s2 = s2
    e1 = e1  e2 = e2  e3 = e3  e4 = e4
    t1 = t1  t2 = t2
    m1 = m1  m2 = m2
    n1 = n1  n2 = n2
    Session = {s1, s2}
    EventId = {e1, e2}
    TransactionId = {t1, t2}
    MerchantId = {m1}
    MerchantName = {n1}
    Inbox <- NewMerchantInbox
INVARIANTS
    DuplicateIsLogged
