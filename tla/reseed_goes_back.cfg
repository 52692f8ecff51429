SPECIFICATION ServerAloneSpec
CONSTANTS
    None = None
    s1 = s1
    e1 = e1  e2 = e2  e3 = e3
    t1 = t1  m1 = m1  n1 = n1
    Session = {s1}
    EventId = {e1, e2, e3}
    TransactionId = {t1}
    MerchantId = {m1}
    MerchantName = {n1}
    Inbox <- MCInbox
    Files <- MCFiles
    FlagsLateProcessed = FALSE
    NumSources = 2
PROPERTIES
    RestartKeepsStatus
