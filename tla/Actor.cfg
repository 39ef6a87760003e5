SPECIFICATION FairSpec
CONSTANTS
    m1 = m1
    m2 = m2
    m3 = m3
    Calls = {m1, m2, m3}
    CallerBound = {m3}
INVARIANTS MailboxSound
PROPERTIES CallsSettle CloseReturns
CHECK_DEADLOCK FALSE
