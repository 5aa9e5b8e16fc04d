CONSTANTS
    m1 = m1  m2 = m2  m3 = m3  m4 = m4
    Results = {m1, m2, m3, m4}
    Kind <- Kinds
    Consumers = {w1, w2}
    NoResult = NoResult
    MaxFailures = 2
SPECIFICATION FairSpec
CHECK_DEADLOCK FALSE
INVARIANTS TypeOK ResultKept
PROPERTY EventuallyWritten
