CONSTANTS
    NoState = NoState
    TimerService = TimerService
    s1 = s1  s2 = s2  s3 = s3  s4 = s4
    g1 = g1  g2 = g2  g3 = g3
    t1 = t1  t2 = t2  t3 = t3  t4 = t4
    d1 = d1  d2 = d2
    Names <- AllNames
    States <- ShortStates
    Def <- ForkDef
    Start = s1
    Goroutines = {g1, g2}
    TaskIds = {t1, t2, t3}
    TimerIds = {d1}
    MaxRepeats = 0
    MaxSignals = 0
    MaxRestarts = 0
    MaxFaults = 0
SPECIFICATION LSpec
SYMMETRY Symmetric
CHECK_DEADLOCK FALSE
PROPERTY NoTaskAfterCancel
