CONSTANTS
    Instances = {i1}
    Pids = {p1, p2}
    NoPid = NoPid
    Handlers = {c1, c2}
    MaxBoots = 2
SPECIFICATION FairSpec
CHECK_DEADLOCK FALSE
INVARIANTS TypeOK NoWorkerEscapes CancelEffective
PROPERTIES ShutdownEnds DeadEntryRemoved
