CONSTANTS
    Procs = {server, worker}
    Server = server
    Tenants = {acme, globex}
    Contents = {x, y}
    NoText = NoText
    RowIds = {r1, r2}
    MaxVersion = 2
    TTL = 2
    MaxLag = 1
SPECIFICATION FairSpec
INVARIANTS TypeOK BoundedStaleness
PROPERTY EventuallyFresh
