CONSTANTS
    a1 = a1  a2 = a2  h1 = h1  h2 = h2
    Nobody = Nobody
    Agents <- TwoAgents
    Matching <- Overlap
    MaxTasks = 1
    Handlers = {h1, h2}
    MaxCalls = 1
    Ops = {"poll"}
SPECIFICATION Spec
SYMMETRY Symmetric
CHECK_DEADLOCK FALSE
INVARIANTS OneHolder
