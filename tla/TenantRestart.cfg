SPECIFICATION TenantSpec
CONSTANTS
    Clients = {c1}
    Cells = {x, y}
    Faults = {}
    MaxCommits = 3
    NoFile = NoFile
INVARIANTS
    RestartPreserves
