SPECIFICATION TenantSpec
CONSTANTS
    Clients = {c1, c2}
    Cells = {x, y}
    Faults = {"append", "snapshot", "rename", "reregister"}
    MaxCommits = 4
    NoFile = NoFile
INVARIANTS
    TenantInv
    Durable
PROPERTIES
    EventsKept
