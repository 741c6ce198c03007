SPECIFICATION Spec
CONSTANTS
    Requests = {r1, r2}
    Sessions = {s1}
    NoRequest = NoRequest
    MaxTasks = 1
INVARIANTS
    SubsidiaryInv
    Agreement
    NoLostUpdate
PROPERTIES
    FileLifecycle
    RequestsEnd
