SPECIFICATION FairMeshSpec
CONSTANTS
    c1 = c1  c2 = c2  p1 = p1  p2 = p2
    NoFile = NoFile
    NoLock = NoLock
    NoToken = NoToken
    Callers = {c1, c2}
    Procs = {p1, p2}
    ProcOf <- MCProcOf
    Locks = {"peers", "token"}
    MaxFaults = 1
INVARIANTS
    Exclusive
    NoLostPeer
    TokenAgreed
PROPERTIES
    AcquireEnds
