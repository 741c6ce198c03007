SPECIFICATION Spec
CONSTANTS
    a1 = a1  a2 = a2  c1 = c1  r1 = r1  t1 = t1  t2 = t2  t3 = t3  t4 = t4
    p1 = p1  q1 = q1  q2 = q2  s1 = s1
    NoTask = NoTask  NoAgent = NoAgent
    Agents = {}
    CtrAgents = {c1}
    Peers = {}
    Tasks = {t1, t2}
    Roots = {t1, t2}
    Stoppers = {p1}
    Pipers = {}
    Terminals = {}
    SendModes = {"wait"}
    StopModes = {"keep", "force", "purge"}
    Disconnects = TRUE
    Days = TRUE
    MaxAgents = 1
    MaxBusy = 2
    MaxSessions = 1
    MaxRetained = 1
INVARIANTS
    PromptsOverlapGivenUp
    BusyHasRun
SYMMETRY TaskSymmetry
