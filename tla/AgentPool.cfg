SPECIFICATION PoolSpec
CONSTANTS
    a1 = a1  a2 = a2  t1 = t1  t2 = t2  t3 = t3  p1 = p1  p2 = p2  s1 = s1
    Agents = {a1, a2}
    Tasks = {t1, t2, t3}
    Stoppers = {p1, p2}
    Terminals = {s1}
    MaxAgents = 2
    MaxBusy = 1
    MaxSessions = 2
    NoTask = NoTask
    NoAgent = NoAgent
SYMMETRY MCSymmetry
INVARIANTS
    PoolInv
    WithinBudget
PROPERTIES
    StoppedForGood
    IdleByOwnRun
    ImplementsLifecycle
