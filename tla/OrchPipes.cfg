SPECIFICATION Spec
CONSTANTS
    a1 = a1  a2 = a2  c1 = c1  r1 = r1  t1 = t1  t2 = t2  t3 = t3  t4 = t4
    p1 = p1  q1 = q1  q2 = q2  s1 = s1
    NoTask = NoTask  NoAgent = NoAgent
    Agents = {a1, a2}
    CtrAgents = {}
    Peers = {}
    Tasks = {t1, t2, t3, t4}
    Roots = {t1}
    Stoppers = {}
    Pipers = {q1, q2}
    Terminals = {}
    SendModes = {"wait"}
    StopModes = {"keep"}
    Disconnects = TRUE
    Days = FALSE
    MaxAgents = 2
    MaxBusy = 2
    MaxSessions = 2
    MaxRetained = 4
INVARIANTS
    FollowupsOwned
    FollowupsMatch
    FollowupsBounded
    OneAgentPerChain
PROPERTIES
    ImplementsGraph
SYMMETRY FollowupSymmetry
