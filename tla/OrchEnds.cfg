SPECIFICATION Spec
CONSTANTS
    a1 = a1  a2 = a2  c1 = c1  r1 = r1  t1 = t1  t2 = t2  t3 = t3  t4 = t4
    p1 = p1  q1 = q1  q2 = q2  s1 = s1
    NoTask = NoTask  NoAgent = NoAgent
    Agents = {a1}
    CtrAgents = {}
    Peers = {r1}
    Tasks = {t1, t2, t3}
    Roots = {t1}
    Stoppers = {p1}
    Pipers = {q1}
    Terminals = {}
    SendModes = {"wait", "spawn", "schedule"}
    StopModes = {"keep"}
    Disconnects = TRUE
    Days = FALSE
    MaxAgents = 1
    MaxBusy = 1
    MaxSessions = 1
    MaxRetained = 4
PROPERTIES
    RunsEnd
    StopsEnd
