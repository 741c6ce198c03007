SPECIFICATION MCSearchSpec
CONSTANTS
    a1 = a1  a2 = a2  a3 = a3  a4 = a4  t1 = t1  t2 = t2  t3 = t3
    AgentIds = {a1, a2, a3, a4}
    TaskIds = {t1, t2, t3}
    Statuses = {"running"}
    MaxEdges = 4
    NoTask = NoTask
    NoAgent = NoAgent
INVARIANTS
    AgentAcyclic
    SearchDecides
PROPERTIES
    SearchImplementsGraph
    ArcsOnlyGrow
    SearchEnds
