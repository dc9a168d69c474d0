CONSTANTS
    a1 = a1  a2 = a2
    A = A
    p1 = p1
    NoTask = NoTask
    NoGroup = NoGroup
    Task = {a1, a2, p1}
    Runners = {}
    QuitTasks = {}
    Clients = {u1}
    PlainTasks = {p1}
    Groups = {A}
    GroupTasks <- OneGroup
    Nested <- NoNesting
    MaxBatch = 1
SPECIFICATION FairSpec
PROPERTIES
    GroupCallReturns
