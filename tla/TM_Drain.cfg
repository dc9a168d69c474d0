CONSTANTS
    a1 = a1  a2 = a2
    A = A
    p1 = p1
    NoTask = NoTask
    NoGroup = NoGroup
    Task = {a1, a2, p1, p2}
    Runners = {}
    QuitTasks = {}
    Clients = {u1, u2}
    PlainTasks = {p1, p2}
    Groups = {A}
    GroupTasks <- OneGroup
    Nested <- NestedA
    MaxBatch = 2
SPECIFICATION Spec
INVARIANTS
    UnfinishedIsCounted
