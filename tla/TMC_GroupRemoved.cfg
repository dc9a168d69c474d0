CONSTANTS
    a1 = a1  a2 = a2
    A = A
    NoTask = NoTask
    NoGroup = NoGroup
    Task = {a1, a2, q1}
    Runners = {r1}
    QuitTasks = {q1}
    Clients = {u1}
    PlainTasks = {}
    Groups = {A}
    GroupTasks <- OneGroup
    Nested <- NoNesting
    MaxBatch = 1
SPECIFICATION CancelSpec
INVARIANTS
    UnfinishedNotNegative
