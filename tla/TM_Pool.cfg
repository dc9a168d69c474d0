CONSTANTS
    a1 = a1  a2 = a2
    A = A
    p1 = p1
    NoTask = NoTask
    NoGroup = NoGroup
    Task = {a1, a2, p1, p2, q1, q2}
    Runners = {r1, r2}
    QuitTasks = {q1, q2}
    Clients = {u1}
    PlainTasks = {p1, p2}
    Groups = {A}
    GroupTasks <- OneGroup
    Nested <- NoNesting
    MaxBatch = 2
SPECIFICATION Spec
INVARIANTS
    TypeOK
    LinksConsistent
    RunOncePerSubmission
    GroupCountIsOwed
    GroupCompleteOnReturn
    WaitCoversTasks
    DestroyedAfterAllTasks
    NoWakeupLost
    NeverStuck
PROPERTIES
    ImplementsFifo
    ImplementsPool
