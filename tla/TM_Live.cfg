CONSTANTS
    a1 = a1  a2 = a2  b1 = b1  b2 = b2  c1 = c1  c2 = c2
    A = A  B = B  C = C
    p1 = p1  p2 = p2  q1 = q1  q2 = q2
    r1 = r1  r2 = r2  u1 = u1  u2 = u2
    NoTask = NoTask
    NoGroup = NoGroup
SPECIFICATION Spec
INVARIANTS
    UnfinishedIsCounted
PROPERTIES
    CancelReachesRunning
    GroupCallReturns
    SubmittedTaskRuns
    WaiterWakes
    DestructorReturns
