SPECIFICATION Spec
CONSTANTS
    Exams = {e1, e2}
    Workers = {w1, w2}
    Payloads = {p1}
    Marks = {m1}
    NoExam = NoExam
    NoWorker = NoWorker
    NoPayload = NoPayload
    NoGrade = NoGrade
    Concurrency = 1
    StartsPerMinute = 2
    MaxAttempts = 2
    Lease = 2
    Window = 1
    BaseDelay = 1
    MaxDelay = 1
    CapacityDelay = 1
    PendingDelay = 1
    RecoveryGap = 0
    ClaimLag = 1
    SlowCommit = FALSE
SYMMETRY Symmetry
INVARIANT LeaseCap
