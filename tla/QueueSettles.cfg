SPECIFICATION FairSpec
CONSTANTS
    Exams = {e1, e2}
    Workers = {w1, w2}
    Payloads = {p1}
    Marks = {m1}
    NoExam = NoExam
    NoWorker = NoWorker
    NoPayload = NoPayload
    NoGrade = NoGrade
    Concurrency = 1
    StartsPerMinute = 1
    MaxAttempts = 2
    Lease = 1
    Window = 1
    BaseDelay = 1
    MaxDelay = 1
    CapacityDelay = 1
    PendingDelay = 1
    RecoveryGap = 0
    ClaimLag = 0
    SlowCommit = TRUE
PROPERTY EverySubmissionSettles
