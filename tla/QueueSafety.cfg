SPECIFICATION Spec
CONSTANTS
    Exams = {e1}
    Workers = {w1, w2, w3}
    Payloads = {p1, p2}
    Marks = {m1, m2}
    NoExam = NoExam
    NoWorker = NoWorker
    NoPayload = NoPayload
    NoGrade = NoGrade
    Concurrency = 1
    StartsPerMinute = 2
    MaxAttempts = 3
    Lease = 2
    Window = 1
    BaseDelay = 1
    MaxDelay = 1
    CapacityDelay = 2
    PendingDelay = 1
    RecoveryGap = 1
    ClaimLag = 1
    SlowCommit = TRUE
SYMMETRY SlotSymmetry
INVARIANTS IInv GradedAsSubmitted CompleteHasScore NoRegrading
PROPERTIES ScoreFinal KeepsPromise
