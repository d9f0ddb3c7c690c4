SPECIFICATION Spec
CONSTANTS
    Notebooks = {n1}
    Owner <- OneStudent
    Student = Student
    Workers = {w1}
    NoBook = NoBook
    NoWorker = NoWorker
    Chapters = 1
    Lease = 1
    MaxAttempts = 1
    BaseDelay = 1
    MaxDelay = 1
    CapacityDelay = 1
    RecoveryGap = 0
INVARIANT OutlineFirst
