SPECIFICATION Spec
CONSTANTS
    Notebooks = {n1}
    Owner <- OneStudent
    Student = Student
    Workers = {w1, w2, w3}
    NoBook = NoBook
    NoWorker = NoWorker
    Chapters = 2
    Lease = 2
    MaxAttempts = 2
    BaseDelay = 1
    MaxDelay = 3
    CapacityDelay = 2
    RecoveryGap = 1
SYMMETRY Symmetry
INVARIANT IInv
PROPERTIES ProgressKept DeletedStaysDeleted
