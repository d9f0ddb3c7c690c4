SPECIFICATION Spec
CONSTANTS
    c1 = c1
    l1 = l1
    l2 = l2
    CourseOf <- InOneCourse
    Position <- InOrder
    NoItem = NoItem
    NoWorker = NoWorker
    NoScript = NoScript
    Courses = {c1}
    Lessons = {l1}
    Legacy = {l1}
    Workers = {w1, w2, w3}
    Scripts = {s1, s2}
    Lease = 2
    Failures = 3
    Total = 4
    BaseDelay = 0
    CapacityDelays = {0}
    VideoSize = 2
    NarrationSize = 1
    Budget = 6
    DailyParts = 1
    RepairParts = 1
    RequestParts = 2
    RecoveryGap = 0
SYMMETRY Symmetry
INVARIANT IInv
PROPERTY PassedStays
