SPECIFICATION FairSpec
CONSTANTS
    c1 = c1
    l1 = l1
    l2 = l2
    CourseOf <- InOneCourse
    Position <- InOrder
    NoItem = NoItem
    NoWorker = NoWorker
    NoScript = NoScript
    Courses = {c1}
    Lessons = {l1, l2}
    Legacy = {}
    Workers = {w1}
    Scripts = {s1}
    Lease = 1
    Failures = 2
    Total = 3
    BaseDelay = 1
    CapacityDelays = {1}
    VideoSize = 2
    NarrationSize = 3
    Budget = 5
    DailyParts = 1
    RepairParts = 1
    RequestParts = 2
    RecoveryGap = 0
INVARIANT StorageCap
PROPERTY EveryPartSettles
