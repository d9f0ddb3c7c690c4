SPECIFICATION Spec
CONSTANTS
    Sections <- ShortBlueprint
    Quota <- ShortQuota
    Objective = {"technical"}
    Audio = {"resume"}
    Bank <- ShortBank
    Pool <- ShortPool
    Replies <- SomeReplies
    Counts = {2}
    Lookback = 2
    HistoryLimit = 5
    Cases = {c1, c2}
    Attempts = {w1, w2}
    NoAttempt = NoAttempt
    MaxPosts = 2
    Papers <- SomePapers
    StandardSize = 4
    BatchSize = 2
    Clips <- SomeClips
    Runs <- SomeRuns
    Opinions <- SomeOpinions
    Signals <- SomeSignals
    Browser <- SomeLists
    Cap = 3
    MaxSignals = 4
    Outline = 2
    Events = {c1, c2}
    NoEvent = NoEvent
    Zones = {z1, z2}
    Local = z1
    Ahead <- ZoneShift
    Unit = 10
    DayLength = 3
    Pulse = 2
    Duration = 1
    PlanIds = {p1}
    MaxPlans = 2
    LastSecond = 3
\* An exam that is graded, and a report that is full, stay as they are.
CHECK_DEADLOCK FALSE
SYMMETRY Symm
INVARIANT PapersAreFit ScoreIsEarned EvidenceCounts StudyIsReal
PROPERTY ExecutedOnce
