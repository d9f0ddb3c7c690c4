SPECIFICATION ServicesSpec
CONSTANTS
  Requests = {d1, d2}
  Bodies = {b1, b2}
  NoBody = NoBody
  Marks = {m1, m2}
  NoScore = NoScore
  NoRequest = NoRequest
  Clips = 2
  Parts = 1
  EvaluationLease = 2
  AnalysisLease = 1
  MailPause = 1
  MaxMails = 2
  Horizon = 4

  small = small
  Spoken = {b1, b2}
  Filmed = 2
  Film = Film
  Formats = {webm}
  NoFormat = NoFormat
  NothingHandedIn = NothingHandedIn
  Data = {small, large}
  Size <- Sizes
  Starters = {starter}
  QuestionTime = 2
  AnswerTime <- ClipTimes
  ExamTime = 2
  Grace = 1
  Fresh = 2
  Retention = 4
  MaxChunks = 2
  ClipBytes = 1
  MaxBytes = 2
  LastMoment = 4

  Desks = {d1, d2}
  Values = {m1, m2}
  NoValue = NoValue
  Rows = {q1, q2}
  Texts = {b1, b2}
  NoText = NoText
  Targets = {g1, g2}
  NoTarget = NoTarget
  MaxResumes = 2
  MaxRecordRequests = 3

  AccessRows = {a1, a2}
  Links = {l1, l2, l3}
  NoLink = NoLink
  MaxAccessRequests = 4

  Callers = {d1, d2}
  Limit = 2
  WindowLength = 2
  BlockLength = 1
  MaxWait = 2
  LastTick = 5

  Films <- SomeFilms
  Transcripts <- SomeTranscripts
  Questions = 2
  LastSpoken = 4
  MaxRuns = 2

  Copies = {f1, f2, f3}
  NoCopy = NoCopy
  MaxPolls = 2

  Contexts = {d1, d2}
  Deployments <- SomeDeployments
  MaxCalls = 2
CHECK_DEADLOCK FALSE
SYMMETRY Interchangeable
INVARIANT GradedOnSubmission MailedOnce ProvisionedIsReal BudgetKept
INVARIANT ProvidersInTurn
PROPERTY MediaAccounted EvaluationFenced RecordsAgree CaptureStands EvidenceStands
