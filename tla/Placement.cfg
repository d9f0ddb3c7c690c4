SPECIFICATION Spec
CONSTANTS
  Desks = {d1, d2}

  Campuses = {o1, o2}
  Home = o1
  NoCampus = NoCampus
  Contents = {c1, c2}
  NoContent = NoContent
  Deadlines = {t1}
  NoDeadline = NoDeadline
  Candidates <- SomeCandidates
  MaxJobRequests = 3

  Openings = {a1, a2}
  Internships = {a1}
  Pay <- PayScale
  Policies <- SomePolicies
  Letters = {c1, c2}
  NoLetter = NoLetter
  MaxOfferRequests = 4

  Demos = {demo}
  AssessmentOnly = {}
  Tabs = {d1, d2}
  Trial = 1
  Month = 1
  LastDay = 1
  MaxExams = 2
  MaxRoadmaps = 1

  KeyLimit = 2
  Models = 2
  GeminiModels = 2
  GatewayModels = 2
  MinMatched = 3
  MinSkills = 3
  Timelines <- Asked

  Situations <- SomeSituations
  MaxActionRequests = 3

  DefaultStages = {applied, joined}
  OwnStages = {s1}
  NoDesk = NoDesk
  Horizon = 2
  MaxCampusRequests = 3
CHECK_DEADLOCK FALSE
SYMMETRY Symm
INVARIANT TrialGivesOne EveryProviderInTurn CampusRecordsHold
PROPERTY CampusInControl OffersAgree ListFollowsRecord
