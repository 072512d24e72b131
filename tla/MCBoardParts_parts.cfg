\* Eight parts of the system, each on its own instance.
SPECIFICATION PartsSpec
CONSTANTS
  Owners = {o1, o2}
  MAX_HISTORY = 2
  MAX_FINISHED = 2
  MaxRuns = 4
  MaxBoots = 3
  NoRecord = NoRecord
  n1 = n1
  n2 = n2
  n3 = n3
  Nodes <- ThreeNodes
  Stranger = s
  MaxDepends = 2
  c1 = c1
  c2 = c2
  Cards <- TwoCards
  Briefed = {c1}
  Slugs = {s1, s2}
  MaxBriefs = 2
  MaxFiles = 2
  NoFiling = NoFiling
  NoFlight = NoFlight
  Floor = 2
  Off = Off
  Servers = {q1, q2}
  Other = Other
  LastPort = 2
  NoPort = NoPort
  Hosts = {h1, h2}
  Doors = {d1, d2}
  Nobody = Nobody
  MaxCommands = 2
  MaxTasks = 3
  MaxText = 1
  PromptRepair = TRUE
SYMMETRY Symmetry
INVARIANTS CompleteUnlessLost LossCountedOncePerBoard CostOfClosedRuns
           CyclesAreFound ValidateIsClean QuietFindingIsRight
           OwnAddressesAreKept TraceTellsThePort
           ExitTellsWhatHappened GivesUpOnTimeOnly
           NoneLostNoneReissued ReadersMissOnlyArchived
PROPERTIES ProseSurvives NoCycleIsMade
           AcceptedAsMerged RemovedAsMerged ArchiveIsFinal RefinesLedger
CHECK_DEADLOCK FALSE
