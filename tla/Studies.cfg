SPECIFICATION MCSpec
CONSTANTS
  Candidates <- MCCandidates
  Trainings <- MCTrainings
  Pinned <- MCPinned
  Tasks <- MCStudyTasks
  Suite <- MCStudySuite
  Solves <- MCSolves
  Floor <- MCFloor
  MinCombined = 2
  Earned <- MCEarned
  Policy <- MCPolicy
  MinPolicy = 4
  Commits = {"sha1", "sha2"}
  MaxLaunches <- MCMaxLaunches
  MaxCheckouts <- MCMaxCheckouts
  None = None
  Items <- MCControlItems
  Coding = {"c1"}
  BaseSolved = {"c1"}
  Hosts <- MCHosts
  Touches <- MCTouches
  Alters <- MCFlips
  Protocol <- MCProtocol
  Code <- MCCode
  Parent <- MCParent
  Canonical = "canonical"
  MaxChanges = 2
  MaxCaptures = 2
  CaseList <- MCCases
  Category <- MCCategory
  Texts <- MCTexts
  Passing <- MCPassing
  BaseRows <- MCBaseRows
  GenContract <- MCGenContract
  Processes = {1, 2}
  MaxCommands <- MCMaxCommands
  MaxTrees = 1
  Smokes <- MCSmokes
  Assessed = {1, 2, 3, 4, 5, 6, 7, 8, 9, 10}
  Pairs <- MCPairs
  Comparisons = {1, 4}
  AlphaNum = 1
  AlphaDen = 20
  Series <- MCSeries
  Few = {1, 2}
  Forensics <- MCForensics
INVARIANT OnlyTheNamedAdapterAnswers
INVARIANT ScoreIsTrue
INVARIANT SelectionIsOneTraining
PROPERTY VerifiedEvidenceStays
INVARIANT CertificatesExcludeDrift
INVARIANT ComparisonIsTrue
INVARIANT ConclusionsAreSound
CHECK_DEADLOCK FALSE
