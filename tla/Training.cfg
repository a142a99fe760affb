SPECIFICATION MCSpec
CONSTANTS
  Prompts = {"p", "q", "r", "he"}
  Answers = {"x", "y", "bad", "long", "open", "poor"}
  Keys = {"k1", "k2", "k3", "k4"}
  LowQuality = {"poor"}
  Malformed = {"bad"}
  Long = {"long"}
  Thinking = {"open"}
  ProtectedPrompts = {"he"}
  ProtectedAnswers = {}
  Configs = {"c1", "c2"}
  Seed <- MCSeed
  Shuffle <- MCShuffle
  Num = 1
  Den = 4
  None = None
  Corpora <- MCCorpora
  Finalizers = {f1}
  Sessions = {s1, s2}
  Jobs <- MCJobs
  Dirs = {"d1", "d2"}
  Frozen <- MCFrozen
  Snapshots = 2
  MaxWrites = 2
  Libraries = {"old", "new"}
  Revisions = {"r1", "r2"}
  Linears <- MCLinears
  Templates <- MCTemplates
  LoraJobs <- MCLoraJobs
  FrozenTargets <- MCFrozenProfile
  TargetFiles <- MCProfiles
  Canonical = "r1"
  Expected = "python"
  Effect <- MCEffect
  Drifts <- MCDrifts
  MaxUpgrades = 1
  MaxReplaced = 2
  P0Prompts = {"p", "q", "r", "s"}
  P0Answers = {"x", "y", "z", "odd", "bad", "long"}
  RowIds = {1, 2, 3, 4, 5, 6, 9}
  Sources <- MCSources
  Goal <- MCGoal
  Worlds <- MCWorlds
  P0Malformed = {"bad"}
  P0Long = {"long"}
  Commits = {"sha1", "sha2"}
  Invalid <- MCInvalid
  P0Order <- MCOrder
  P0Num = 1
  P0Den = 4
  Builders = {b1, b2}
  MaxBuilds = 2
  MaxCheckouts = 1
SYMMETRY MCSymmetry
INVARIANT SplitIsSound
INVARIANT TrainedAsNamed
INVARIANT DirectoryIsOneRun
INVARIANT ReportIsTrue
INVARIANT LandsWhereTrained
INVARIANT ReportIsOfTheAdapter
INVARIANT CorpusIsExact
CHECK_DEADLOCK FALSE
