SPECIFICATION MCSpec
CONSTANTS
  c1 = c1
  c2 = c2
  i1 = i1
  i2 = i2
  None = None
  Garbled = Garbled
  Sessions = {s1, s2}
  Configs = {c1}
  ShardSize <- MCShardSize
  Codes = {z1, z2}
  Inputs = {i1, i2}
  Limits = {3}
  Answers = {y1, y2}
  MaxRecords = 4
  MaxShards = 2
  MaxFaults = 1
  MaxCrashes = 1
  SoleWriter = TRUE
  LiveEdits = FALSE
  RecordIds = {"a", "b", "c", "d"}
  Records <- MCRecords
  Tasks <- MCCorpusTasks
  Sizes = {2}
  Policies = {"v2", "v3"}
  Completions <- MCCompletions
  Rewrites <- MCRewrites
  Held = {3}
  Window = 12
  Reserve = 2
  Ceiling = 6
  MinStop = 90
  MinFit = 80
  MaxRuns = 2
  FinalCorpora <- MCCorpora
  Pinned = "pinned"
  Expected = 4
  MinAssertions = 2
  Responses <- MCResponses
INVARIANT TypeOK
INVARIANT CorpusIsBound
INVARIANT StudentSeesTheTaskOnly
INVARIANT CensusIsSound
PROPERTY LedgerSpec
SYMMETRY Symmetry
PROPERTY CorruptionIsNotOverwritten
CHECK_DEADLOCK FALSE
