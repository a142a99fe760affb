SPECIFICATION Spec
CONSTANTS
  c1 = c1
  c2 = c2
  i1 = i1
  i2 = i2
  None = None
  Garbled = Garbled
  Sessions = {s1, s2}
  Configs = {c1, c2}
  ShardSize <- MCShardSize
  Codes = {z1}
  Inputs = {i1}
  Limits = {9}
  Answers = {y1}
  MaxRecords = 1
  MaxShards = 1
  MaxFaults = 0
  MaxCrashes = 0
  SoleWriter = FALSE
  LiveEdits = FALSE
  RecordIds = {"a", "b", "c", "d"}
  Records <- MCOneRecord
INVARIANT CorpusIsBound
