SPECIFICATION FairSpec
CONSTANTS
  v1 = v1
  v2 = v2
  v3 = v3
  None = None
  Garbled = Garbled
  Sessions = {s1}
  Configs = {c1, c2}
  Codes = {z1, z2}
  Sources = {v1, v2, v3}
  SourceRecords = {"a", "b", "c", "d", "e", "x"}
  Records <- MCRecords
  Stopped = {"a", "b", "d", "e", "x"}
  Long = {"b", "c", "d", "e", "x"}
  Wordy = {"b", "c", "d", "e"}
  Answers = {"y1", "y2", "y3"}
  ClearStop = {"y1", "y2"}
  Short = {"y1", "y3"}
  Brief = {"y1"}
  ShardSize = 2
  MaxRecords = 5
  MaxFaults = 1
  MaxCrashes = 1
  LiveEdits = FALSE
INVARIANT MergedIsBound
PROPERTY CompressionLedger
PROPERTY EventuallyDelivered
CHECK_DEADLOCK FALSE
