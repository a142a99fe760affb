SPECIFICATION FairSpec
CONSTANTS
  leader = leader
  child = child
  Leader = leader
  Children = {child}
  ChildStreams <- OneStream
  Kinds = {"direct"}
  Capacity = 2
  Chunk = 2
  Limit = 3
  MaxOutput = 1
  MaxFaults = 0
  None = None
  Raised = Raised
PROPERTY RunEnds
CHECK_DEADLOCK FALSE
