SPECIFICATION MCSpec
CONSTANTS
  c1 = c1
  c2 = c2
  Damaged = Damaged
  leader = leader
  child = child
  Leader = leader
  Children = {child}
  ChildStreams <- OneStream
  Kinds = {"oci", "direct"}
  Capacity = 2
  Chunk = 2
  Limit = 3
  MaxOutput = 5
  MaxFaults = 1
  None = None
  Raised = Raised
  Problems <- MCProblems
  Tests = 2
  Rows <- MCRows
  Drifts <- MCDrifts
  Cases = {c1, c2}
  Kind <- MCKind
  BasePasses <- MCBasePasses
  BaseRight = {c1}
  Gain = 20
  MinGeneral = 1
  MaxRegressions = 0
  Tasks <- MCTasks
  SuiteOf <- MCSuite
  Commits = {"good", "loose", "lax", "other"}
  Tree <- MCTree
  Canonical = "canonical"
  Skills <- MCSkills
  FrozenSolved <- MCFrozen
  BaseDirs <- MCBases
  Fixed <- MCFixed
  MaxSessions = 2
  MaxCopies = 4
  MaxDamages = 1
  MaxScorings = 2
INVARIANT ResultIsTrue
INVARIANT VerdictIsTrue
INVARIANT PromotionIsEarned
INVARIANT DecisionIsAboutTheTeacher
PROPERTY RunEndsUnlessHeld
CHECK_DEADLOCK FALSE
