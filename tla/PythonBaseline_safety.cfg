SPECIFICATION FairSpec
CONSTANTS
  h1 = h1
  h2 = h2
  h3 = h3
  k1 = k1
  k2 = k2
  Suites <- MCSuites
  Items <- MCItems
  Coding = {1}
  Commits = {h1, h2, h3}
  Contract <- MCContract
  Answers = {a1, a2}
  MaxChanges = 1
  MaxErrors = 1
  MaxCrashes = 1
  None = None
  Torn = Torn
INVARIANT FrozenIsOneRun
PROPERTY FrozenIsFinal
PROPERTY EventuallyFrozen
