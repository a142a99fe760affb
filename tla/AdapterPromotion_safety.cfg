SPECIFICATION FairSpec
CONSTANTS
  r1 = r1
  r2 = r2
  base = base
  other = other
  manifest = manifest
  weights = weights
  tokenizer = tokenizer
  stray = stray
  None = None
  Foreign = Foreign
  Damaged = Damaged
  Manifest = manifest
  Adapters = {base, other}
  AdapterOf <- MCAdapterOf
  Runs = {r1, r2}
  Names = {manifest, weights, tokenizer, stray}
  Managed <- MCManaged
  MayCreate = {r1}
  MayDelete = {r1, r2}
  MaxEdits = 1
  MaxFaults = 1
  MaxCrashes = 1
INVARIANT CheckpointsOutliveVerification
INVARIANT ReportIsTrue
INVARIANT ListedRepoKeepsItsAdapter
PROPERTY EventuallyReported
CHECK_DEADLOCK FALSE
