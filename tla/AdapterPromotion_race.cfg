SPECIFICATION Spec
CONSTANTS
  r1 = r1
  r2 = r2
  base = base
  other = other
  manifest = manifest
  weights = weights
  tokenizer = tokenizer
  stray = stray
  None = None
  Foreign = Foreign
  Damaged = Damaged
  Manifest = manifest
  Adapters = {base, other}
  AdapterOf <- MCAdapterOf
  Runs = {r1, r2}
  Names = {manifest, weights, tokenizer, stray}
  Managed <- MCSameManaged
  MayCreate = {r1}
  MayDelete = {}
  MaxEdits = 0
  MaxFaults = 0
  MaxCrashes = 0
INVARIANT NeverOverwritesSilently
CHECK_DEADLOCK FALSE
