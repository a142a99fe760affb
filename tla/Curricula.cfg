SPECIFICATION MCSpec
CONSTANTS
  x = x
  y = y
  e1 = e1
  e2 = e2
  t = t
  u = u
  v = v
  w = w
  Environments <- MCEnvironments
  Truths <- MCTruths
  Targets <- MCTargets
  Benchmarks <- MCBenchmarks
  Examples <- MCExamples
  FewShots <- MCFewShots
  Producers <- MCProducers
  Reserved <- MCReserved
  Similar <- MCSimilar
  MaxReserved = 2
  MaxReports = 1
  MaxAudits = 2
  MaxAdmitted = 1
  Tokens = {x, y}
  Initials <- MCInitials
  Emissions <- MCEmissions
  Deltas <- MCDeltas
  MaxTurns = 3
  MaxDamages = 1
  Width <- MCWidth
  Contracts <- MCContracts
  Offers <- MCOffers
  Outputs <- MCTexts
  Exits <- MCExits
  Unclean = {"nul"}
  Graded = {"g"}
  Blank = {" "}
  Templates <- MCTemplates
  Conversations <- MCConversations
  Probe <- MCProbe
  Plans <- MCPlans
  Hosts <- MCHosts
  Profile <- MCProfile
  None = None
SYMMETRY Symmetry
INVARIANT ExchangeSurvives
INVARIANT TrainingSignalIsSound
INVARIANT AdmittedEnvironmentsWork
INVARIANT RolesAreDisjoint
CHECK_DEADLOCK FALSE
