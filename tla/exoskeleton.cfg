SPECIFICATION Spec
CONSTANTS
  None = None
  Flows = {w1, w2}
  PgRole <- OwnRole
  Contracts <- MCContracts
  Configs <- MCConfigs
  Callers = {h1, h2}
  MaxCalls = 3
  MaxCrashes = 1
  Faults = TRUE
INVARIANTS TypeOK SecretsWork RemovalLeavesNothing
PROPERTIES RegistrationsAreAtomic
SYMMETRY CallerSymmetry
CHECK_DEADLOCK FALSE
