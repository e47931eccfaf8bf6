SPECIFICATION Spec
CONSTANTS
  None = None
  NoDeployment = NoDeployment
  Workflows = {"w1", "w2"}
  Schedules = {"s1", "s2", "bad"}
  ValidSchedules = {"s1", "s2"}
  Namespaces = {"n1"}
  NamespaceOf <- OneNamespace
  LabelOf <- SharedLabel
  Handlers = {"h1", "h2"}
  Applied = {"s1", "s2", "bad", NoDeployment}
  Labelled = {TRUE}
  MaxCalls = 3
  MaxRestarts = 1
  MaxRuns = 0
  Frozenable = {}
  Deprovisioned = {"n1"}
  Faults = TRUE
INVARIANTS TypeOK JobsAreEntries
CHECK_DEADLOCK FALSE
