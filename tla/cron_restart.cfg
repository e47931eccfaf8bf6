SPECIFICATION FairSpec
CONSTANTS
  None = None
  NoDeployment = NoDeployment
  Workflows = {"w1"}
  Schedules = {"s1", "s2", "bad"}
  ValidSchedules = {"s1", "s2"}
  Namespaces = {"n1"}
  NamespaceOf <- OneNamespace
  LabelOf <- OwnLabel
  Handlers = {"h1", "h2"}
  Applied = {"s1", "s2", None}
  Labelled = {TRUE, FALSE}
  MaxCalls = 3
  MaxRestarts = 1
  MaxRuns = 1
  Frozenable = {"n1"}
  Deprovisioned = {}
  Faults = FALSE
INVARIANTS InSyncUnlessOverlapped
PROPERTIES SchedulesRestored ShutdownCompletes
CHECK_DEADLOCK FALSE
