SPECIFICATION Spec
CONSTANTS
  None = None
  NoDeployment = NoDeployment
  Workflows = {"w1"}
  Schedules = {"s1", "s2", "bad"}
  ValidSchedules = {"s1", "s2"}
  Namespaces = {"n1"}
  NamespaceOf <- OneNamespace
  LabelOf <- OwnLabel
  Handlers = {"h1"}
  Applied = {"s1", "bad"}
  Labelled = {TRUE}
  MaxCalls = 3
  MaxRestarts = 0
  MaxRuns = 0
  Frozenable = {}
  Deprovisioned = {}
  Faults = FALSE
INVARIANTS ValidScheduleIsLive
CHECK_DEADLOCK FALSE
