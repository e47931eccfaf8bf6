SPECIFICATION Spec
CONSTANTS
  Empty = Empty
  Invalid = Invalid
  Emails = {"ann", "bob", "cat"}
  ToLower <- MCLower
  Channels = {"c1"}
  Modes <- MCModes
  MaxEnclaveMembers = 2
  Namespaces = {"e1"}
  Tentacles = {"t1", "t2"}
  MaxStatusRv = 0
  Syncers = {"s1"}
  Requests <- MCSyncs
  MaxSyncRetries = 2
  MaxSyncs = 1
  SyncFaults = FALSE
  Enabled = TRUE
  Kinds = {"configmap"}
  Contents = {"v1", "v2"}
  Callers = {h1, h2}
  ApplyRequests <- MCApply
  OtherRequests <- MCOther
  MaxCalls = 2
  Deprovisioned = {"e1"}
  CallFaults = TRUE
  Initial <- MCInitial
INVARIANTS TentaclesTypeOK ReleasesConverge
PROPERTIES FrozenEnclavesRest UpdatesKeepOwnership
SYMMETRY CallerSymmetry
CHECK_DEADLOCK FALSE
