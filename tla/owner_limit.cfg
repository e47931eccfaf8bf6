SPECIFICATION Spec
CONSTANTS
  Empty = Empty
  Invalid = Invalid
  Channels = {"c1"}
  Modes = {"m1"}
  ToLower <- MCLower
  Emails = {"ann", "bob", "Bob", "cat"}
  MaxEnclaveMembers = 2
  Namespaces = {e1, e2, e3}
  Tentacles = {}
  MaxStatusRv = 0
  Syncers = {}
  Requests = {}
  MaxSyncRetries = 3
  MaxSyncs = 0
  SyncFaults = FALSE
  Provisioners = {p1, p2}
  Deprovisioners = {"d1"}
  ProvisionRequests <- BobsProvisions
  DeprovisionRequests <- BobsDeprovisions
  MaxEnclavesPerOwner = 1
  MaxProvisions = 3
  MaxDeprovisions = 1
  LifecycleFaults = {"api", "rollback"}
  InitialEnclaves <- NoEnclave
  InitialOwners <- NoTentacle
INVARIANTS OwnerLimit
SYMMETRY LimitSymmetry
CHECK_DEADLOCK FALSE
