SPECIFICATION FairSpec
CONSTANTS
  Empty = Empty
  Invalid = Invalid
  Channels = {"c1"}
  Modes = {"m1"}
  ToLower <- MCLower
  Emails = {"ann", "bob", "cat"}
  MaxEnclaveMembers = 2
  Namespaces = {"e1"}
  Tentacles = {}
  MaxStatusRv = 0
  Syncers = {"s1"}
  Requests <- AnnHandsOver
  MaxSyncRetries = 2
  MaxSyncs = 1
  SyncFaults = FALSE
  Provisioners = {"p1", "p2"}
  Deprovisioners = {"d1"}
  ProvisionRequests <- MCProvisions
  DeprovisionRequests <- MCDeprovisions
  MaxEnclavesPerOwner = 1
  MaxProvisions = 2
  MaxDeprovisions = 1
  LifecycleFaults = {"api"}
  InitialEnclaves <- NoEnclave
  InitialOwners <- NoTentacle
INVARIANTS NothingHalfProvisioned
PROPERTIES SyncIsAtomic CallsReturn
CHECK_DEADLOCK FALSE
