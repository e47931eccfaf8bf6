SPECIFICATION FairSpec
CONSTANTS
  Empty = Empty
  Invalid = Invalid
  Channels = {"c1"}
  Modes = {"m1"}
  ToLower <- MCLower
  Emails = {"ann", "bob", "cat"}
  MaxEnclaveMembers = 2
  Namespaces = {"e1"}
  Tentacles = {"t1"}
  MaxStatusRv = 1
  Syncers = {"s1", "s2"}
  Requests <- MixedRequests
  MaxSyncRetries = 3
  MaxSyncs = 4
  SyncFaults = TRUE
  Provisioners = {}
  Deprovisioners = {}
  ProvisionRequests = {}
  DeprovisionRequests = {}
  MaxEnclavesPerOwner = 1
  MaxProvisions = 0
  MaxDeprovisions = 0
  LifecycleFaults = {}
  InitialEnclaves <- OneEnclave
  InitialOwners <- BobsTentacle
INVARIANTS TypeOK RetriesArePaidFor QuotaMatchesAnnotation MembersWellFormed
PROPERTIES SyncIsAtomic CallsReturn
CHECK_DEADLOCK FALSE
