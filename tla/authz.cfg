SPECIFICATION Spec
CONSTANTS
  Empty = Empty
  Invalid = Invalid
  Emails = {"ann", "Ann", "bob", "Bob", "cat"}
  ToLower <- MCLower
  Channels = {"c1"}
  Modes <- EnclaveModes
  MaxEnclaveMembers = 2
  Home = "e1"
  Clusters <- MCClusters
  TentacleOwners = {"Bob", "cat", Empty}
  TentacleModes <- MCTentacleModes
  Callers <- MCCallers
INVARIANTS CaseBlind ListedIffDescribed ListAgreesWithInfo ModesRoundTrip
CHECK_DEADLOCK FALSE
