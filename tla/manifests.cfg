SPECIFICATION Spec
CONSTANTS
  MaxIdentLen = 7
  SuffixLen = 3
  Submissions <- MCSubmissions
  Configs <- MCConfigs
  Urls <- MCUrls
  Text <- MCText
  Levels = {"privileged", "restricted"}
  MaxApplies = 2
  None = None
INVARIANTS RegisteredIsReachable CollectorReachable NothingElseOpened MountsWork RefusedOnlyForOwnValues NamesKeepApart
CHECK_DEADLOCK FALSE
