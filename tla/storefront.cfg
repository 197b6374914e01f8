SPECIFICATION FairSpec
CONSTANTS
  Tabs = {t1, t2}
  MaxTokens = 3
  MaxCuts = 1
  NoToken = NoToken
  NoTab = NoTab
INVARIANTS TypeOK LogoutEndsSession NoTabReplaysToken
PROPERTIES StartupEnds
CHECK_DEADLOCK FALSE
