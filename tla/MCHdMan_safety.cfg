CONSTANTS
  SessionId = {s1, s2}
  NoSession = NoSession
  ChildId = {c1}
  Tag = {t1}
  MaxSpawn = 2
  MaxReq = 2
  MaxCreate = 2
  ReuseIds = FALSE
  Pipelines <- MCPipelines
SPECIFICATION FairSpec
INVARIANT HandleAccounting
INVARIANT ConfiguredOnlyAfterRun
INVARIANT TrailFaithful
PROPERTY ImplementsPipeline
PROPERTY ExitedChildEventuallyRemoved
CHECK_DEADLOCK FALSE
