CONSTANTS
  SessionId = {s1, s2}
  NoSession = NoSession
  ChildId = {c1}
  Tag = {t1}
  MaxSpawn = 2
  MaxReq = 2
  MaxCreate = 2
  ReuseIds = FALSE
  Pipelines <- MCPipelines
SPECIFICATION Spec
CHECK_DEADLOCK FALSE
INVARIANT IdleRunningHasProcesses
