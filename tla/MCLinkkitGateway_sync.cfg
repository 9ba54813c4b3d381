SPECIFICATION FairSpec
CONSTANTS
  Callers = {c1}
  Dispatcher = d
  Devs = {s1}
  Provisioned = {}
  MaxId = 2
  MaxSets = 1
  CacheMax = 1
  IpcMax = 1
  None = None
INVARIANTS TypeOK SuccessIsGranted PostIsOnLive CacheBounded
PROPERTIES CallsReturn CacheDrains
CHECK_DEADLOCK FALSE
