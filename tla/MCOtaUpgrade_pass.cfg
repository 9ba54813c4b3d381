SPECIFICATION FairSpec
CONSTANTS
  Images = {v1, v2}
  Configs = {c1}
  Factory = v0
  Size = 2
  QueueMax = 1
  MaxPushes = 3
  MaxOthers = 1
  MaxBoots = 1
  OtherReader = TRUE
  None = None
INVARIANTS TypeOK RunningIsIntact
PROPERTIES AcceptedIsTheImage UpgradeEnds
CHECK_DEADLOCK FALSE
