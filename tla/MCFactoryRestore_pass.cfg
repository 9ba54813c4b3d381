CONSTANTS
  home = home cafe = cafe secret = secret
  Ssids <- MCSsids
  Password <- MCPassword
  None = none
  MaxTimes = 2
  MaxPowerCuts = 6
  MaxSwitches = 1
  MaxLosses = 2
SPECIFICATION FairSpec
INVARIANTS TypeOK ErasedIsReported EraseNeedsQuickReboots
PROPERTY ResetIsReported
CHECK_DEADLOCK FALSE
