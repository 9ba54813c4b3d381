SPECIFICATION FairSpec
CONSTANTS
  Notifiers = {n1, n2}
  Phones = {p1}
  Observing = {p1}
  PhoneIds = {5}
  MaxId = 5
  MaxCount = 2
  Retries = 1
  MaxSends = 3
  None = None
PROPERTIES DeinitEnds
CHECK_DEADLOCK FALSE
