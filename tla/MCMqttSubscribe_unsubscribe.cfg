CONSTANTS
  c1 = c1 c2 = c2
  Callers <- MCCallers
  Yielder = y  NoThread = none
  Filters <- MCWildcard
  MaxPacketId = 3
  MaxFaults = 0
SPECIFICATION Spec
PROPERTY UnsubscribeFindsHandler
