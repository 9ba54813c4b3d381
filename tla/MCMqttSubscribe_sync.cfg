CONSTANTS
  c1 = c1 c2 = c2
  Callers <- MCCallers
  Yielder = y  NoThread = none
  Filters <- MCExact
  MaxPacketId = 4
  MaxFaults = 1
SPECIFICATION Spec
SYMMETRY CallerSymmetry
INVARIANTS TypeOK WaitedSuccessIsGranted NodesAreOwned
