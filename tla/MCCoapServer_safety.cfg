SPECIFICATION Spec
CONSTANTS
  Notifiers = {n1, n2}
  Phones = {p1}
  Observing = {p1}
  PhoneIds = {1}
  MaxId = 2
  MaxCount = 2
  Retries = 1
  MaxSends = 4
  None = None
SYMMETRY Symmetry
INVARIANTS TypeOK KeptIsRemembered CountIsLength HandledOnce
CHECK_DEADLOCK FALSE
