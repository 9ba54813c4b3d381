\* Three QoS 1 messages but two packet identifiers: the counter wraps; a list of two nodes.
CONSTANTS
  p1 = p1  p2 = p2
  m1 = m1  m2 = m2  m3 = m3
  NoMsg = NoMsg
  Publishers <- MCPublishers2
  Msgs <- MCMsgs3
  Qos1Msgs <- MCMsgs3
  IOTX_MC_PACKET_ID_MAX = 2
  IOTX_MC_REPUB_NUM_MAX = 2
  IOTX_MC_KEEPALIVE_PROBE_MAX = 1
  IOTX_MC_RECONNECT_INTERVAL_MIN_MS = 2
  IOTX_MC_RECONNECT_INTERVAL_MAX_MS = 5
  MaxFaults = 1
  MaxInFlight = 1
SPECIFICATION Spec
SYMMETRY ThreadSymmetry
INVARIANTS
  TypeOK ReuseTakesAWrap PendingWithinLimit
