\* Every filter and every topic of a few characters; packets around the limit of the buffer.
CONSTANTS
  Connections <- MCConnections
  Radix = 4
  MaxLengthBytes = 3
  MQTT_DYNBUF_RECV_MARGIN = 4
  ReadMax = 10
  CONFIG_MQTT_TOPIC_MAXLEN = 5
SPECIFICATION Spec
CHECK_DEADLOCK FALSE
INVARIANTS
  TypeOK HandledAsSent DeliveredIsCovered CoveredIsDelivered
