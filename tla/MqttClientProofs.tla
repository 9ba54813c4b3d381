--------------------------- MODULE MqttClientProofs ---------------------------
(* Theorems about MqttClient, for every value of its constants.            *)
EXTENDS MqttClient, TLAPS

\* What the type invariant needs beside itself: a thread that is about to send
\* carries a message, with an identifier if its QoS is 1, and what travels to the
\* broker is a CONNECT, a PINGREQ or a PUBLISH.
SenderOK ==
  \A t \in Publishers : pub[t].pc = "send" =>
    /\ pub[t].msg \in Msgs
    /\ pub[t].msg \in Qos1Msgs => pub[t].id # 0
ToBrokerOK ==
  \A i \in DOMAIN c2s :
    \/ c2s[i].type \in {"CONNECT", "PINGREQ"}
    \/ c2s[i].type = "PUBLISH" /\ c2s[i].msg \in Msgs
TypeInv == TypeOK /\ SenderOK /\ ToBrokerOK

LEMMA NextPacketIdType ==
  ASSUME packet_id \in 0..IOTX_MC_PACKET_ID_MAX
  PROVE  NextPacketId \in 1..IOTX_MC_PACKET_ID_MAX
BY ClientAssumption DEF ClientAssumption, NextPacketId

LEMMA InitType == Init => TypeInv
<1> SUFFICES ASSUME Init PROVE TypeInv
  OBVIOUS
<1>1. Idle \in PublisherState /\ Idle.pc = "idle"
  BY ClientAssumption DEF ClientAssumption, Idle, PublisherState
<1>2. pub \in [Publishers -> PublisherState] /\ SenderOK
  BY <1>1 DEF Init, SenderOK
<1>3. /\ c2s \in Seq(Packet) /\ s2c \in Seq(Packet)
      /\ ToBrokerOK
  BY DEF Init, ToBrokerOK
<1>4. list_pub_wait_ack \subseteq Node
  BY DEF Init
<1>5. /\ ping_timer \in {"running", "expired"} /\ reconnect_timer \in {"running", "expired"}
      /\ session \in {"none", "open"} /\ event \in {"RECONNECT", "DISCONNECT"}
      /\ reused \in BOOLEAN
  BY DEF Init
<1>6. /\ packet_id \in 0..IOTX_MC_PACKET_ID_MAX
      /\ keepalive_probes \in Nat /\ interval \in Nat /\ wait \in Nat
      /\ issued \in Nat /\ faults \in Nat
  BY ClientAssumption DEF ClientAssumption, Init
<1>7. /\ client_state \in States
      /\ yield \in {"keepalive", "state", "connect", "connack", "connected", "cycle", "proc"}
      /\ sock \in {"up", "dead", "broken", "closed"}
      /\ accepted \subseteq Msgs /\ refused \subseteq Msgs /\ received \subseteq Msgs
  BY DEF Init, States
<1>8. QED
  BY <1>2, <1>3, <1>4, <1>5, <1>6, <1>7 DEF TypeInv, TypeOK

LEMMA SeqAppend ==
  ASSUME NEW S, NEW s \in Seq(S), NEW e \in S
  PROVE  /\ Append(s, e) \in Seq(S)
         /\ \A i \in DOMAIN Append(s, e) : (i \in DOMAIN s /\ Append(s, e)[i] = s[i]) \/ Append(s, e)[i] = e
OBVIOUS

LEMMA SeqTail ==
  ASSUME NEW S, NEW s \in Seq(S), s # << >>
  PROVE  /\ Tail(s) \in Seq(S)
         /\ Head(s) \in S
         /\ 1 \in DOMAIN s /\ Head(s) = s[1]
         /\ \A i \in DOMAIN Tail(s) : i + 1 \in DOMAIN s /\ Tail(s)[i] = s[i + 1]
OBVIOUS

LEMMA PacketType ==
  /\ \A type \in {"CONNECT", "PINGREQ", "CONNACK", "PINGRESP"} :
       Control(type) \in Packet /\ Control(type).type = type
  /\ \A id \in 0..IOTX_MC_PACKET_ID_MAX : Puback(id) \in Packet /\ Puback(id).type = "PUBACK"
  /\ \A id \in 0..IOTX_MC_PACKET_ID_MAX, m \in Msgs :
       /\ Publish(id, m) \in Packet
       /\ Publish(id, m).type = "PUBLISH" /\ Publish(id, m).msg = m
BY ClientAssumption DEF ClientAssumption, Packet, Control, Puback, Publish

\* A write keeps the packets to the broker well formed.
LEMMA WriteType ==
  ASSUME c2s \in Seq(Packet), ToBrokerOK, NEW p \in Packet, WriteOk(p),
         \/ p.type \in {"CONNECT", "PINGREQ"}
         \/ p.type = "PUBLISH" /\ p.msg \in Msgs
  PROVE  c2s' \in Seq(Packet) /\ ToBrokerOK'
<1>1. CASE c2s' = c2s
  BY <1>1 DEF ToBrokerOK
<1>2. CASE c2s' = Append(c2s, p)
  BY <1>2, SeqAppend DEF ToBrokerOK
<1>3. QED
  BY <1>1, <1>2 DEF WriteOk

LEMMA TypeStep == TypeInv /\ [Next]_vars => TypeInv'
<1> SUFFICES ASSUME TypeInv, [Next]_vars PROVE TypeInv'
  OBVIOUS
<1> USE ClientAssumption DEF ClientAssumption, TypeInv, TypeOK, SenderOK, ToBrokerOK,
        clientVars, timerVars, netVars, histVars
<1>1. ASSUME NEW t \in Publishers, NEW m \in Msgs, PublishBegin(t, m) PROVE TypeInv'
  <2>1. \E id \in 0..IOTX_MC_PACKET_ID_MAX :
          /\ pub' = [pub EXCEPT ![t] = [pc |-> "send", msg |-> m, id |-> id]]
          /\ m \in Qos1Msgs => id # 0
    BY <1>1, NextPacketIdType DEF PublishBegin
  <2>2. pub' \in [Publishers -> PublisherState] /\ SenderOK'
    BY <2>1 DEF PublisherState
  <2>3. packet_id' \in 0..IOTX_MC_PACKET_ID_MAX /\ issued' \in Nat
    BY <1>1, NextPacketIdType DEF PublishBegin
  <2>4. reused' \in BOOLEAN
    BY <1>1 DEF PublishBegin
  <2>5. QED
    BY <1>1, <2>2, <2>3, <2>4 DEF PublishBegin
<1>2. ASSUME NEW t \in Publishers, PublishListFull(t) PROVE TypeInv'
  BY <1>2 DEF PublishListFull, Sending, Idle, PublisherState
<1>3. ASSUME NEW t \in Publishers, PublishSent(t) PROVE TypeInv'
  <2> DEFINE p == Publish(pub[t].id, pub[t].msg)
  <2>1. /\ pub[t].msg \in Msgs /\ pub[t].id \in 0..IOTX_MC_PACKET_ID_MAX
        /\ pub[t].msg \in Qos1Msgs => pub[t].id # 0
    BY <1>3 DEF PublishSent, Sending, PublisherState
  <2>2. c2s' \in Seq(Packet) /\ ToBrokerOK'
    BY <1>3, <2>1, PacketType, WriteType DEF PublishSent
  <2>3. list_pub_wait_ack' \subseteq Node
    BY <1>3, <2>1 DEF PublishSent, NewNode, Node
  <2>4. pub' \in [Publishers -> PublisherState] /\ SenderOK'
    BY <1>3 DEF PublishSent, Idle, PublisherState
  <2>5. QED
    BY <1>3, <2>1, <2>2, <2>3, <2>4 DEF PublishSent
<1>4. ASSUME NEW t \in Publishers, PublishFailed(t) PROVE TypeInv'
  BY <1>4 DEF PublishFailed, Sending, WriteFails, PublisherState
<1>5. ASSUME NEW t \in Publishers, PublishSetState(t) PROVE TypeInv'
  BY <1>5 DEF PublishSetState, Idle, States, PublisherState
<1>6. ASSUME KeepalivePing PROVE TypeInv'
  <2>1. c2s' \in Seq(Packet) /\ ToBrokerOK'
    BY <1>6, PacketType, WriteType DEF KeepalivePing, WriteFails
  <2>2. QED
    BY <1>6, <2>1 DEF KeepalivePing, States
<1>7. ASSUME KeepaliveConnected PROVE TypeInv'
  BY <1>7 DEF KeepaliveConnected
<1>8. ASSUME KeepaliveDisconnected PROVE TypeInv'
  BY <1>8 DEF KeepaliveDisconnected, Socket, States
<1>9. ASSUME KeepaliveWaits PROVE TypeInv'
  BY <1>9 DEF KeepaliveWaits
<1>10. ASSUME TcpConnected PROVE TypeInv'
  BY <1>10 DEF TcpConnected, Socket
<1>11. ASSUME TcpRefused PROVE TypeInv'
  BY <1>11 DEF TcpRefused, Socket, ReconnectFailed, NextInterval, Capped
<1>12. ASSUME ConnectSent PROVE TypeInv'
  <2>1. c2s' \in Seq(Packet) /\ ToBrokerOK'
    BY <1>12, PacketType, WriteType DEF ConnectSent
  <2>2. QED
    BY <1>12, <2>1 DEF ConnectSent
<1>13. ASSUME ConnectNotSent PROVE TypeInv'
  BY <1>13 DEF ConnectNotSent, Socket, ReconnectFailed, NextInterval, Capped
<1>14. ASSUME ConnackAccepted PROVE TypeInv'
  BY <1>14 DEF ConnackAccepted, States
<1>15. ASSUME ConnackRefused PROVE TypeInv'
  BY <1>15 DEF ConnackRefused, Socket, ReconnectFailed, NextInterval, Capped
<1>16. ASSUME ConnackMissing PROVE TypeInv'
  BY <1>16 DEF ConnackMissing, Socket, ReconnectFailed, NextInterval, Capped
<1>17. ASSUME Reconnected PROVE TypeInv'
  BY <1>17 DEF Reconnected, States
<1>18. ASSUME CycleNotConnected PROVE TypeInv'
  BY <1>18 DEF CycleNotConnected
<1>19. ASSUME CycleReadError PROVE TypeInv'
  BY <1>19 DEF CycleReadError, States
<1>20. ASSUME CycleReadNothing PROVE TypeInv'
  BY <1>20 DEF CycleReadNothing, StateAfterProbes, States
<1>21. ASSUME CycleReadPacket PROVE TypeInv'
  <2>1. s2c' \in Seq(Packet)
    BY <1>21, SeqTail DEF CycleReadPacket
  <2>2. list_pub_wait_ack' \subseteq Node
    BY <1>21 DEF CycleReadPacket, Masked, Node
  <2>3. client_state' \in States
    BY <1>21 DEF CycleReadPacket, StateAfterProbes, States
  <2>4. QED
    BY <1>21, <2>1, <2>2, <2>3 DEF CycleReadPacket
<1>22. ASSUME NEW n \in list_pub_wait_ack, ProcRemove(n) PROVE TypeInv'
  BY <1>22 DEF ProcRemove
<1>23. ASSUME NEW n \in list_pub_wait_ack, ProcRepublish(n) PROVE TypeInv'
  <2>1. n.msg_id \in 0..IOTX_MC_PACKET_ID_MAX /\ n.msg \in Msgs
    BY <1>23 DEF Node
  <2>2. c2s' \in Seq(Packet) /\ ToBrokerOK'
    BY <1>23, <2>1, PacketType, WriteType DEF ProcRepublish
  <2>3. list_pub_wait_ack' \subseteq Node
    BY <1>23 DEF ProcRepublish, Restarted, Node
  <2>4. QED
    BY <1>23, <2>2, <2>3 DEF ProcRepublish
<1>24. ASSUME NEW n \in list_pub_wait_ack, ProcRepublishFails(n) PROVE TypeInv'
  BY <1>24 DEF ProcRepublishFails, Restarted, WriteFails, States, Node
<1>25. ASSUME ProcDone PROVE TypeInv'
  BY <1>25 DEF ProcDone
<1>26. ASSUME BrokerReceives PROVE TypeInv'
  <2> DEFINE p == Head(c2s)
  <2>1. CASE session = "open" \/ p.type = "CONNECT"
    <3>1. /\ BrokerAccepts(p) /\ c2s # << >> /\ c2s' = Tail(c2s)
          /\ UNCHANGED <<clientVars, timerVars, yield, pub, event, sock,
                         accepted, refused, issued, reused, faults>>
      BY <1>26, <2>1 DEF BrokerReceives
    <3>2. /\ p \in Packet /\ c2s' \in Seq(Packet)
          /\ \/ p.type \in {"CONNECT", "PINGREQ"}
             \/ p.type = "PUBLISH" /\ p.msg \in Msgs
      BY <3>1, SeqTail
    <3>3. ToBrokerOK'
      BY <3>1, SeqTail
    <3>4. /\ s2c' \in Seq(Packet) /\ received' \subseteq Msgs
          /\ session' \in {"none", "open"}
      <4>1. p.id \in 0..IOTX_MC_PACKET_ID_MAX
        BY <3>2 DEF Packet
      <4>2. CASE p.type = "CONNECT"
        <5>1. /\ s2c' = Append(s2c, Control("CONNACK")) /\ session' = "open"
              /\ received' = received
          BY <3>1, <4>2 DEF BrokerAccepts
        <5>2. QED
          BY <5>1, PacketType, SeqAppend
      <4>3. CASE p.type = "PINGREQ"
        <5>1. /\ s2c' = Append(s2c, Control("PINGRESP")) /\ session' = session
              /\ received' = received
          BY <3>1, <4>3 DEF BrokerAccepts
        <5>2. QED
          BY <5>1, PacketType, SeqAppend
      <4>4. CASE p.type = "PUBLISH"
        <5>1. /\ s2c' = s2c \/ s2c' = Append(s2c, Puback(p.id))
              /\ session' = session /\ received' = received \cup {p.msg}
          BY <3>1, <4>4 DEF BrokerAccepts
        <5>2. p.msg \in Msgs /\ Puback(p.id) \in Packet
          BY <3>2, <4>1, <4>4, PacketType
        <5>3. s2c' \in Seq(Packet)
          BY <5>1, <5>2, SeqAppend
        <5>4. QED
          BY <5>1, <5>2, <5>3
      <4>5. QED
        BY <3>2, <4>2, <4>3, <4>4
    <3>5. QED
      BY <3>1, <3>2, <3>3, <3>4
  <2>2. CASE ~(session = "open" \/ p.type = "CONNECT")
    BY <1>26, <2>2 DEF BrokerReceives, Socket
  <2>3. QED
    BY <2>1, <2>2
<1>27. ASSUME NEW s \in {"dead", "broken"}, NetworkFails(s) PROVE TypeInv'
  BY <1>27 DEF NetworkFails, Socket
<1>28. ASSUME PingTimer PROVE TypeInv'
  BY <1>28 DEF PingTimer
<1>29. ASSUME ReconnectTimer PROVE TypeInv'
  BY <1>29 DEF ReconnectTimer
<1>30. ASSUME NEW m \in Qos1Msgs, NodeTimeout(m) PROVE TypeInv'
  BY <1>30 DEF NodeTimeout, Node
<1>31. ASSUME UNCHANGED vars PROVE TypeInv'
  BY <1>31 DEF vars
<1>32. QED
  BY <1>1, <1>2, <1>3, <1>4, <1>5, <1>6, <1>7, <1>8, <1>9, <1>10, <1>11, <1>12, <1>13, <1>14, <1>15, <1>16, <1>17, <1>18, <1>19, <1>20, <1>21, <1>22, <1>23, <1>24, <1>25, <1>26, <1>27, <1>28, <1>29, <1>30, <1>31 DEF Next, PublishStep, KeepaliveStep, TcpConnect, CycleStep, NetworkStep, ClockStep

\* Type correctness: every variable keeps to its type in every reachable state.
THEOREM TypeCorrect == Spec => []TypeOK
<1>1. TypeInv => TypeOK
  BY DEF TypeInv
<1>2. QED
  BY InitType, TypeStep, <1>1, PTL DEF Spec

-----------------------------------------------------------------------------
(* client_state, the socket and the events.  A socket is closed only by a  *)
(* thread that is on its way from DISCONNECTED to a new connection, and    *)
(* nothing sets CONNECTED before that connection has answered.             *)
LinkInv ==
  /\ client_state = "CONNECTED" => sock # "closed"
  /\ yield \in {"connect", "connack"} => client_state # "CONNECTED"
  /\ yield = "connected" => sock # "closed"
  /\ s2c # << >> => sock = "up"
  /\ client_state = "CONNECTED" /\ yield # "connected" => event = "RECONNECT"

LEMMA LinkStep == TypeInv /\ LinkInv /\ [Next]_vars => LinkInv'
<1> SUFFICES ASSUME TypeInv, LinkInv, [Next]_vars PROVE LinkInv'
  OBVIOUS
<1> USE DEF LinkInv, clientVars, timerVars, netVars, histVars
<1>1. CASE PublishStep
  BY <1>1 DEF PublishStep, PublishBegin, PublishListFull, PublishSent, PublishFailed, PublishSetState
<1>2. CASE KeepaliveStep
  <2>1. CASE KeepalivePing
    BY <2>1 DEF KeepalivePing, PingNow
  <2>2. CASE KeepaliveConnected \/ KeepaliveDisconnected \/ KeepaliveWaits
    BY <2>2 DEF KeepaliveConnected, KeepaliveDisconnected, KeepaliveWaits, AtState, Socket
  <2>3. CASE TcpConnected \/ TcpRefused
    BY <2>3 DEF TcpConnected, TcpRefused, AtState, Socket, ReconnectFailed
  <2>4. CASE ConnectSent \/ ConnectNotSent
    BY <2>4 DEF ConnectSent, ConnectNotSent, Socket, ReconnectFailed
  <2>5. CASE ConnackAccepted
    BY <2>5 DEF ConnackAccepted
  <2>6. CASE ConnackRefused \/ ConnackMissing
    BY <2>6 DEF ConnackRefused, ConnackMissing, Socket, ReconnectFailed
  <2>7. CASE Reconnected
    BY <2>7 DEF Reconnected
  <2>8. QED
    BY <1>2, <2>1, <2>2, <2>3, <2>4, <2>5, <2>6, <2>7 DEF KeepaliveStep, TcpConnect
<1>3. CASE CycleStep
  <2>1. CASE CycleNotConnected \/ CycleReadError \/ CycleReadNothing \/ CycleReadPacket
    BY <2>1 DEF CycleNotConnected, CycleReadError, CycleReadNothing, CycleReadPacket, Reading,
      StateAfterProbes
  <2>2. ASSUME NEW n \in list_pub_wait_ack, ProcRemove(n) \/ ProcRepublish(n) \/ ProcRepublishFails(n)
        PROVE  LinkInv'
    BY <2>2 DEF ProcRemove, ProcRepublish, ProcRepublishFails
  <2>3. CASE ProcDone
    BY <2>3 DEF ProcDone
  <2>4. QED
    BY <1>3, <2>1, <2>2, <2>3 DEF CycleStep
<1>4. CASE NetworkStep
  BY <1>4 DEF NetworkStep, BrokerReceives, NetworkFails, Socket
<1>5. CASE ClockStep
  BY <1>5 DEF ClockStep, PingTimer, ReconnectTimer, NodeTimeout
<1>6. CASE UNCHANGED vars
  BY <1>6 DEF vars
<1>7. QED
  BY <1>1, <1>2, <1>3, <1>4, <1>5, <1>6 DEF Next

\* A client marked as connected has a socket, whichever thread wrote client_state last.
THEOREM ConnectedClientHasSocket == Spec => []ConnectedMeansOpen
<1>1. Init => LinkInv
  BY DEF Init, LinkInv
<1>2. LinkInv => ConnectedMeansOpen
  BY DEF LinkInv, ConnectedMeansOpen
<1>3. QED
  BY InitType, TypeStep, LinkStep, <1>1, <1>2, PTL DEF Spec

\* A connected client has announced it: the last event callback was RECONNECT.
THEOREM ConnectedClientIsAnnounced == Spec => []ConnectedIsAnnounced
<1>1. Init => LinkInv
  BY DEF Init, LinkInv
<1>2. LinkInv => ConnectedIsAnnounced
  BY DEF LinkInv, ConnectedIsAnnounced
<1>3. QED
  BY InitType, TypeStep, LinkStep, <1>1, <1>2, PTL DEF Spec

-----------------------------------------------------------------------------
(* The reconnection wait.  While the client waits to reconnect, the wait   *)
(* is at most what the interval allows, so that doubling the interval      *)
(* cannot shorten it.                                                      *)
WaitInv ==
  /\ WaitWithinLimits
  /\ IOTX_MC_RECONNECT_INTERVAL_MIN_MS <= interval
  /\ client_state = "DISCONNECTED_RECONNECTING" => wait <= Capped(interval)

LEMMA CappedBounds ==
  ASSUME NEW ms \in Nat, IOTX_MC_RECONNECT_INTERVAL_MIN_MS <= ms
  PROVE  /\ Capped(ms) \in Nat
         /\ IOTX_MC_RECONNECT_INTERVAL_MIN_MS <= Capped(ms)
         /\ Capped(ms) <= IOTX_MC_RECONNECT_INTERVAL_MAX_MS
BY ClientAssumption DEF ClientAssumption, Capped

LEMMA NextIntervalGrows ==
  ASSUME interval \in Nat, IOTX_MC_RECONNECT_INTERVAL_MIN_MS <= interval
  PROVE  /\ NextInterval \in Nat
         /\ IOTX_MC_RECONNECT_INTERVAL_MIN_MS <= NextInterval
         /\ Capped(interval) <= Capped(NextInterval)
BY ClientAssumption DEF ClientAssumption, NextInterval, Capped

\* A failed attempt keeps the wait within its limits and does not shorten it.
LEMMA FailedAttempt ==
  ASSUME TypeInv, WaitInv, ReconnectFailed
  PROVE  /\ WaitWithinLimits'
         /\ IOTX_MC_RECONNECT_INTERVAL_MIN_MS <= interval'
         /\ wait' = Capped(interval)'
         /\ client_state = "DISCONNECTED_RECONNECTING" => wait <= wait'
<1>1. interval \in Nat /\ wait \in Nat
  BY DEF TypeInv, TypeOK
<1>2. interval' = NextInterval /\ wait' = Capped(NextInterval)
  BY DEF ReconnectFailed
<1>3. /\ NextInterval \in Nat /\ IOTX_MC_RECONNECT_INTERVAL_MIN_MS <= NextInterval
      /\ Capped(interval) <= Capped(NextInterval)
  BY <1>1, NextIntervalGrows DEF WaitInv
<1>4. /\ WaitWithinLimits' /\ wait' = Capped(interval)'
  BY <1>2, <1>3, CappedBounds DEF WaitWithinLimits, Capped
<1>5. client_state = "DISCONNECTED_RECONNECTING" => wait <= wait'
  BY <1>1, <1>2, <1>3, CappedBounds, ClientAssumption DEF WaitInv, ClientAssumption
<1>6. QED
  BY <1>2, <1>3, <1>4, <1>5

\* What a step does to the wait: it leaves wait and interval alone, or it is a failed
\* attempt, a lost connection or a reconnection.
LEMMA WaitCases ==
  ASSUME [Next]_vars
  PROVE  \/ /\ UNCHANGED <<interval, wait>>
            /\ client_state' = "DISCONNECTED_RECONNECTING"
                 => client_state = "DISCONNECTED_RECONNECTING"
         \/ /\ ReconnectFailed
            /\ (yield \in {"connect", "connack"}
                \/ client_state = "DISCONNECTED_RECONNECTING")
         \/ KeepaliveDisconnected
         \/ Reconnected
<1> USE DEF clientVars, timerVars, netVars, histVars
<1>1. CASE PublishStep
  BY <1>1 DEF PublishStep, PublishBegin, PublishListFull, PublishSent, PublishFailed, PublishSetState
<1>2. CASE KeepaliveStep
  <2>1. CASE KeepalivePing \/ KeepaliveConnected \/ KeepaliveWaits
    BY <2>1 DEF KeepalivePing, KeepaliveConnected, KeepaliveWaits
  <2>2. CASE TcpConnected \/ ConnectSent \/ ConnackAccepted
    BY <2>2 DEF TcpConnected, ConnectSent, ConnackAccepted
  <2>3. CASE TcpRefused
    BY <2>3 DEF TcpRefused, AtState
  <2>4. CASE ConnectNotSent \/ ConnackRefused \/ ConnackMissing
    BY <2>4 DEF ConnectNotSent, ConnackRefused, ConnackMissing
  <2>5. QED
    BY <1>2, <2>1, <2>2, <2>3, <2>4 DEF KeepaliveStep, TcpConnect
<1>3. CASE CycleStep
  <2>1. CASE CycleNotConnected \/ CycleReadError \/ CycleReadNothing \/ CycleReadPacket
    BY <2>1 DEF CycleNotConnected, CycleReadError, CycleReadNothing, CycleReadPacket, Reading,
      StateAfterProbes
  <2>2. ASSUME NEW n \in list_pub_wait_ack, ProcRemove(n) \/ ProcRepublish(n) \/ ProcRepublishFails(n)
        PROVE  /\ UNCHANGED <<interval, wait>>
               /\ client_state' = "DISCONNECTED_RECONNECTING"
                    => client_state = "DISCONNECTED_RECONNECTING"
    BY <2>2 DEF ProcRemove, ProcRepublish, ProcRepublishFails
  <2>3. CASE ProcDone
    BY <2>3 DEF ProcDone
  <2>4. QED
    BY <1>3, <2>1, <2>2, <2>3 DEF CycleStep
<1>4. CASE NetworkStep
  BY <1>4 DEF NetworkStep, BrokerReceives, NetworkFails
<1>5. CASE ClockStep
  BY <1>5 DEF ClockStep, PingTimer, ReconnectTimer, NodeTimeout
<1>6. CASE UNCHANGED vars
  BY <1>6 DEF vars
<1>7. QED
  BY <1>1, <1>2, <1>3, <1>4, <1>5, <1>6 DEF Next

LEMMA WaitStep == TypeInv /\ WaitInv /\ [Next]_vars => WaitInv'
<1> SUFFICES ASSUME TypeInv, WaitInv, [Next]_vars PROVE WaitInv'
  OBVIOUS
<1>1. CASE /\ UNCHANGED <<interval, wait>>
           /\ client_state' = "DISCONNECTED_RECONNECTING"
                => client_state = "DISCONNECTED_RECONNECTING"
  BY <1>1 DEF WaitInv, WaitWithinLimits, Capped
<1>2. CASE ReconnectFailed
  <2>1. wait' \in Nat
    BY TypeStep DEF TypeInv, TypeOK
  <2>2. QED
    BY <1>2, <2>1, FailedAttempt DEF WaitInv
<1>3. CASE KeepaliveDisconnected
  BY <1>3, ClientAssumption DEF ClientAssumption, KeepaliveDisconnected, WaitInv, WaitWithinLimits,
    Capped
<1>4. CASE Reconnected
  BY <1>4, ClientAssumption DEF ClientAssumption, Reconnected, WaitInv, WaitWithinLimits
<1>5. QED
  BY <1>1, <1>2, <1>3, <1>4, WaitCases

\* The wait that is armed lies within the configured limits.
THEOREM WaitIsLimited == Spec => []WaitWithinLimits
<1>1. Init => WaitInv
  BY ClientAssumption DEF ClientAssumption, Init, WaitInv, WaitWithinLimits, Capped
<1>2. WaitInv => WaitWithinLimits
  BY DEF WaitInv
<1>3. QED
  BY InitType, TypeStep, WaitStep, <1>1, <1>2, PTL DEF Spec

\* The wait shrinks only when a connection was lost.
THEOREM WaitGrows == Spec => WaitNeverShrinks
<1>1. Init => LinkInv /\ WaitInv
  BY ClientAssumption DEF ClientAssumption, Init, LinkInv, WaitInv, WaitWithinLimits, Capped
<1>2. TypeInv /\ LinkInv /\ WaitInv /\ [Next]_vars
        => [wait' < wait => client_state = "DISCONNECTED"]_vars
  <2> SUFFICES ASSUME TypeInv, LinkInv, WaitInv, [Next]_vars, wait' < wait
               PROVE  client_state = "DISCONNECTED"
    OBVIOUS
  <2>1. wait \in Nat /\ wait' \in Nat /\ client_state \in States
    BY TypeStep DEF TypeInv, TypeOK
  <2>2. CASE UNCHANGED <<interval, wait>>
    BY <2>1, <2>2
  <2>3. CASE ReconnectFailed /\ (yield \in {"connect", "connack"}
                                 \/ client_state = "DISCONNECTED_RECONNECTING")
    BY <2>1, <2>3, FailedAttempt DEF LinkInv, States
  <2>4. CASE KeepaliveDisconnected
    BY <2>4 DEF KeepaliveDisconnected, AtState
  <2>5. CASE Reconnected
    BY <2>1, <2>5 DEF Reconnected
  <2>6. QED
    BY <2>2, <2>3, <2>4, <2>5, WaitCases
<1>3. QED
  BY InitType, TypeStep, LinkStep, WaitStep, <1>1, <1>2, PTL DEF Spec, WaitNeverShrinks
=============================================================================
